----------------------- MODULE InstallIdentityProofs -----------------------
(***************************************************************************)
(* Proofs about InstallIdentity for any kegs, plists, processes and        *)
(* labels.  The state machine of plistProgram finds the program of every   *)
(* job that has one, among the jobs whose arrays are of strings.  As long  *)
(* as the plist of a running job stays as it is, at most one process       *)
(* manages upgrades, whatever changes between the steps of a probe.        *)
(***************************************************************************)
EXTENDS InstallIdentity, FiniteSetTheorems, SequenceTheorems, WellFoundedInduction, TLAPS

-----------------------------------------------------------------------------
(* Induction over the natural numbers.                                     *)

\* A set of natural numbers has a least element: initial segments are ordered
\* by inclusion, which is well-founded on finite sets.
LEMMA LeastNatural ==
  ASSUME NEW N, N \subseteq Nat, N # {}
  PROVE  \E n \in N : \A m \in N : n <= m
<1> DEFINE T == {0 .. n : n \in N}
           R == StrictSubsetOrdering(Nat)
           S == FiniteSubsetsOf(Nat)
<1>1. IsWellFoundedOn(R, S)
  BY FS_StrictSubsetOrderingWellFounded
<1>2. T \subseteq S /\ T # {}
  <2>1. \A n \in N : IsFiniteSet(0 .. n) /\ 0 .. n \in SUBSET Nat
    BY FS_Interval
  <2> QED BY <2>1 DEF FiniteSubsetsOf
<1>3. \E x \in T : \A y \in T : <<y, x>> \notin R
  <2> HIDE DEF T, R, S
  <2> QED BY <1>1, <1>2, WFMin
<1>4. PICK n \in N : \A m \in N : <<0 .. m, 0 .. n>> \notin R
  BY <1>3
<1>5. ASSUME NEW m \in N, ~ n <= m PROVE FALSE
  <2>1. 0 .. m \subseteq 0 .. n /\ n \in 0 .. n /\ n \notin 0 .. m
    BY <1>5
  <2>2. 0 .. m \in SUBSET Nat /\ 0 .. n \in SUBSET Nat
    OBVIOUS
  <2> QED BY <1>4, <2>1, <2>2 DEF StrictSubsetOrdering
<1> QED BY <1>5

\* What holds of 0, and of n + 1 if it holds of n, holds of every n.
LEMMA Induction ==
  ASSUME NEW S, 0 \in S, \A n \in Nat : n \in S => n + 1 \in S
  PROVE  Nat \subseteq S
<1> SUFFICES ASSUME Nat \ S # {} PROVE FALSE
  OBVIOUS
<1>1. PICK n \in Nat \ S : \A m \in Nat \ S : n <= m
  BY LeastNatural
<1>2. n # 0 /\ n - 1 \in Nat /\ n - 1 \in S
  BY <1>1
<1> QED BY <1>1, <1>2

-----------------------------------------------------------------------------
(* Reading tokens one by one, and sequences one after the other.           *)

\* state is what the machine goes through when it reads tokens from s.
Runs(state, s, tokens) ==
    /\ state[0] = s
    /\ \A i \in 1 .. Len(tokens) : state[i] = Read(state[i - 1], tokens[i])

\* The recursion of ReadAll has a solution.
LEMMA ReadAllRuns ==
  ASSUME NEW s, NEW tokens, Len(tokens) \in Nat
  PROVE  \E state : Runs(state, s, tokens) /\ ReadAll(s, tokens) = state[Len(tokens)]
<1> DEFINE Len0 == Len(tokens)
           Prefix(n, g) == /\ g[0] = s
                           /\ \A i \in 1 .. n : g[i] = Read(g[i - 1], tokens[i])
           S == {n \in Nat : \E g : Prefix(n, g)}
           Body(g) == [i \in 0 .. Len0 |->
                         IF i = 0 THEN s ELSE Read(g[i - 1], tokens[i])]
<1>1. 0 \in S
  <2>1. Prefix(0, [i \in 0 .. 0 |-> s])
    OBVIOUS
  <2> QED BY <2>1
<1>2. ASSUME NEW n \in Nat, n \in S PROVE n + 1 \in S
  <2>1. PICK g : Prefix(n, g)
    BY <1>2
  <2> DEFINE h == [i \in 0 .. n + 1 |-> IF i = n + 1 THEN Read(g[n], tokens[n + 1])
                                                     ELSE g[i]]
  <2>2. h[0] = s
    BY <2>1
  <2>3. ASSUME NEW i \in 1 .. n + 1 PROVE h[i] = Read(h[i - 1], tokens[i])
    <3>1. CASE i = n + 1
      <4>1. h[i] = Read(g[n], tokens[n + 1]) /\ h[i - 1] = g[n]
        BY <3>1
      <4> QED BY <3>1, <4>1
    <3>2. CASE i \in 1 .. n
      <4>1. h[i] = g[i] /\ h[i - 1] = g[i - 1]
        BY <3>2
      <4> QED BY <2>1, <3>2, <4>1
    <3> QED BY <3>1, <3>2
  <2>4. Prefix(n + 1, h)
    BY <2>2, <2>3
  <2>5. \E f : Prefix(n + 1, f)
    <3> HIDE DEF h
    <3> QED BY <2>4
  <2> QED BY <2>5
<1>3. Len0 \in S
  <2> HIDE DEF S
  <2>1. Nat \subseteq S
    BY <1>1, <1>2, Induction
  <2> QED BY <2>1
<1>4. PICK g : Prefix(Len0, g)
  BY <1>3
<1>5. \E f : f = Body(f)
  <2> DEFINE f == [i \in 0 .. Len0 |-> g[i]]
  <2>1. \A i \in 0 .. Len0 : f[i] = IF i = 0 THEN s ELSE Read(f[i - 1], tokens[i])
    BY <1>4
  <2>2. f = Body(f)
    BY <2>1
  <2> QED BY <2>2
<1> DEFINE state == CHOOSE f : f = Body(f)
<1>6. state = Body(state)
  BY <1>5
<1>7. ReadAll(s, tokens) = state[Len0]
  BY DEF ReadAll
<1> HIDE DEF state
<1>8. Runs(state, s, tokens)
  <2>1. state[0] = s
    BY <1>6
  <2>2. \A i \in 1 .. Len0 : state[i] = Read(state[i - 1], tokens[i])
    BY <1>6
  <2> QED BY <2>1, <2>2 DEF Runs
<1> QED BY <1>7, <1>8

\* It has only one.
LEMMA ReadAllIs ==
  ASSUME NEW s, NEW tokens, Len(tokens) \in Nat, NEW state, Runs(state, s, tokens)
  PROVE  ReadAll(s, tokens) = state[Len(tokens)]
<1>1. PICK f : Runs(f, s, tokens) /\ ReadAll(s, tokens) = f[Len(tokens)]
  BY ReadAllRuns
<1> DEFINE S == {n \in Nat : n <= Len(tokens) => f[n] = state[n]}
<1>2. 0 \in S
  BY <1>1 DEF Runs
<1>3. ASSUME NEW n \in Nat, n \in S PROVE n + 1 \in S
  <2> SUFFICES ASSUME n + 1 <= Len(tokens) PROVE f[n + 1] = state[n + 1]
    OBVIOUS
  <2>1. f[n] = state[n] /\ n + 1 \in 1 .. Len(tokens) /\ (n + 1) - 1 = n
    BY <1>3
  <2> QED BY <1>1, <2>1 DEF Runs
<1>4. Nat \subseteq S
  <2> HIDE DEF S
  <2> QED BY <1>2, <1>3, Induction
<1> QED BY <1>1, <1>4

\* Nothing is read, one token is read.
LEMMA ReadNone == ASSUME NEW s PROVE ReadAll(s, <<>>) = s
<1>1. Len(<<>>) = 0
  OBVIOUS
<1>2. Runs([i \in {0} |-> s], s, <<>>)
  BY <1>1 DEF Runs
<1> QED BY <1>1, <1>2, ReadAllIs

LEMMA ReadOne == ASSUME NEW s, NEW t PROVE ReadAll(s, <<t>>) = Read(s, t)
<1> DEFINE state == [i \in 0 .. 1 |-> IF i = 0 THEN s ELSE Read(s, t)]
<1>1. Len(<<t>>) = 1 /\ <<t>>[1] = t
  OBVIOUS
<1>2. Runs(state, s, <<t>>)
  BY <1>1 DEF Runs
<1>3. state[1] = Read(s, t)
  OBVIOUS
<1> HIDE DEF state
<1> QED BY <1>1, <1>2, <1>3, ReadAllIs

\* Two sequences are read one after the other.
LEMMA ReadConcat ==
  ASSUME NEW s, NEW T, NEW a \in Seq(T), NEW b \in Seq(T)
  PROVE  ReadAll(s, a \o b) = ReadAll(ReadAll(s, a), b)
<1>0. Len(a) \in Nat /\ Len(b) \in Nat /\ Len(a \o b) = Len(a) + Len(b)
  OBVIOUS
<1>1. PICK f : Runs(f, s, a) /\ ReadAll(s, a) = f[Len(a)]
  BY <1>0, ReadAllRuns
<1>2. PICK g : Runs(g, ReadAll(s, a), b) /\ ReadAll(ReadAll(s, a), b) = g[Len(b)]
  BY <1>0, ReadAllRuns
<1> DEFINE h == [i \in 0 .. Len(a) + Len(b) |->
                   IF i <= Len(a) THEN f[i] ELSE g[i - Len(a)]]
<1>3. h[0] = s
  BY <1>0, <1>1 DEF Runs
<1>4. h[Len(a)] = g[0] /\ \A i \in 1 .. Len(b) : h[Len(a) + i] = g[i]
  BY <1>0, <1>1, <1>2 DEF Runs
<1>5. ASSUME NEW i \in 1 .. Len(a) + Len(b)
      PROVE  h[i] = Read(h[i - 1], (a \o b)[i])
  <2>1. CASE i <= Len(a)
    <3>1. (a \o b)[i] = a[i] /\ i \in 1 .. Len(a)
      BY <1>0, <2>1
    <3> QED BY <1>0, <1>1, <2>1, <3>1 DEF Runs
  <2>2. CASE i > Len(a)
    <3> DEFINE j == i - Len(a)
    <3>1. (a \o b)[i] = b[j] /\ j \in 1 .. Len(b) /\ i = Len(a) + j
      BY <1>0, <2>2
    <3>2. h[i] = g[j]
      BY <1>0, <2>2
    <3>3. h[i - 1] = g[j - 1]
      <4>1. CASE j = 1
        BY <1>0, <1>4, <3>1, <4>1
      <4>2. CASE j - 1 \in 1 .. Len(b)
        <5>1. h[Len(a) + (j - 1)] = g[j - 1]
          BY <1>4, <4>2
        <5>2. Len(a) + (j - 1) = i - 1
          BY <1>0, <3>1
        <5> QED BY <5>1, <5>2
      <4> QED BY <1>0, <3>1, <4>1, <4>2
    <3> QED BY <1>2, <3>1, <3>2, <3>3 DEF Runs
  <2> QED BY <1>0, <2>1, <2>2
<1>6. Runs(h, s, a \o b)
  BY <1>0, <1>3, <1>5 DEF Runs
<1>7. h[Len(a) + Len(b)] = g[Len(b)]
  BY <1>0, <1>4, <1>2
<1> HIDE DEF h
<1>8. Len(a \o b) \in Nat
  BY <1>0
<1>9. ReadAll(s, a \o b) = h[Len(a \o b)]
  BY <1>6, <1>8, ReadAllIs
<1> QED BY <1>0, <1>2, <1>7, <1>9

-----------------------------------------------------------------------------
(* Reading a sequence of sequences of tokens.                              *)

\* The prefixes of a flattened sequence of sequences.
LEMMA FlattenSeqPrefixes ==
  ASSUME NEW T, NEW seqs, Len(seqs) \in Nat, Len(seqs) > 0,
         \A i \in 1 .. Len(seqs) : seqs[i] \in Seq(T)
  PROVE  \E f : /\ f[1] = seqs[1]
                /\ \A i \in 2 .. Len(seqs) : f[i] = f[i - 1] \o seqs[i]
                /\ \A i \in 1 .. Len(seqs) : f[i] \in Seq(T)
                /\ FlattenSeq(seqs) = f[Len(seqs)]
<1> DEFINE N == Len(seqs)
           Prefix(n, g) == /\ n >= 1 => g[1] = seqs[1]
                           /\ \A i \in 2 .. n : g[i] = g[i - 1] \o seqs[i]
                           /\ \A i \in 1 .. n : g[i] \in Seq(T)
           S == {n \in Nat : n <= N => \E g : Prefix(n, g)}
           Body(g) == [i \in 1 .. N |-> IF i = 1 THEN seqs[i] ELSE g[i - 1] \o seqs[i]]
<1>0. N \in Nat /\ N > 0 /\ \A i \in 1 .. N : seqs[i] \in Seq(T)
  OBVIOUS
<1> HIDE DEF N
<1>1. 0 \in S
  <2>1. Prefix(0, [i \in {} |-> i])
    OBVIOUS
  <2>2. \E g : Prefix(0, g)
    <3> HIDE DEF Prefix
    <3> QED BY <2>1
  <2> QED BY <2>2
<1>2. ASSUME NEW n \in Nat, n \in S PROVE n + 1 \in S
  <2> SUFFICES ASSUME n + 1 <= N PROVE \E g : Prefix(n + 1, g)
    <3> HIDE DEF Prefix
    <3> QED OBVIOUS
  <2>0. n <= N
    BY <1>0
  <2>1. PICK g : Prefix(n, g)
    <3> HIDE DEF Prefix
    <3> QED BY <1>2, <2>0
  <2> DEFINE next == IF n = 0 THEN seqs[1] ELSE g[n] \o seqs[n + 1]
             h == [i \in 1 .. n + 1 |-> IF i = n + 1 THEN next ELSE g[i]]
  <2>2. next \in Seq(T)
    <3>1. CASE n = 0
      BY <1>0, <3>1
    <3>2. CASE n > 0
      <4>1. g[n] \in Seq(T) /\ seqs[n + 1] \in Seq(T)
        <5>1. n \in 1 .. n /\ n + 1 \in 1 .. N
          BY <1>0, <3>2
        <5>2. g[n] \in Seq(T)
          BY <2>1, <5>1
        <5> DEFINE m == n + 1
        <5>3. m \in 1 .. N
          BY <5>1
        <5> HIDE DEF m
        <5>4. seqs[m] \in Seq(T)
          BY <1>0, <5>3
        <5> QED BY <5>2, <5>4 DEF m
      <4>2. n # 0
        BY <3>2
      <4>3. next = g[n] \o seqs[n + 1]
        BY <4>2
      <4> HIDE DEF next
      <4> QED BY <4>1, <4>3
    <3> QED BY <3>1, <3>2
  <2>3. h[1] = seqs[1]
    <3>1. CASE n = 0
      BY <3>1
    <3>2. CASE n > 0
      BY <2>1, <3>2
    <3> QED BY <3>1, <3>2
  <2>4. ASSUME NEW i \in 2 .. n + 1 PROVE h[i] = h[i - 1] \o seqs[i]
    <3>1. CASE i = n + 1
      <4>1. n # 0 /\ i - 1 \in 1 .. n + 1 /\ i - 1 = n
        BY <3>1
      <4>2. next = g[n] \o seqs[n + 1]
        BY <4>1
      <4> HIDE DEF next
      <4>3. h[i] = next /\ h[i - 1] = g[n]
        BY <3>1, <4>1
      <4> QED BY <3>1, <4>2, <4>3
    <3>2. CASE i \in 2 .. n
      <4>1. h[i] = g[i] /\ h[i - 1] = g[i - 1]
        BY <3>2
      <4> QED BY <2>1, <3>2, <4>1
    <3>3. i = n + 1 \/ i \in 2 .. n
      OBVIOUS
    <3> HIDE DEF h
    <3> QED BY <3>1, <3>2, <3>3
  <2>5. ASSUME NEW i \in 1 .. n + 1 PROVE h[i] \in Seq(T)
    <3> HIDE DEF next
    <3>1. CASE i = n + 1
      BY <2>2, <3>1
    <3>2. CASE i \in 1 .. n
      BY <2>1, <3>2
    <3> QED BY <3>1, <3>2
  <2> HIDE DEF h
  <2>6. Prefix(n + 1, h)
    BY <2>3, <2>4, <2>5
  <2> HIDE DEF Prefix
  <2> QED BY <2>6
<1>3. N \in S
  <2> HIDE DEF S
  <2>1. Nat \subseteq S
    BY <1>1, <1>2, Induction
  <2> QED BY <1>0, <2>1
<1>4. PICK g : Prefix(N, g)
  <2> HIDE DEF Prefix
  <2> QED BY <1>0, <1>3
<1>5. \E f : f = Body(f)
  <2> DEFINE f == [i \in 1 .. N |-> g[i]]
  <2>1. ASSUME NEW i \in 1 .. N
        PROVE  f[i] = IF i = 1 THEN seqs[i] ELSE f[i - 1] \o seqs[i]
    <3>1. CASE i = 1
      BY <1>0, <1>4, <3>1
    <3>2. CASE i \in 2 .. N
      <4>1. f[i] = g[i] /\ f[i - 1] = g[i - 1]
        BY <1>0, <3>2
      <4>2. g[i] = g[i - 1] \o seqs[i]
        BY <1>4, <3>2
      <4>3. i # 1
        BY <1>0, <3>2
      <4> HIDE DEF f
      <4> QED BY <4>1, <4>2, <4>3
    <3> QED BY <1>0, <3>1, <3>2
  <2>2. f = Body(f)
    BY <2>1
  <2> HIDE DEF f
  <2> QED BY <2>2
<1> DEFINE flatten == CHOOSE f : f = Body(f)
<1>6. flatten = Body(flatten)
  BY <1>5
<1>7. FlattenSeq(seqs) = flatten[N]
  BY DEF FlattenSeq, N
<1> HIDE DEF flatten
<1>8. /\ flatten[1] = seqs[1]
      /\ \A i \in 2 .. N : flatten[i] = flatten[i - 1] \o seqs[i]
  <2>1. /\ 1 \in 1 .. N
        /\ \A i \in 2 .. N : i \in 1 .. N /\ i # 1
    BY <1>0
  <2>2. \A i \in 1 .. N : flatten[i] = IF i = 1 THEN seqs[i] ELSE flatten[i - 1] \o seqs[i]
    BY <1>6
  <2> QED BY <2>1, <2>2
<1> DEFINE U == {n \in Nat : n + 1 <= N => flatten[n + 1] \in Seq(T)}
<1>9. 0 \in U
  BY <1>0, <1>8
<1>10. ASSUME NEW n \in Nat, n \in U PROVE n + 1 \in U
  <2> SUFFICES ASSUME n + 2 <= N PROVE flatten[n + 2] \in Seq(T)
    OBVIOUS
  <2>1. flatten[n + 1] \in Seq(T) /\ seqs[n + 2] \in Seq(T)
    BY <1>0, <1>10
  <2>2. flatten[n + 2] = flatten[n + 1] \o seqs[n + 2]
    <3>1. n + 2 \in 2 .. N /\ (n + 2) - 1 = n + 1
      BY <1>0
    <3> QED BY <1>8, <3>1
  <2> QED BY <2>1, <2>2
<1>11. Nat \subseteq U
  <2> HIDE DEF U
  <2> QED BY <1>9, <1>10, Induction
<1>12. ASSUME NEW i \in 1 .. N PROVE flatten[i] \in Seq(T)
  <2>1. i - 1 \in Nat /\ (i - 1) + 1 = i /\ i <= N
    BY <1>0
  <2>2. i - 1 \in U
    <3> HIDE DEF U
    <3> QED BY <1>11, <2>1
  <2> QED BY <2>1, <2>2
<1> QED BY <1>7, <1>8, <1>12 DEF N

\* What a flattened sequence of sequences consists of.
LEMMA FlattenSeqTyped ==
  ASSUME NEW T, NEW seqs \in Seq(Seq(T))
  PROVE  FlattenSeq(seqs) \in Seq(T)
<1>1. Len(seqs) \in Nat /\ \A i \in 1 .. Len(seqs) : seqs[i] \in Seq(T)
  OBVIOUS
<1>2. CASE seqs = <<>>
  BY <1>2 DEF FlattenSeq
<1>3. CASE Len(seqs) > 0
  <2>1. PICK f : /\ \A i \in 1 .. Len(seqs) : f[i] \in Seq(T)
                 /\ FlattenSeq(seqs) = f[Len(seqs)]
    BY <1>1, <1>3, FlattenSeqPrefixes
  <2>2. Len(seqs) \in 1 .. Len(seqs)
    BY <1>1, <1>3
  <2> QED BY <2>1, <2>2
<1>4. seqs = <<>> \/ Len(seqs) > 0
  BY EmptySeq
<1> QED BY <1>2, <1>3, <1>4

\* Reading part by part: before[i] are states in which the first i parts may
\* leave the machine.
LEMMA ReadParts ==
  ASSUME NEW T, NEW seqs, Len(seqs) \in Nat,
         \A i \in 1 .. Len(seqs) : seqs[i] \in Seq(T),
         seqs = <<>> \/ Len(seqs) > 0,
         NEW before, NEW s, s \in before[0],
         \A i \in 1 .. Len(seqs) : \A r \in before[i - 1] :
            ReadAll(r, seqs[i]) \in before[i]
  PROVE  /\ FlattenSeq(seqs) \in Seq(T)
         /\ ReadAll(s, FlattenSeq(seqs)) \in before[Len(seqs)]
<1>1. CASE seqs = <<>>
  <2>1. Len(seqs) = 0 /\ FlattenSeq(seqs) = <<>>
    BY <1>1 DEF FlattenSeq
  <2>2. <<>> \in Seq(T)
    OBVIOUS
  <2> QED BY <2>1, <2>2, ReadNone
<1>2. CASE Len(seqs) > 0
  <2>1. PICK f : /\ f[1] = seqs[1]
                 /\ \A i \in 2 .. Len(seqs) : f[i] = f[i - 1] \o seqs[i]
                 /\ \A i \in 1 .. Len(seqs) : f[i] \in Seq(T)
                 /\ FlattenSeq(seqs) = f[Len(seqs)]
    BY <1>2, FlattenSeqPrefixes
  <2> DEFINE S == {n \in Nat : n + 1 <= Len(seqs) => ReadAll(s, f[n + 1]) \in before[n + 1]}
  <2>2. 0 \in S
    <3>1. 1 \in 1 .. Len(seqs) /\ 1 - 1 = 0
      BY <1>2
    <3>2. ReadAll(s, seqs[1]) \in before[1]
      BY <3>1
    <3> QED BY <2>1, <3>2
  <2>3. ASSUME NEW n \in Nat, n \in S PROVE n + 1 \in S
    <3> SUFFICES ASSUME n + 2 <= Len(seqs) PROVE ReadAll(s, f[n + 2]) \in before[n + 2]
      OBVIOUS
    <3>1. ReadAll(s, f[n + 1]) \in before[n + 1]
      BY <2>3
    <3>2. /\ n + 1 \in 1 .. Len(seqs) /\ n + 2 \in 2 .. Len(seqs)
          /\ n + 2 \in 1 .. Len(seqs) /\ (n + 2) - 1 = n + 1
      OBVIOUS
    <3>3. f[n + 2] = f[n + 1] \o seqs[n + 2]
      BY <2>1, <3>2
    <3>4. f[n + 1] \in Seq(T) /\ seqs[n + 2] \in Seq(T)
      BY <2>1, <3>2
    <3>5. ReadAll(s, f[n + 2]) = ReadAll(ReadAll(s, f[n + 1]), seqs[n + 2])
      BY <3>3, <3>4, ReadConcat
    <3> QED BY <3>1, <3>2, <3>5
  <2>4. Len(seqs) - 1 \in S
    <3> HIDE DEF S
    <3>1. Nat \subseteq S
      BY <2>2, <2>3, Induction
    <3> QED BY <1>2, <3>1
  <2>5. Len(seqs) \in 1 .. Len(seqs) /\ (Len(seqs) - 1) + 1 = Len(seqs)
    BY <1>2
  <2> QED BY <2>1, <2>4, <2>5
<1> QED BY <1>1, <1>2
-----------------------------------------------------------------------------
(* The tokens of a plist over the strings T, and the states of the machine.*)


\* Tokens other than those of a dictionary.
Tokens(T) == [tag : {"key", "string", "array", "/array", "true"}, text : T \cup {""}]
States(T) == [program : T \cup {""}, inArgs : BOOLEAN, args : Seq(T),
              pending : T \cup {""}, open : Int]

\* Sequences, in the form the proofs below need.
LEMMA ConcatThree ==
  ASSUME NEW T, NEW a \in Seq(T), NEW b \in Seq(T), NEW c \in Seq(T)
  PROVE  (a \o b) \o c = a \o (b \o c)
BY ConcatAssociative

\* One token is a sequence.
LEMMA OneIsSeq == ASSUME NEW T, NEW t \in T PROVE <<t>> \in Seq(T)
OBVIOUS

\* The arguments grow by the next string of the array.
LEMMA AppendNext ==
  ASSUME NEW T, NEW a \in Seq(T), NEW items \in Seq(T), NEW i \in 1 .. Len(items)
  PROVE  Append(a \o SubSeq(items, 1, i - 1), items[i]) = a \o SubSeq(items, 1, i)
<1> DEFINE p == SubSeq(items, 1, i - 1)
           t == items[i]
<1>1. p \in Seq(T) /\ t \in T /\ <<t>> \in Seq(T)
  OBVIOUS
<1>2. SubSeq(items, 1, i) = Append(p, t)
  OBVIOUS
<1> HIDE DEF p, t
<1>3. Append(p, t) = p \o <<t>>
  BY <1>1, AppendIsConcat
<1>4. a \o p \in Seq(T)
  BY <1>1
<1>5. Append(a \o p, t) = (a \o p) \o <<t>>
  BY <1>1, <1>4, AppendIsConcat
<1>6. (a \o p) \o <<t>> = a \o (p \o <<t>>)
  BY <1>1, ConcatThree
<1> QED BY <1>2, <1>3, <1>5, <1>6 DEF p, t

\* Types of tokens and states.
LEMMA TokenIs ==
  ASSUME NEW T, NEW tag \in {"key", "string", "array", "/array", "true"},
         NEW text \in T \cup {""}
  PROVE  Token(tag, text) \in Tokens(T) /\ <<Token(tag, text)>> \in Seq(Tokens(T))
<1>1. Token(tag, text) \in Tokens(T)
  BY DEF Token, Tokens
<1> QED BY <1>1, OneIsSeq

\* What a state holds.
LEMMA StateIs ==
  ASSUME NEW T, NEW s \in States(T)
  PROVE  /\ s.program \in T \cup {""} /\ s.inArgs \in BOOLEAN /\ s.args \in Seq(T)
         /\ s.pending \in T \cup {""} /\ s.open \in Int
BY DEF States

\* Tokens that do not change the state.
LEMMA Ignored ==
  ASSUME NEW s, NEW tokens, Len(tokens) \in Nat,
         \A i \in 1 .. Len(tokens) : Read(s, tokens[i]) = s
  PROVE  ReadAll(s, tokens) = s
<1> DEFINE state == [i \in 0 .. Len(tokens) |-> s]
<1>1. Runs(state, s, tokens)
  BY DEF Runs
<1>2. state[Len(tokens)] = s
  OBVIOUS
<1> HIDE DEF state
<1> QED BY <1>1, <1>2, ReadAllIs

\* The strings of an array.
LEMMA StringsAre ==
  ASSUME NEW T, NEW items \in Seq(T)
  PROVE  /\ Strings(items) \in Seq(Tokens(T)) /\ Len(Strings(items)) = Len(items)
         /\ \A i \in 1 .. Len(items) : Strings(items)[i] = Token("string", items[i])
<1>1. DOMAIN items = 1 .. Len(items) /\ Len(items) \in Nat
  OBVIOUS
<1>2. ASSUME NEW i \in 1 .. Len(items) PROVE Token("string", items[i]) \in Tokens(T)
  <2>1. items[i] \in T
    OBVIOUS
  <2> QED BY <2>1, TokenIs
<1>3. Strings(items) = [i \in 1 .. Len(items) |-> Token("string", items[i])]
  BY <1>1 DEF Strings
<1> QED BY <1>1, <1>2, <1>3

\* The array read up to its end; the key read; the depth reached.
WithArguments(s, items) == [s EXCEPT !.args = s.args \o items]

\* Between the tags of the array of arguments, every string is one of them.
LEMMA ArgumentsRead ==
  ASSUME NEW T, NEW s \in States(T), s.inArgs = TRUE, s.pending # "Program", NEW items \in Seq(T)
  PROVE  ReadAll(s, Strings(items)) = WithArguments(s, items)
<1> DEFINE state == [i \in 0 .. Len(items) |->
                       [s EXCEPT !.args = s.args \o SubSeq(items, 1, i)]]
<1>0. Len(items) \in Nat /\ s.args \in Seq(T)
  <2>1. s.args \in Seq(T)
    BY StateIs
  <2> QED BY <2>1
<1>1. state[0] = s
  <2>1. s.args \o SubSeq(items, 1, 0) = s.args
    BY <1>0
  <2>2. [s EXCEPT !.args = s.args] = s
    BY DEF States
  <2> QED BY <1>0, <2>1, <2>2
<1>2. ASSUME NEW i \in 1 .. Len(items)
      PROVE  state[i] = Read(state[i - 1], Strings(items)[i])
  <2>1. Strings(items)[i] = Token("string", items[i])
    BY StringsAre
  <2>2. /\ i - 1 \in 0 .. Len(items) /\ i \in 0 .. Len(items)
        /\ state[i - 1] = [s EXCEPT !.args = s.args \o SubSeq(items, 1, i - 1)]
        /\ state[i] = [s EXCEPT !.args = s.args \o SubSeq(items, 1, i)]
    BY <1>0
  <2>3. Append(s.args \o SubSeq(items, 1, i - 1), items[i])
          = s.args \o SubSeq(items, 1, i)
    BY <1>0, AppendNext
  <2> DEFINE r == [s EXCEPT !.args = s.args \o SubSeq(items, 1, i - 1)]
  <2>4. /\ r.inArgs = TRUE /\ r.pending # "Program"
        /\ r.args = s.args \o SubSeq(items, 1, i - 1)
        /\ \A a : [r EXCEPT !.args = a] = [s EXCEPT !.args = a]
    BY DEF States
  <2> HIDE DEF r
  <2>5. Read(r, Token("string", items[i])) = [r EXCEPT !.args = Append(r.args, items[i])]
    BY <2>4 DEF Read, Token
  <2>6. state[i - 1] = r /\ state[i] = [r EXCEPT !.args = Append(r.args, items[i])]
    BY <2>2, <2>3, <2>4 DEF r
  <2> HIDE DEF state
  <2> QED BY <2>1, <2>5, <2>6
<1>3. state[Len(items)] = [s EXCEPT !.args = s.args \o items]
  <2>1. SubSeq(items, 1, Len(items)) = items
    OBVIOUS
  <2>2. state[Len(items)] = [s EXCEPT !.args = s.args \o SubSeq(items, 1, Len(items))]
    BY <1>0
  <2> HIDE DEF state
  <2> QED BY <2>1, <2>2
<1> HIDE DEF state
<1>4. Len(Strings(items)) = Len(items)
  BY StringsAre
<1>5. Runs(state, s, Strings(items))
  BY <1>1, <1>2, <1>4 DEF Runs
<1> QED BY <1>0, <1>3, <1>4, <1>5, ReadAllIs DEF WithArguments

\* A flat value is tokens other than those of a dictionary.
LEMMA FlatTokens ==
  ASSUME NEW T, NEW v \in FlatValue(T) PROVE Flat(v) \in Seq(Tokens(T))
<1>1. CASE v.is = "string"
  <2>1. Token("string", v.text) \in Tokens(T)
    BY <1>1, TokenIs DEF FlatValue
  <2>2. Flat(v) = <<Token("string", v.text)>>
    BY <1>1 DEF Flat
  <2> QED BY <2>1, <2>2
<1>2. CASE v.is = "array"
  <2>1. v.items \in Seq(T)
    BY <1>2 DEF FlatValue
  <2>2. Strings(v.items) \in Seq(Tokens(T))
    BY <2>1, StringsAre
  <2>3. <<Token("array", "")>> \in Seq(Tokens(T)) /\ <<Token("/array", "")>> \in Seq(Tokens(T))
    BY TokenIs
  <2>4. Flat(v) = <<Token("array", "")>> \o Strings(v.items) \o <<Token("/array", "")>>
    BY <1>2 DEF Flat
  <2>5. <<Token("array", "")>> \o Strings(v.items) \in Seq(Tokens(T))
    BY <2>2, <2>3, ConcatProperties
  <2> QED BY <2>3, <2>4, <2>5, ConcatProperties
<1>3. CASE v.is = "true"
  <2>1. <<Token("true", "")>> \in Seq(Tokens(T))
    BY TokenIs
  <2>2. Flat(v) = <<Token("true", "")>>
    BY <1>3 DEF Flat
  <2> QED BY <2>1, <2>2
<1> QED BY <1>1, <1>2, <1>3 DEF FlatValue

\* Three sequences are read one after the other.
LEMMA ReadThree ==
  ASSUME NEW s, NEW T, NEW a \in Seq(T), NEW b \in Seq(T), NEW c \in Seq(T)
  PROVE  ReadAll(s, a \o b \o c) = ReadAll(ReadAll(ReadAll(s, a), b), c)
<1> DEFINE ab == a \o b
<1>1. ab \in Seq(T)
  BY ConcatProperties
<1>2. ReadAll(s, ab) = ReadAll(ReadAll(s, a), b)
  BY ReadConcat
<1> HIDE DEF ab
<1>3. ReadAll(s, ab \o c) = ReadAll(ReadAll(s, ab), c)
  BY <1>1, ReadConcat
<1> QED BY <1>2, <1>3 DEF ab

-----------------------------------------------------------------------------
(* Reading a value.                                                        *)

\* At depth 1 and between two entries, with this program and these arguments.
Between(T, program, args) ==
    {s \in States(T) : s.open = 1 /\ s.inArgs = FALSE
                         /\ s.program = program /\ s.args = args}

\* Flat values leave a state alone that expects neither program nor arguments.
LEMMA FlatIgnored ==
  ASSUME NEW T, NEW tokens \in Seq(Tokens(T)), NEW s \in States(T),
         s.inArgs = FALSE,
         \/ s.open = 1 /\ s.pending \notin {"Program", "ProgramArguments"}
              /\ \A i \in 1 .. Len(tokens) : tokens[i].tag # "key"
         \/ s.open = 2
  PROVE  ReadAll(s, tokens) = s
<1>1. ASSUME NEW i \in 1 .. Len(tokens) PROVE Read(s, tokens[i]) = s
  <2>1. /\ tokens[i].tag # "dict" /\ tokens[i].tag # "/dict"
        /\ tokens[i].tag = "key" => s.open # 1
    <3>1. tokens[i] \in Tokens(T)
      OBVIOUS
    <3>2. tokens[i].tag \in {"key", "string", "array", "/array", "true"}
      BY <3>1 DEF Tokens
    <3> QED BY <3>2
  <2> DEFINE t == tokens[i]
  <2> HIDE DEF t
  <2>2. /\ t.tag # "dict" /\ t.tag # "/dict" /\ (t.tag = "key" => s.open # 1)
    BY <2>1 DEF t
  <2>3. ~(t.tag = "string" /\ s.open = 1 /\ s.pending = "Program")
    OBVIOUS
  <2>4. ~(t.tag = "array" /\ s.open = 1 /\ s.pending = "ProgramArguments")
    OBVIOUS
  <2>5. Read(s, t) = s
    BY <2>2, <2>3, <2>4 DEF Read
  <2> QED BY <2>5 DEF t
<1>2. Len(tokens) \in Nat
  OBVIOUS
<1> QED BY <1>1, <1>2, Ignored

AtKey(s, k) == [s EXCEPT !.pending = k]

\* At depth 1 a key is what the next value belongs to.
LEMMA KeyRead ==
  ASSUME NEW T, NEW s \in States(T), s.open = 1, s.inArgs = FALSE, NEW k \in T
  PROVE  /\ Read(s, Token("key", k)) = AtKey(s, k)
         /\ AtKey(s, k) \in Between(T, s.program, s.args)
         /\ AtKey(s, k).pending = k
<1>1. Read(s, Token("key", k)) = AtKey(s, k)
  BY DEF Read, Token, AtKey
<1> QED BY <1>1 DEF Between, States, AtKey

\* A string.
LEMMA StringRead ==
  ASSUME NEW T, NEW s \in States(T), s.open = 1, s.inArgs = FALSE, NEW text \in T
  PROVE  Read(s, Token("string", text)) \in
           Between(T, IF s.pending = "Program" THEN text ELSE s.program, s.args)
<1>1. CASE s.pending = "Program"
  <2>1. Read(s, Token("string", text)) = [s EXCEPT !.program = text, !.pending = ""]
    BY <1>1 DEF Read, Token
  <2>2. [s EXCEPT !.program = text, !.pending = ""] \in Between(T, text, s.args)
    BY DEF States, Between
  <2> QED BY <1>1, <2>1, <2>2
<1>2. CASE s.pending # "Program"
  <2>1. Read(s, Token("string", text)) = s
    BY <1>2 DEF Read, Token
  <2>2. s \in Between(T, s.program, s.args)
    BY DEF Between
  <2> QED BY <1>2, <2>1, <2>2
<1> QED BY <1>1, <1>2

\* The array of the program's arguments.
LEMMA ArgumentsArrayRead ==
  ASSUME NEW T, NEW s \in States(T), s.open = 1, s.inArgs = FALSE,
         s.pending = "ProgramArguments", NEW items \in Seq(T)
  PROVE  ReadAll(s, <<Token("array", "")>> \o Strings(items) \o <<Token("/array", "")>>)
           \in Between(T, s.program, s.args \o items)
<1> DEFINE a == <<Token("array", "")>>
           b == Strings(items)
           c == <<Token("/array", "")>>
           r == [s EXCEPT !.inArgs = TRUE]
           q == WithArguments(r, items)
           end == [q EXCEPT !.inArgs = FALSE, !.pending = ""]
<1>1. Read(s, Token("array", "")) = r
  BY DEF Read, Token
<1>2. r \in States(T) /\ r.inArgs = TRUE /\ r.pending # "Program"
      /\ r.args = s.args /\ r.program = s.program /\ r.open = 1
  BY DEF States
<1>3. r.args \o items \in Seq(T)
  BY <1>2, StateIs, ConcatProperties
<1> HIDE DEF r
<1>4. ReadAll(r, b) = q
  BY <1>2, ArgumentsRead
<1>5. /\ q \in States(T) /\ q.inArgs = TRUE /\ q.args = s.args \o items
      /\ q.program = s.program /\ q.open = 1
  BY <1>2, <1>3 DEF States, WithArguments
<1> HIDE DEF q
<1>6. Read(q, Token("/array", "")) = end
  BY <1>5 DEF Read, Token
<1>7. end \in Between(T, s.program, s.args \o items)
  BY <1>5 DEF Between, States
<1> HIDE DEF end
<1>8. ReadAll(s, a) = r /\ ReadAll(q, c) = end
  BY <1>1, <1>6, ReadOne
<1>9. a \in Seq(Tokens(T)) /\ b \in Seq(Tokens(T)) /\ c \in Seq(Tokens(T))
  BY TokenIs, StringsAre
<1> HIDE DEF a, b, c
<1>10. ReadAll(s, a \o b \o c) = ReadAll(ReadAll(ReadAll(s, a), b), c)
  BY <1>9, ReadThree
<1>11. ReadAll(s, a \o b \o c) = end
  BY <1>4, <1>8, <1>10
<1> QED BY <1>7, <1>11 DEF a, b, c

\* Another flat value.
LEMMA FlatHasNoKey ==
  ASSUME NEW T, NEW v \in FlatValue(T)
  PROVE  \A i \in 1 .. Len(Flat(v)) : Flat(v)[i].tag # "key"
<1>1. CASE v.is = "string"
  BY <1>1 DEF Flat, Token
<1>2. CASE v.is = "true"
  <2> DEFINE t == Token("true", "")
  <2>1. Flat(v) = <<t>>
    BY <1>2 DEF Flat
  <2>2. t.tag = "true"
    BY DEF Token
  <2> HIDE DEF t
  <2>3. \A i \in 1 .. Len(Flat(v)) : Flat(v)[i] = t
    BY <2>1
  <2> QED BY <2>2, <2>3
<1>3. CASE v.is = "array"
  <2>1. v.items \in Seq(T)
    BY <1>3 DEF FlatValue
  <2> DEFINE a == <<Token("array", "")>>
             b == Strings(v.items)
             c == <<Token("/array", "")>>
             NoKey == {t \in Tokens(T) : t.tag # "key"}
  <2>2. a \in Seq(NoKey)
    <3>1. Token("array", "") \in NoKey
      BY TokenIs DEF Token
    <3> QED BY <3>1, OneIsSeq
  <2>3. c \in Seq(NoKey)
    <3>1. Token("/array", "") \in NoKey
      BY TokenIs DEF Token
    <3> QED BY <3>1, OneIsSeq
  <2>4. b \in Seq(NoKey)
    <3>1. Len(b) = Len(v.items) /\ b \in Seq(Tokens(T))
      BY <2>1, StringsAre
    <3>2. \A i \in 1 .. Len(b) : b[i].tag # "key"
      <4>1. ASSUME NEW i \in 1 .. Len(v.items) PROVE b[i].tag # "key"
        <5>1. b[i] = Token("string", v.items[i])
          BY <2>1, StringsAre
        <5> QED BY <5>1 DEF Token
      <4> QED BY <3>1, <4>1
    <3> HIDE DEF b
    <3> QED BY <3>1, <3>2
  <2>5. Flat(v) = (a \o b) \o c
    BY <1>3 DEF Flat
  <2> HIDE DEF a, b, c, NoKey
  <2>6. a \o b \in Seq(NoKey)
    BY <2>2, <2>4, ConcatProperties
  <2>7. Flat(v) \in Seq(NoKey)
    BY <2>3, <2>5, <2>6, ConcatProperties
  <2>8. \A i \in 1 .. Len(Flat(v)) : Flat(v)[i] \in NoKey
    BY <2>7, ElementOfSeq
  <2> QED BY <2>8 DEF NoKey
<1> QED BY <1>1, <1>2, <1>3 DEF FlatValue

\* A function on 1 .. n is a sequence.
LEMMA SeqOfBody ==
  ASSUME NEW S, NEW n \in Nat, NEW f, f = [i \in 1 .. n |-> f[i]],
         \A i \in 1 .. n : f[i] \in S
  PROVE  f \in Seq(S) /\ Len(f) = n
OBVIOUS

\* An entry has a key and a value.
LEMMA EntryParts ==
  ASSUME NEW K, NEW V, NEW entries \in Seq([key : K, value : V]),
         NEW i \in 1 .. Len(entries)
  PROVE  entries[i].key \in K /\ entries[i].value \in V
<1> DEFINE e == entries[i]
<1>1. e \in [key : K, value : V]
  BY ElementOfSeq
<1> HIDE DEF e
<1>2. e.key \in K /\ e.value \in V
  BY <1>1
<1> QED BY <1>2 DEF e

\* The entries of a dictionary in a dictionary.
LEMMA EntriesTokens ==
  ASSUME NEW T, NEW entries \in Seq([key : T, value : FlatValue(T)])
  PROVE  FlattenSeq([i \in DOMAIN entries |->
            <<Token("key", entries[i].key)>> \o Flat(entries[i].value)]) \in Seq(Tokens(T))
<1> DEFINE seqs == [i \in DOMAIN entries |->
                      <<Token("key", entries[i].key)>> \o Flat(entries[i].value)]
<1>0. DOMAIN entries = 1 .. Len(entries) /\ Len(entries) \in Nat
  OBVIOUS
<1>1. ASSUME NEW i \in 1 .. Len(entries) PROVE seqs[i] \in Seq(Tokens(T))
  <2>1. entries[i].key \in T /\ entries[i].value \in FlatValue(T)
    BY EntryParts
  <2>2. <<Token("key", entries[i].key)>> \in Seq(Tokens(T))
    BY <2>1, TokenIs
  <2>3. Flat(entries[i].value) \in Seq(Tokens(T))
    BY <2>1, FlatTokens
  <2>4. <<Token("key", entries[i].key)>> \o Flat(entries[i].value) \in Seq(Tokens(T))
    BY <2>2, <2>3, ConcatProperties
  <2> QED BY <1>0, <2>4
<1>2. seqs = [i \in 1 .. Len(entries) |-> seqs[i]]
  BY <1>0
<1> HIDE DEF seqs
<1>3. seqs \in Seq(Seq(Tokens(T))) /\ Len(seqs) = Len(entries)
  BY <1>0, <1>1, <1>2, SeqOfBody
<1>4. FlattenSeq(seqs) \in Seq(Tokens(T))
  BY <1>3, FlattenSeqTyped
<1> QED BY <1>4 DEF seqs

\* The entries of a dictionary in the dictionary.
DictTokens(entries) ==
  FlattenSeq([i \in DOMAIN entries |->
    <<Token("key", entries[i].key)>> \o Flat(entries[i].value)])

\* A value is flat or a dictionary.
LEMMA ValueTokensAre ==
  ASSUME NEW T, NEW v \in Value(T)
  PROVE  \/ v \in FlatValue(T) /\ ValueTokens(v) = Flat(v)
         \/ /\ v.is = "dict" /\ v.entries \in Seq([key : T, value : FlatValue(T)])
            /\ ValueTokens(v) = <<Token("dict", "")>> \o DictTokens(v.entries)
                                    \o <<Token("/dict", "")>>
<1>1. CASE v \in FlatValue(T)
  <2>1. v.is # "dict"
    BY <1>1 DEF FlatValue
  <2> QED BY <1>1, <2>1 DEF ValueTokens
<1>2. CASE v \in [is : {"dict"}, entries : Seq([key : T, value : FlatValue(T)])]
  <2>1. v.is = "dict" /\ v.entries \in Seq([key : T, value : FlatValue(T)])
    BY <1>2
  <2>2. ValueTokens(v) = <<Token("dict", "")>> \o DictTokens(v.entries)
                                    \o <<Token("/dict", "")>>
    BY <2>1 DEF ValueTokens, InDict, DictTokens
  <2> QED BY <2>1, <2>2
<1> QED BY <1>1, <1>2 DEF Value

AtDepth(s, n) == [s EXCEPT !.open = n]

\* The depth changes, and nothing else does.
LEMMA AtDepthIs ==
  ASSUME NEW T, NEW s \in States(T), NEW n \in Int
  PROVE  /\ AtDepth(s, n) \in States(T) /\ AtDepth(s, n).open = n
         /\ s.inArgs = FALSE => AtDepth(s, n).inArgs = FALSE
         /\ AtDepth(s, n).program = s.program /\ AtDepth(s, n).args = s.args
         /\ AtDepth(s, s.open) = s
BY DEF States, AtDepth

\* Only the last depth counts.
LEMMA AtDepthTwice ==
  ASSUME NEW T, NEW s \in States(T), NEW m, NEW n
  PROVE  AtDepth(AtDepth(s, m), n) = AtDepth(s, n)
BY DEF States, AtDepth

\* A dictionary in the dictionary is opened and closed.
LEMMA Opened ==
  ASSUME NEW T, NEW s \in States(T)
  PROVE  /\ Read(s, Token("dict", "")) = AtDepth(s, s.open + 1)
         /\ Read(s, Token("/dict", "")) = AtDepth(s, s.open - 1)
BY DEF Read, Token, AtDepth, States

\* Between them, at depth 2.
LEMMA Nested ==
  ASSUME NEW T, NEW s \in States(T), s.open = 1, s.inArgs = FALSE
  PROVE  /\ AtDepth(s, 2) \in States(T) /\ AtDepth(s, 2).open = 2
         /\ AtDepth(s, 2).inArgs = FALSE
         /\ Read(s, Token("dict", "")) = AtDepth(s, 2)
         /\ Read(AtDepth(s, 2), Token("/dict", "")) = s
<1>1. PICK m, n \in Int : m = 1 /\ n = 2
  OBVIOUS
<1> DEFINE r == AtDepth(s, n)
<1>2. /\ r \in States(T) /\ r.open = n /\ r.inArgs = FALSE
      /\ AtDepth(r, m) = AtDepth(s, m) /\ AtDepth(s, s.open) = s
  <2>1. r \in States(T)
    BY AtDepthIs
  <2>2. r.open = n
    BY AtDepthIs
  <2>3. r.inArgs = FALSE
    BY AtDepthIs
  <2>4. AtDepth(r, m) = AtDepth(s, m)
    BY AtDepthTwice
  <2>5. AtDepth(s, s.open) = s
    BY AtDepthIs
  <2> QED BY <2>1, <2>2, <2>3, <2>4, <2>5
<1> HIDE DEF r
<1>3. s.open + 1 = n /\ r.open - 1 = m /\ s.open = m
  BY <1>1, <1>2
<1>4. Read(s, Token("dict", "")) = AtDepth(s, s.open + 1)
  BY Opened
<1>5. Read(r, Token("/dict", "")) = AtDepth(r, r.open - 1)
  BY <1>2, Opened
<1>6. Read(s, Token("dict", "")) = r
  BY <1>3, <1>4 DEF r
<1>7. Read(r, Token("/dict", "")) = s
  BY <1>2, <1>3, <1>5
<1>8. r.open = 2
  BY <1>1, <1>2
<1>9. AtDepth(s, 2) = r
  BY <1>1 DEF r
<1> QED BY <1>2, <1>6, <1>7, <1>8, <1>9

\* A dictionary in the dictionary: what stands in it is not read.
LEMMA DictRead ==
  ASSUME NEW T, NEW s \in States(T), s.open = 1, s.inArgs = FALSE,
         NEW b \in Seq(Tokens(T))
  PROVE  ReadAll(s, <<Token("dict", "")>> \o b \o <<Token("/dict", "")>>) = s
<1> DEFINE All == Tokens(T) \cup {Token("dict", ""), Token("/dict", "")}
           r == AtDepth(s, 2)
           a == <<Token("dict", "")>>
           c == <<Token("/dict", "")>>
<1>1. /\ r \in States(T) /\ r.open = 2 /\ r.inArgs = FALSE
      /\ Read(s, Token("dict", "")) = r /\ Read(r, Token("/dict", "")) = s
  BY Nested
<1> HIDE DEF r
<1>5. ReadAll(r, b) = r
  BY <1>1, FlatIgnored
<1>6. ReadAll(s, a) = r /\ ReadAll(r, c) = s
  BY <1>1, ReadOne
<1>7. a \in Seq(All) /\ c \in Seq(All)
  BY OneIsSeq
<1>8. b \in Seq(All)
  BY SeqMonotonic
<1> HIDE DEF a, c, All
<1>9. ReadAll(s, a \o b \o c) = ReadAll(ReadAll(ReadAll(s, a), b), c)
  BY <1>7, <1>8, ReadThree
<1>10. ReadAll(s, a \o b \o c) = s
  BY <1>5, <1>6, <1>9
<1> QED BY <1>10 DEF a, c

\* The value after a key.
LEMMA ValueRead ==
  ASSUME NEW T, NEW s \in States(T), s.open = 1, s.inArgs = FALSE,
         NEW v \in Value(T),
         s.pending = "Program" => v.is = "string",
         s.pending = "ProgramArguments" => v.is = "array"
  PROVE  ReadAll(s, ValueTokens(v)) \in
           Between(T, IF s.pending = "Program" THEN v.text ELSE s.program,
                      IF s.pending = "ProgramArguments" THEN s.args \o v.items ELSE s.args)
<1>0. s \in Between(T, s.program, s.args)
  BY DEF Between
<1>1. CASE v.is = "dict"
  <2>1. s.pending # "Program" /\ s.pending # "ProgramArguments"
    BY <1>1
  <2>2. v \notin FlatValue(T)
    BY <1>1 DEF FlatValue
  <2>3. /\ v.entries \in Seq([key : T, value : FlatValue(T)])
        /\ ValueTokens(v) = <<Token("dict", "")>> \o DictTokens(v.entries)
                                \o <<Token("/dict", "")>>
    BY <2>2, ValueTokensAre
  <2>4. ReadAll(s, <<Token("dict", "")>> \o DictTokens(v.entries) \o <<Token("/dict", "")>>)
           = s
    <3>1. DictTokens(v.entries) \in Seq(Tokens(T))
      BY <2>3, EntriesTokens DEF DictTokens
    <3> QED BY <3>1, DictRead
  <2> QED BY <1>0, <2>1, <2>3, <2>4
<1>2. ASSUME v \in FlatValue(T), ValueTokens(v) = Flat(v), s.pending = "Program"
      PROVE  ReadAll(s, ValueTokens(v)) \in Between(T, v.text, s.args)
  <2>1. Flat(v) = <<Token("string", v.text)>> /\ v.text \in T
    BY <1>2 DEF Flat, FlatValue
  <2>2. ReadAll(s, Flat(v)) = Read(s, Token("string", v.text))
    BY <2>1, ReadOne
  <2> QED BY <1>2, <2>1, <2>2, StringRead
<1>3. ASSUME v \in FlatValue(T), ValueTokens(v) = Flat(v), s.pending = "ProgramArguments"
      PROVE  ReadAll(s, ValueTokens(v)) \in Between(T, s.program, s.args \o v.items)
  <2>1. v.is = "array" /\ v.items \in Seq(T)
    BY <1>3 DEF FlatValue
  <2>2. Flat(v) = <<Token("array", "")>> \o Strings(v.items) \o <<Token("/array", "")>>
    BY <2>1 DEF Flat
  <2>3. ReadAll(s, <<Token("array", "")>> \o Strings(v.items) \o <<Token("/array", "")>>)
           \in Between(T, s.program, s.args \o v.items)
    BY <1>3, <2>1, ArgumentsArrayRead
  <2> QED BY <1>3, <2>2, <2>3
<1>4. ASSUME v \in FlatValue(T), ValueTokens(v) = Flat(v),
             s.pending \notin {"Program", "ProgramArguments"}
      PROVE  ReadAll(s, ValueTokens(v)) = s
  <2>1. Flat(v) \in Seq(Tokens(T)) /\ \A i \in 1 .. Len(Flat(v)) : Flat(v)[i].tag # "key"
    BY <1>4, FlatTokens, FlatHasNoKey
  <2> QED BY <1>4, <2>1, FlatIgnored
<1>5. CASE v \in FlatValue(T) /\ ValueTokens(v) = Flat(v)
  <2>1. CASE s.pending = "Program"
    BY <1>2, <1>5, <2>1
  <2>2. CASE s.pending = "ProgramArguments"
    BY <1>3, <1>5, <2>2
  <2>3. CASE s.pending \notin {"Program", "ProgramArguments"}
    BY <1>0, <1>4, <1>5, <2>3
  <2> QED BY <2>1, <2>2, <2>3
<1> QED BY <1>1, <1>5, ValueTokensAre

\* All tokens.
AllTokens(T) == Tokens(T) \cup {Token("dict", ""), Token("/dict", "")}

\* The tokens of a value, and of an entry.
LEMMA ValueTokensTyped ==
  ASSUME NEW T, NEW v \in Value(T)
  PROVE  ValueTokens(v) \in Seq(AllTokens(T))
<1> DEFINE a == <<Token("dict", "")>>
           c == <<Token("/dict", "")>>
<1>1. a \in Seq(AllTokens(T)) /\ c \in Seq(AllTokens(T))
  BY OneIsSeq DEF AllTokens
<1>2. \A b \in Seq(Tokens(T)) : b \in Seq(AllTokens(T))
  BY SeqMonotonic DEF AllTokens
<1>3. CASE v \in FlatValue(T) /\ ValueTokens(v) = Flat(v)
  BY <1>2, <1>3, FlatTokens
<1>4. ASSUME NEW b \in Seq(Tokens(T)), ValueTokens(v) = a \o b \o c
      PROVE  ValueTokens(v) \in Seq(AllTokens(T))
  <2> HIDE DEF a, c
  <2>1. a \o b \in Seq(AllTokens(T))
    BY <1>1, <1>2, ConcatProperties
  <2>2. (a \o b) \o c \in Seq(AllTokens(T))
    BY <1>1, <2>1, ConcatProperties
  <2> QED BY <1>4, <2>2
<1>5. CASE /\ v.is = "dict" /\ v.entries \in Seq([key : T, value : FlatValue(T)])
           /\ ValueTokens(v) = a \o DictTokens(v.entries) \o c
  BY <1>4, <1>5, EntriesTokens DEF DictTokens
<1> HIDE DEF a, c
<1> QED BY <1>3, <1>5, ValueTokensAre DEF a, c

\* What the decoder hands out for an entry.
EntryTokens(e) == <<Token("key", e.key)>> \o ValueTokens(e.value)

-----------------------------------------------------------------------------
(* Reading an entry, and all of them.                                      *)

\* One entry of the dictionary.
LEMMA EntryRead ==
  ASSUME NEW T, NEW s \in States(T), s.open = 1, s.inArgs = FALSE,
         NEW e, e.key \in T, e.value \in Value(T),
         e.key = "Program" => e.value.is = "string",
         e.key = "ProgramArguments" => e.value.is = "array"
  PROVE  /\ EntryTokens(e) \in Seq(AllTokens(T))
         /\ ReadAll(s, EntryTokens(e)) \in
             Between(T, IF e.key = "Program" THEN e.value.text ELSE s.program,
                        IF e.key = "ProgramArguments" THEN s.args \o e.value.items
                                                      ELSE s.args)
<1> DEFINE a == <<Token("key", e.key)>>
           b == ValueTokens(e.value)
           r == AtKey(s, e.key)
<1>1. Read(s, Token("key", e.key)) = r /\ r \in Between(T, s.program, s.args)
      /\ r.pending = e.key
  BY KeyRead
<1>2. a \in Seq(AllTokens(T)) /\ b \in Seq(AllTokens(T))
  <2>1. Token("key", e.key) \in AllTokens(T)
    BY TokenIs DEF AllTokens
  <2> QED BY <2>1, OneIsSeq, ValueTokensTyped
<1>3. ReadAll(s, a) = r
  BY <1>1, ReadOne
<1> HIDE DEF r
<1>4. /\ r \in States(T) /\ r.open = 1 /\ r.inArgs = FALSE
      /\ r.program = s.program /\ r.args = s.args
  BY <1>1 DEF Between
<1>5. ReadAll(r, b) \in
        Between(T, IF r.pending = "Program" THEN e.value.text ELSE r.program,
                   IF r.pending = "ProgramArguments" THEN r.args \o e.value.items
                                                     ELSE r.args)
  BY <1>1, <1>4, ValueRead
<1> HIDE DEF a, b
<1>6. ReadAll(s, a \o b) = ReadAll(r, b)
  BY <1>2, <1>3, ReadConcat
<1>7. a \o b \in Seq(AllTokens(T))
  BY <1>2, ConcatProperties
<1>8. EntryTokens(e) = a \o b
  BY DEF EntryTokens, a, b
<1> QED BY <1>1, <1>4, <1>5, <1>6, <1>7, <1>8

\* The tokens of an entry.
LEMMA EntryTyped ==
  ASSUME NEW T, NEW e, e.key \in T, e.value \in Value(T)
  PROVE  EntryTokens(e) \in Seq(AllTokens(T))
<1> DEFINE a == <<Token("key", e.key)>>
           b == ValueTokens(e.value)
<1>1. a \in Seq(AllTokens(T)) /\ b \in Seq(AllTokens(T))
  <2>1. Token("key", e.key) \in AllTokens(T)
    BY TokenIs DEF AllTokens
  <2> QED BY <2>1, OneIsSeq, ValueTokensTyped
<1> HIDE DEF a, b
<1>2. a \o b \in Seq(AllTokens(T))
  BY <1>1, ConcatProperties
<1> QED BY <1>2 DEF EntryTokens, a, b

\* What the first n entries say of program and arguments.
Found(T, plist, n) ==
    {s \in States(T) :
       /\ s.open = 1 /\ s.inArgs = FALSE
       /\ \A j \in 1 .. n : plist[j].key = "Program" => s.program = plist[j].value.text
       /\ (\A j \in 1 .. n : plist[j].key # "Program") => s.program = ""
       /\ \A j \in 1 .. n : plist[j].key = "ProgramArguments" => s.args = plist[j].value.items
       /\ (\A j \in 1 .. n : plist[j].key # "ProgramArguments") => s.args = <<>>}

\* What JobPlist says of the entries.
LEMMA JobPlistParts ==
  ASSUME NEW T, NEW plist, JobPlist(plist, T)
  PROVE  /\ Len(plist) \in Nat /\ DOMAIN plist = 1 .. Len(plist)
         /\ \A i \in 1 .. Len(plist) :
              /\ plist[i].key \in T /\ plist[i].value \in Value(T)
              /\ plist[i].key = "Program" => plist[i].value.is = "string"
              /\ plist[i].key = "ProgramArguments" =>
                   plist[i].value.is = "array" /\ plist[i].value.items \in Seq(T)
         /\ \A i, j \in 1 .. Len(plist) : plist[i].key = plist[j].key => i = j
<1>1. plist \in Seq([key : T, value : Value(T)])
  BY DEF JobPlist
<1>2. Len(plist) \in Nat /\ DOMAIN plist = 1 .. Len(plist)
  BY <1>1, LenProperties
<1>3. \A i \in 1 .. Len(plist) : plist[i].key \in T /\ plist[i].value \in Value(T)
  BY <1>1, EntryParts
<1>4. \A v \in Value(T) : v.is = "array" => v.items \in Seq(T)
  BY DEF Value, FlatValue
<1> QED BY <1>2, <1>3, <1>4 DEF JobPlist

\* One entry more: no other entry has its key.
LEMMA EntryFinds ==
  ASSUME NEW T, NEW plist, JobPlist(plist, T), NEW i \in 1 .. Len(plist),
         NEW s \in Found(T, plist, i - 1)
  PROVE  ReadAll(s, EntryTokens(plist[i])) \in Found(T, plist, i)
<1> DEFINE e == plist[i]
           r == ReadAll(s, EntryTokens(e))
<1>0. i \in Nat /\ Len(plist) \in Nat /\ i <= Len(plist) /\ i >= 1
  BY JobPlistParts
<1>1. /\ e.key \in T /\ e.value \in Value(T)
      /\ e.key = "Program" => e.value.is = "string"
      /\ e.key = "ProgramArguments" => e.value.is = "array" /\ e.value.items \in Seq(T)
  BY JobPlistParts
<1>2. /\ s \in States(T) /\ s.open = 1 /\ s.inArgs = FALSE
      /\ \A j \in 1 .. i - 1 : plist[j].key = "Program" => s.program = plist[j].value.text
      /\ (\A j \in 1 .. i - 1 : plist[j].key # "Program") => s.program = ""
      /\ \A j \in 1 .. i - 1 : plist[j].key = "ProgramArguments" => s.args = plist[j].value.items
      /\ (\A j \in 1 .. i - 1 : plist[j].key # "ProgramArguments") => s.args = <<>>
  BY DEF Found
<1> HIDE DEF e
<1>3. r \in Between(T, IF e.key = "Program" THEN e.value.text ELSE s.program,
                       IF e.key = "ProgramArguments" THEN s.args \o e.value.items
                                                     ELSE s.args)
  BY <1>1, <1>2, EntryRead
<1> HIDE DEF r
<1>4. /\ r \in States(T) /\ r.open = 1 /\ r.inArgs = FALSE
      /\ r.program = IF e.key = "Program" THEN e.value.text ELSE s.program
      /\ r.args = IF e.key = "ProgramArguments" THEN s.args \o e.value.items ELSE s.args
  BY <1>3 DEF Between
<1>5. \A j \in 1 .. i : j = i \/ j \in 1 .. i - 1
  BY <1>0
<1>6. \A j \in 1 .. i - 1 : plist[j].key # e.key
  BY <1>0, JobPlistParts DEF e
<1>7. /\ \A j \in 1 .. i : plist[j].key = "Program" => r.program = plist[j].value.text
      /\ (\A j \in 1 .. i : plist[j].key # "Program") => r.program = ""
  <2>1. CASE e.key = "Program"
    <3>1. r.program = plist[i].value.text /\ plist[i].key = "Program"
      BY <1>4, <2>1 DEF e
    <3>2. \A j \in 1 .. i - 1 : plist[j].key # "Program"
      BY <1>6, <2>1
    <3>3. i \in 1 .. i
      BY <1>0
    <3> QED BY <1>5, <3>1, <3>2, <3>3
  <2>2. CASE e.key # "Program"
    <3>1. r.program = s.program /\ plist[i].key # "Program"
      BY <1>4, <2>2 DEF e
    <3>2. \A j \in 1 .. i - 1 : j \in 1 .. i
      BY <1>0
    <3> QED BY <1>2, <1>5, <3>1, <3>2
  <2> QED BY <2>1, <2>2
<1>8. /\ \A j \in 1 .. i : plist[j].key = "ProgramArguments" => r.args = plist[j].value.items
      /\ (\A j \in 1 .. i : plist[j].key # "ProgramArguments") => r.args = <<>>
  <2>1. CASE e.key = "ProgramArguments"
    <3>1. \A j \in 1 .. i - 1 : plist[j].key # "ProgramArguments"
      BY <1>6, <2>1
    <3>2. s.args = <<>> /\ e.value.items \in Seq(T)
      BY <1>1, <1>2, <2>1, <3>1
    <3>3. <<>> \o e.value.items = e.value.items
      BY <3>2, ConcatEmptySeq
    <3>4. r.args = plist[i].value.items /\ plist[i].key = "ProgramArguments"
      BY <1>4, <2>1, <3>2, <3>3 DEF e
    <3>5. i \in 1 .. i
      BY <1>0
    <3> QED BY <1>5, <3>1, <3>4, <3>5
  <2>2. CASE e.key # "ProgramArguments"
    <3>1. r.args = s.args /\ plist[i].key # "ProgramArguments"
      BY <1>4, <2>2 DEF e
    <3>2. \A j \in 1 .. i - 1 : j \in 1 .. i
      BY <1>0
    <3> QED BY <1>2, <1>5, <3>1, <3>2
  <2> QED BY <2>1, <2>2
<1>9. r \in Found(T, plist, i)
  BY <1>4, <1>7, <1>8 DEF Found
<1> QED BY <1>9 DEF r, e

\* Neither program nor arguments depend on the depth.
LEMMA AtDepthKeeps ==
  ASSUME NEW T, NEW s \in States(T), NEW n
  PROVE  AtDepth(s, n).program = s.program /\ AtDepth(s, n).args = s.args
BY DEF States, AtDepth

\* The state in which the first entry is read.
LEMMA StartIs ==
  ASSUME NEW T
  PROVE  LET s == AtDepth(Start, 1)
         IN  /\ s \in States(T) /\ s.open = 1 /\ s.inArgs = FALSE
             /\ s.program = "" /\ s.args = <<>>
<1>1. <<>> \in Seq(T)
  OBVIOUS
<1>2. Start \in States(T)
  BY <1>1 DEF Start, States
<1>3. Start.inArgs = FALSE /\ Start.program = "" /\ Start.args = <<>>
  BY DEF Start
<1>4. PICK n \in Int : n = 1
  OBVIOUS
<1> DEFINE s == AtDepth(Start, n)
<1>5. s \in States(T) /\ s.open = n
  BY <1>2, AtDepthIs
<1>6. s.inArgs = FALSE
  BY <1>2, <1>3, AtDepthIs
<1>7. s.program = "" /\ s.args = <<>>
  BY <1>2, <1>3, AtDepthKeeps
<1>8. AtDepth(Start, 1) = s
  BY <1>4
<1> HIDE DEF s
<1> QED BY <1>4, <1>5, <1>6, <1>7, <1>8

\* The whole dictionary.
LEMMA PlistFinds ==
  ASSUME NEW T, NEW plist, JobPlist(plist, T)
  PROVE  LET end == ReadAll(Start, PlistTokens(plist))
         IN  \E s \in Found(T, plist, Len(plist)) :
                end.program = s.program /\ end.args = s.args
<1> DEFINE N == Len(plist)
           seqs == [i \in DOMAIN plist |-> EntryTokens(plist[i])]
           before == [n \in 0 .. N |-> Found(T, plist, n)]
           a == <<Token("dict", "")>>
           b == FlattenSeq(seqs)
           c == <<Token("/dict", "")>>
           s0 == AtDepth(Start, 1)
<1>0. N \in Nat /\ DOMAIN plist = 1 .. N
  BY JobPlistParts
<1>1. s0 \in Found(T, plist, 0) /\ Read(Start, Token("dict", "")) = s0
  <2>1. s0 \in States(T) /\ s0.open = 1 /\ s0.inArgs = FALSE /\ s0.program = "" /\ s0.args = <<>>
    BY StartIs
  <2>2. Read(Start, Token("dict", "")) = s0
    BY DEF Read, Start, Token, AtDepth
  <2> HIDE DEF s0
  <2>3. \A j \in 1 .. 0 : FALSE
    OBVIOUS
  <2> QED BY <2>1, <2>2, <2>3 DEF Found
<1>2. ASSUME NEW i \in 1 .. N
      PROVE  /\ seqs[i] = EntryTokens(plist[i]) /\ seqs[i] \in Seq(AllTokens(T))
  <2>1. seqs[i] = EntryTokens(plist[i])
    BY <1>0
  <2>2. plist[i].key \in T /\ plist[i].value \in Value(T)
    BY JobPlistParts
  <2>3. EntryTokens(plist[i]) \in Seq(AllTokens(T))
    BY <2>2, EntryTyped
  <2> QED BY <2>1, <2>3
<1>3. seqs = [i \in 1 .. N |-> seqs[i]]
  BY <1>0
<1> HIDE DEF seqs
<1>4. Len(seqs) = N /\ (seqs = <<>> \/ Len(seqs) > 0)
  <2>1. seqs \in Seq(Seq(AllTokens(T))) /\ Len(seqs) = N
    BY <1>0, <1>2, <1>3, SeqOfBody
  <2> QED BY <1>0, <2>1, EmptySeq
<1>5. ASSUME NEW i \in 1 .. N, NEW r \in before[i - 1]
      PROVE  ReadAll(r, seqs[i]) \in before[i]
  <2>1. before[i - 1] = Found(T, plist, i - 1) /\ before[i] = Found(T, plist, i)
    BY <1>0
  <2>2. ReadAll(r, EntryTokens(plist[i])) \in Found(T, plist, i)
    BY <1>5, <2>1, EntryFinds
  <2> QED BY <1>2, <2>1, <2>2
<1>6. before[0] = Found(T, plist, 0) /\ before[N] = Found(T, plist, N)
  BY <1>0
<1> HIDE DEF before, s0
<1>7. b \in Seq(AllTokens(T)) /\ ReadAll(s0, b) \in before[N]
  <2>1. s0 \in before[0]
    BY <1>1, <1>6
  <2> QED BY <1>0, <1>2, <1>4, <1>5, <2>1, ReadParts
<1> DEFINE s == ReadAll(s0, b)
<1>8. s \in Found(T, plist, N)
  BY <1>6, <1>7
<1> HIDE DEF N, s
<1>9. s \in States(T) /\ Read(s, Token("/dict", "")) = AtDepth(s, s.open - 1)
  BY <1>8, Opened DEF Found
<1>10. /\ AtDepth(s, s.open - 1).program = s.program
       /\ AtDepth(s, s.open - 1).args = s.args
  BY <1>9, AtDepthKeeps
<1>11. ReadAll(Start, a) = s0 /\ ReadAll(s, c) = AtDepth(s, s.open - 1)
  BY <1>1, <1>9, ReadOne
<1>12. a \in Seq(AllTokens(T)) /\ c \in Seq(AllTokens(T))
  BY OneIsSeq DEF AllTokens
<1>13. PlistTokens(plist) = a \o b \o c
  BY DEF PlistTokens, InDict, EntryTokens, seqs
<1> HIDE DEF a, b, c
<1>14. ReadAll(Start, a \o b \o c) = ReadAll(ReadAll(ReadAll(Start, a), b), c)
  BY <1>7, <1>12, ReadThree
<1>15. ReadAll(Start, PlistTokens(plist)) = AtDepth(s, s.open - 1)
  BY <1>11, <1>13, <1>14 DEF s
<1> QED BY <1>8, <1>10, <1>15 DEF N

-----------------------------------------------------------------------------
(* The program that is found is the one launchd runs.                      *)

\* What launchd runs.
LEMMA JobRuns ==
  ASSUME NEW T, NEW plist, JobPlist(plist, T), ~EmptyProgram(plist),
         NEW s \in Found(T, plist, Len(plist))
  PROVE  jobProgram(plist) = CASE s.program # "" -> s.program
                               [] s.program = "" /\ s.args # <<>> -> Head(s.args)
                               [] OTHER -> ""
<1> DEFINE N == Len(plist)
<1>0. N \in Nat /\ DOMAIN plist = 1 .. N
  BY JobPlistParts
<1>1. ASSUME NEW k, NEW i \in 1 .. N, plist[i].key = k
      PROVE  Values(plist, k) = {plist[i].value}
             /\ (CHOOSE v \in Values(plist, k) : TRUE) = plist[i].value
  <2>1. \A j \in 1 .. N : plist[j].key = k <=> j = i
    BY <1>1, JobPlistParts
  <2>2. Values(plist, k) = {plist[i].value}
    BY <1>0, <2>1 DEF Values
  <2>3. \A v : (CHOOSE w \in {v} : TRUE) = v
    OBVIOUS
  <2> QED BY <2>2, <2>3
<1>2. ASSUME NEW k, \A i \in 1 .. N : plist[i].key # k
      PROVE  Values(plist, k) = {}
  BY <1>0, <1>2 DEF Values
<1>3. /\ \A j \in 1 .. N : plist[j].key = "Program" => s.program = plist[j].value.text
      /\ (\A j \in 1 .. N : plist[j].key # "Program") => s.program = ""
      /\ \A j \in 1 .. N : plist[j].key = "ProgramArguments" => s.args = plist[j].value.items
      /\ (\A j \in 1 .. N : plist[j].key # "ProgramArguments") => s.args = <<>>
  BY DEF Found
<1> HIDE DEF N
<1>4. CASE \E i \in 1 .. N : plist[i].key = "Program"
  <2>1. PICK i \in 1 .. N : plist[i].key = "Program"
    BY <1>4
  <2>2. /\ Values(plist, "Program") = {plist[i].value}
        /\ (CHOOSE v \in Values(plist, "Program") : TRUE) = plist[i].value
    BY <1>1, <2>1
  <2>3. plist[i].value.is = "string" /\ plist[i].value \in Value(T)
    BY <2>1, JobPlistParts DEF N
  <2>4. plist[i].value = Text(plist[i].value.text)
    BY <2>3 DEF Value, FlatValue, Text
  <2>5. plist[i].value.text # ""
    BY <2>2, <2>4 DEF EmptyProgram
  <2>6. jobProgram(plist) = plist[i].value.text
    BY <2>2 DEF jobProgram
  <2> QED BY <1>3, <2>1, <2>5, <2>6
<1>5. CASE \A i \in 1 .. N : plist[i].key # "Program"
  <2>1. s.program = "" /\ Values(plist, "Program") = {}
    BY <1>2, <1>3, <1>5
  <2>2. CASE \E i \in 1 .. N : plist[i].key = "ProgramArguments"
    <3>1. PICK i \in 1 .. N : plist[i].key = "ProgramArguments"
      BY <2>2
    <3>2. /\ Values(plist, "ProgramArguments") = {plist[i].value}
          /\ (CHOOSE v \in Values(plist, "ProgramArguments") : TRUE) = plist[i].value
      BY <1>1, <3>1
    <3>3. s.args = plist[i].value.items
      BY <1>3, <3>1
    <3>4. (\E v \in Values(plist, "ProgramArguments") : v.items # <<>>) <=> s.args # <<>>
      BY <3>2, <3>3
    <3> QED BY <2>1, <3>2, <3>3, <3>4 DEF jobProgram
  <2>3. CASE \A i \in 1 .. N : plist[i].key # "ProgramArguments"
    <3>1. s.args = <<>> /\ Values(plist, "ProgramArguments") = {}
      BY <1>2, <1>3, <2>3
    <3> QED BY <2>1, <3>1 DEF jobProgram
  <2> QED BY <2>2, <2>3
<1> QED BY <1>4, <1>5

\* plistProgram finds what launchd runs, in every plist of a job whose Program
\* is not empty.
LEMMA ProgramIsRead ==
  ASSUME NEW T, NEW plist, JobPlist(plist, T), ~EmptyProgram(plist)
  PROVE  Reads(plist)
<1> DEFINE end == ReadAll(Start, PlistTokens(plist))
<1>1. PICK s \in Found(T, plist, Len(plist)) :
         end.program = s.program /\ end.args = s.args
  BY PlistFinds
<1>2. jobProgram(plist) = CASE s.program # "" -> s.program
                            [] s.program = "" /\ s.args # <<>> -> Head(s.args)
                            [] OTHER -> ""
  BY JobRuns
<1>3. plistProgram(plist) = IF IsAbs(jobProgram(plist)) THEN jobProgram(plist) ELSE ""
  <2> HIDE DEF end
  <2>1. plistProgram(plist) =
          LET program == CASE end.program # "" -> end.program
                           [] end.program = "" /\ end.args # <<>> -> Head(end.args)
                           [] OTHER -> ""
          IN  IF IsAbs(program) THEN program ELSE ""
    BY DEF plistProgram, end
  <2> QED BY <1>1, <1>2, <2>1
<1> QED BY <1>3 DEF Reads

-----------------------------------------------------------------------------
(* The inductive invariant.                                                *)

\* What the steps of a probe have established.
ProbeFills ==
    \A p \in Pids : proc[p] # None =>
        /\ proc[p].step \in {"resolved", "linked", "found", "ready"} => proc[p].keg # None
        /\ proc[p].step \in {"found", "ready"} => proc[p].label # None

TInv == TypeOK /\ ProbeFills

\* The process has found a label, and it is its own.
Listed(p) ==
    /\ proc[p] # None /\ proc[p].step \in {"found", "ready"}
    /\ jobs[proc[p].label] = p

\* A job's process lives.
JobsLive == \A l \in Labels : jobs[l] # None => proc[jobs[l]] # None

\* The plist a listed process has found still runs the opt binary.
ListedMatches == \A p \in Pids : Listed(p) => proc[p].label \in Matches

\* Two listed processes have found the same label.
ListedAgree ==
    \A p, q \in Pids : Listed(p) /\ Listed(q) => proc[p].label = proc[q].label

ManagersListed == \A p \in Pids : Manages(p) => Listed(p)

IInv == TInv /\ JobsLive /\ ListedMatches /\ ListedAgree /\ ManagersListed

-----------------------------------------------------------------------------
\* The worker's job runs the copied executable.
LEMMA TaskPlistRuns == jobProgram(taskPlist("executor")) = "executor"
<1> DEFINE plist == taskPlist("executor")
<1>1. /\ DOMAIN plist = 1 .. 5
      /\ plist[1].key = "Label" /\ plist[2].key = "Program"
      /\ plist[3].key = "ProgramArguments" /\ plist[4].key = "RunAtLoad"
      /\ plist[5].key = "LaunchOnlyOnce"
      /\ plist[2].value = Text("executor")
  BY DEF taskPlist, Entry
<1> HIDE DEF plist
<1>2. \A j \in DOMAIN plist : plist[j].key = "Program" <=> j = 2
  BY <1>1
<1>3. Values(plist, "Program") = {Text("executor")}
  BY <1>1, <1>2 DEF Values
<1>4. (CHOOSE v \in {Text("executor")} : TRUE) = Text("executor")
  OBVIOUS
<1>5. jobProgram(plist) = Text("executor").text
  BY <1>3, <1>4 DEF jobProgram
<1> QED BY <1>5 DEF Text, plist

\* What a step does to the process it is about.
LEMMA StartsFresh ==
  ASSUME TInv, NEW p \in Pids, NEW kind \in Kinds, NEW exe \in Paths,
         Starts(p, kind, exe)
  PROVE  /\ proc' \in [Pids -> Process \cup {None}]
         /\ proc[p] = None
         /\ proc'[p] # None /\ proc'[p].step = "new"
         /\ \A q \in Pids : q # p => proc'[q] = proc[q]
<1> DEFINE process == [kind |-> kind, exe |-> exe, step |-> "new",
                       keg |-> None, label |-> None]
<1>1. process \in Process /\ process # None
  BY ProcessAssumption DEF Process, Steps, Probing
<1>2. proc' = [proc EXCEPT ![p] = process] /\ proc[p] = None
  BY DEF Starts
<1> QED BY <1>1, <1>2 DEF TInv, TypeOK

LEMMA BecomesOnly ==
  ASSUME TInv, NEW p \in Pids, NEW process \in Process \cup {None},
         Becomes(p, process)
  PROVE  /\ proc' \in [Pids -> Process \cup {None}]
         /\ proc'[p] = process
         /\ \A q \in Pids : q # p => proc'[q] = proc[q]
BY DEF Becomes, TInv, TypeOK

\* A failing probe leaves neither keg nor label.
LEMMA FailsRefuses ==
  ASSUME TInv, NEW p \in Pids, proc[p] # None, NEW reason \in Reasons,
         Fails(p, reason)
  PROVE  /\ proc' \in [Pids -> Process \cup {None}]
         /\ proc'[p] # None /\ proc'[p].step = reason
         /\ \A q \in Pids : q # p => proc'[q] = proc[q]
<1> DEFINE process == [proc[p] EXCEPT !.step = reason, !.keg = None, !.label = None]
<1>1. process \in Process /\ process.step = reason
  BY DEF TInv, TypeOK, Process, Steps
<1>2. Becomes(p, process)
  BY DEF Fails
<1> QED BY <1>1, <1>2, ProcessAssumption, BecomesOnly

-----------------------------------------------------------------------------
(* The steps, by what they change.                                         *)

\* A step that starts a process, which may be a job's.
LEMMA StartKeeps ==
  ASSUME IInv, NEW p \in Pids, NEW kind \in Kinds, NEW exe \in Paths,
         Starts(p, kind, exe), UNCHANGED <<opt, agents>>,
         \/ UNCHANGED jobs
         \/ \E l \in Labels : jobs[l] = None /\ jobs' = [jobs EXCEPT ![l] = p]
  PROVE  IInv'
<1> USE DEF IInv, TInv
<1>1. /\ proc' \in [Pids -> Process \cup {None}] /\ proc[p] = None
      /\ proc'[p] # None /\ proc'[p].step = "new"
      /\ \A q \in Pids : q # p => proc'[q] = proc[q]
  BY StartsFresh
<1>2. jobs' \in [Labels -> Pids \cup {None}]
  BY DEF TypeOK
<1>3. \A l \in Labels : jobs'[l] = jobs[l] \/ jobs'[l] = p
  BY DEF TypeOK
<1>4. TypeOK' /\ ProbeFills'
  BY <1>1, <1>2 DEF TypeOK, ProbeFills, At
<1>5. \A q \in Pids : Listed(q)' => q # p /\ Listed(q)
  <2> SUFFICES ASSUME NEW q \in Pids, Listed(q)' PROVE q # p /\ Listed(q)
    OBVIOUS
  <2>1. q # p
    BY <1>1 DEF Listed
  <2>2. proc'[q] = proc[q] /\ proc[q].label \in Labels
    BY <1>1, <2>1 DEF Listed, TypeOK, ProbeFills, Process
  <2> QED BY <1>3, <2>1, <2>2 DEF Listed
<1>6. \A q \in Pids : Listed(q) => Listed(q)'
  <2> SUFFICES ASSUME NEW q \in Pids, Listed(q) PROVE Listed(q)'
    OBVIOUS
  <2>1. q # p /\ proc'[q] = proc[q] /\ proc[q].label \in Labels
    BY <1>1 DEF Listed, TypeOK, ProbeFills, Process
  <2>2. q # None
    BY IdentityAssumption
  <2>3. jobs'[proc[q].label] = q
    BY <2>1, <2>2 DEF Listed, TypeOK
  <2> QED BY <2>1, <2>3 DEF Listed
<1>7. JobsLive'
  <2> SUFFICES ASSUME NEW l \in Labels, jobs'[l] # None PROVE proc'[jobs'[l]] # None
    BY DEF JobsLive
  <2>1. CASE jobs'[l] = p
    BY <1>1, <2>1
  <2>2. CASE jobs'[l] # p
    BY <1>1, <1>3, <2>2 DEF JobsLive, TypeOK
  <2> QED BY <2>1, <2>2
<1>8. ListedMatches' /\ ListedAgree'
  BY <1>1, <1>5 DEF ListedMatches, ListedAgree, Matches
<1>9. ManagersListed'
  BY <1>1, <1>6 DEF ManagersListed, Manages, At
<1> QED BY <1>4, <1>7, <1>8, <1>9

\* A step of a probe that has not found a label, or fails.
LEMMA ProbeStepKeeps ==
  ASSUME IInv, NEW p \in Pids, UNCHANGED <<opt, agents, jobs>>,
         proc[p] # None, proc'[p] # None,
         proc' \in [Pids -> Process \cup {None}],
         \A q \in Pids : q # p => proc'[q] = proc[q],
         proc'[p].step \notin {"found", "ready"},
         proc'[p].step \in {"resolved", "linked"} => proc'[p].keg # None
  PROVE  IInv'
<1> USE DEF IInv, TInv
<1>1. TypeOK' /\ ProbeFills'
  BY DEF TypeOK, ProbeFills, At
<1>2. \A q \in Pids : Listed(q)' => q # p /\ Listed(q)
  BY DEF Listed
<1>3. \A q \in Pids : q # p /\ Listed(q) => Listed(q)'
  BY DEF Listed
<1>4. JobsLive'
  BY DEF JobsLive, TypeOK
<1>5. ListedMatches' /\ ListedAgree'
  BY <1>2 DEF ListedMatches, ListedAgree, Matches
<1>6. ManagersListed'
  BY <1>3 DEF ManagersListed, Manages, At
<1> QED BY <1>1, <1>4, <1>5, <1>6

\* The steps of the probe.
LEMMA ResolveKeeps == ASSUME IInv, NEW p \in Pids, Resolve(p) PROVE IInv'
<1> USE DEF IInv, TInv
<1>1. proc[p] # None /\ proc[p] \in Process /\ UNCHANGED <<opt, agents, jobs>>
  BY DEF Resolve, At, TypeOK
<1>2. CASE Fails(p, "install_unsupported")
  BY <1>1, <1>2, FailsRefuses, ProbeStepKeeps DEF Reasons
<1>3. ASSUME NEW keg, keg = Resolved(proc[p].exe), keg # None,
             Becomes(p, [proc[p] EXCEPT !.step = "resolved", !.keg = keg])
      PROVE  IInv'
  <2> DEFINE process == [proc[p] EXCEPT !.step = "resolved", !.keg = keg]
  <2>1. keg \in Kegs
    BY <1>1, <1>3 DEF Resolved, Process, Paths, TypeOK
  <2>2. process \in Process /\ process.step = "resolved" /\ process.keg = keg
    BY <1>1, <2>1 DEF Process, Steps, Probing
  <2>3. process # None
    BY <2>2, ProcessAssumption
  <2> QED BY <1>1, <1>3, <2>2, <2>3, BecomesOnly, ProbeStepKeeps
<1> QED BY <1>2, <1>3 DEF Resolve

LEMMA CheckLinkKeeps == ASSUME IInv, NEW p \in Pids, CheckLink(p) PROVE IInv'
<1> USE DEF IInv, TInv
<1>1. /\ proc[p] # None /\ proc[p] \in Process /\ proc[p].keg # None
      /\ UNCHANGED <<opt, agents, jobs>>
  BY DEF CheckLink, At, TypeOK, ProbeFills
<1>2. CASE Fails(p, "opt_link_mismatch")
  BY <1>1, <1>2, FailsRefuses, ProbeStepKeeps DEF Reasons
<1>3. CASE Becomes(p, [proc[p] EXCEPT !.step = "linked"])
  <2> DEFINE process == [proc[p] EXCEPT !.step = "linked"]
  <2>1. process \in Process /\ process.step = "linked" /\ process.keg = proc[p].keg
    BY <1>1 DEF Process, Steps, Probing
  <2>2. process # None
    BY <2>1, ProcessAssumption
  <2> QED BY <1>1, <1>3, <2>1, <2>2, BecomesOnly, ProbeStepKeeps
<1> QED BY <1>2, <1>3 DEF CheckLink

\* The label a process finds is the only match; another listed process has
\* found a match too.
LEMMA FindPlistKeeps == ASSUME IInv, NEW p \in Pids, FindPlist(p) PROVE IInv'
<1> USE DEF IInv, TInv
<1>1. /\ proc[p] # None /\ proc[p] \in Process /\ proc[p].step = "linked"
      /\ proc[p].keg # None /\ UNCHANGED <<opt, agents, jobs>>
  BY DEF FindPlist, At, TypeOK, ProbeFills
<1>2. CASE Fails(p, "refused")
  BY <1>1, <1>2, FailsRefuses, ProbeStepKeeps DEF Reasons
<1>3. ASSUME NEW l \in Labels, Matches = {l},
             Becomes(p, [proc[p] EXCEPT !.step = "found", !.label = l])
      PROVE  IInv'
  <2> DEFINE process == [proc[p] EXCEPT !.step = "found", !.label = l]
  <2>1. /\ process \in Process /\ process.step = "found"
        /\ process.keg = proc[p].keg /\ process.label = l
    BY <1>1 DEF Process, Steps, Probing
  <2>2. process # None /\ l # None
    BY <2>1, ProcessAssumption, IdentityAssumption
  <2>3. /\ proc' \in [Pids -> Process \cup {None}] /\ proc'[p] = process
        /\ \A q \in Pids : q # p => proc'[q] = proc[q]
    BY <1>3, <2>1, BecomesOnly
  <2> HIDE DEF process
  <2>4. TypeOK' /\ ProbeFills'
    BY <1>1, <2>1, <2>2, <2>3 DEF TypeOK, ProbeFills, At
  <2>5. JobsLive'
    BY <1>1, <2>2, <2>3 DEF JobsLive, TypeOK
  <2>6. \A q \in Pids : q # p => (Listed(q)' <=> Listed(q))
    BY <1>1, <2>3 DEF Listed
  <2>7. ListedMatches'
    BY <1>1, <1>3, <2>1, <2>3, <2>6 DEF ListedMatches, Matches
  <2>8. \A q \in Pids : Listed(q)' => proc'[q].label = l
    <3> SUFFICES ASSUME NEW q \in Pids, Listed(q)' PROVE proc'[q].label = l
      OBVIOUS
    <3>1. CASE q = p
      BY <2>1, <2>3, <3>1
    <3>2. CASE q # p
      BY <1>3, <2>3, <2>6, <3>2 DEF ListedMatches
    <3> QED BY <3>1, <3>2
  <2>9. ListedAgree'
    BY <2>8 DEF ListedAgree
  <2>10. ManagersListed'
    BY <2>1, <2>3, <2>6 DEF ManagersListed, Manages, At
  <2> QED BY <2>4, <2>5, <2>7, <2>9, <2>10
<1> QED BY <1>2, <1>3 DEF FindPlist

\* launchd lists the process that becomes ready, if it is the service.
LEMMA CheckPidKeeps == ASSUME IInv, NEW p \in Pids, CheckPid(p) PROVE IInv'
<1> USE DEF IInv, TInv
<1>1. /\ proc[p] # None /\ proc[p] \in Process /\ proc[p].step = "found"
      /\ proc[p].keg # None /\ proc[p].label # None
      /\ UNCHANGED <<opt, agents, jobs>>
  BY DEF CheckPid, At, TypeOK, ProbeFills
<1>2. CASE Fails(p, "refused")
  BY <1>1, <1>2, FailsRefuses, ProbeStepKeeps DEF Reasons
<1>3. CASE /\ Becomes(p, [proc[p] EXCEPT !.step = "ready"])
           /\ proc[p].kind = "service" => jobs[proc[p].label] = p
  <2> DEFINE process == [proc[p] EXCEPT !.step = "ready"]
  <2>1. /\ process \in Process /\ process.step = "ready"
        /\ process.kind = proc[p].kind
        /\ process.keg = proc[p].keg /\ process.label = proc[p].label
    BY <1>1 DEF Process, Steps
  <2>2. process # None
    BY <2>1, ProcessAssumption
  <2>3. /\ proc' \in [Pids -> Process \cup {None}] /\ proc'[p] = process
        /\ \A q \in Pids : q # p => proc'[q] = proc[q]
    BY <1>3, <2>1, BecomesOnly
  <2> HIDE DEF process
  <2>4. TypeOK' /\ ProbeFills'
    BY <1>1, <2>1, <2>2, <2>3 DEF TypeOK, ProbeFills, At
  <2>5. JobsLive'
    BY <1>1, <2>2, <2>3 DEF JobsLive, TypeOK
  <2>6. \A q \in Pids : /\ Listed(q)' <=> Listed(q)
                        /\ Listed(q) => proc'[q].label = proc[q].label
    BY <1>1, <2>1, <2>2, <2>3 DEF Listed
  <2>7. ListedMatches' /\ ListedAgree'
    BY <1>1, <2>6 DEF ListedMatches, ListedAgree, Matches
  <2>8. ManagersListed'
    <3>1. Manages(p)' => Listed(p)'
      BY <1>1, <1>3, <2>1, <2>2, <2>3 DEF Manages, At, Listed
    <3>2. \A q \in Pids : q # p => (Manages(q)' <=> Manages(q))
      BY <2>3 DEF Manages, At
    <3> QED BY <2>6, <3>1, <3>2 DEF ManagersListed
  <2> QED BY <2>4, <2>5, <2>7, <2>8
<1> QED BY <1>2, <1>3 DEF CheckPid

\* A process that ends leaves its jobs.
LEMMA EndKeeps == ASSUME IInv, NEW p \in Pids, ProcessEnds(p) PROVE IInv'
<1> USE DEF IInv, TInv
<1>1. /\ UNCHANGED <<opt, agents>>
      /\ proc' \in [Pids -> Process \cup {None}] /\ proc'[p] = None
      /\ \A q \in Pids : q # p => proc'[q] = proc[q]
  BY BecomesOnly DEF ProcessEnds
<1>2. /\ jobs' \in [Labels -> Pids \cup {None}]
      /\ \A l \in Labels : jobs'[l] = IF jobs[l] = p THEN None ELSE jobs[l]
  BY DEF ProcessEnds, TypeOK
<1>3. TypeOK' /\ ProbeFills'
  BY <1>1, <1>2 DEF TypeOK, ProbeFills, At
<1>4. \A q \in Pids : q # None
  BY IdentityAssumption
<1>5. JobsLive'
  <2> SUFFICES ASSUME NEW l \in Labels, jobs'[l] # None PROVE proc'[jobs'[l]] # None
    BY DEF JobsLive
  <2>1. jobs'[l] = jobs[l] /\ jobs[l] # p /\ jobs[l] \in Pids
    BY <1>2 DEF TypeOK
  <2> QED BY <1>1, <2>1 DEF JobsLive
<1>6. \A q \in Pids : (Listed(q)' <=> q # p /\ Listed(q))
  <2> SUFFICES ASSUME NEW q \in Pids PROVE Listed(q)' <=> q # p /\ Listed(q)
    OBVIOUS
  <2>1. CASE q = p
    BY <1>1, <2>1 DEF Listed
  <2>2. CASE q # p
    <3>1. proc'[q] = proc[q]
      BY <1>1, <2>2
    <3>2. proc[q] # None /\ proc[q].step \in {"found", "ready"} =>
             (jobs'[proc[q].label] = q <=> jobs[proc[q].label] = q)
      BY <1>2, <1>4, <2>2 DEF TypeOK, ProbeFills, Process
    <3> QED BY <2>2, <3>1, <3>2 DEF Listed
  <2> QED BY <2>1, <2>2
<1>7. ListedMatches' /\ ListedAgree'
  BY <1>1, <1>6 DEF ListedMatches, ListedAgree, Matches
<1>8. ManagersListed'
  BY <1>1, <1>6 DEF ManagersListed, Manages, At
<1> QED BY <1>3, <1>5, <1>7, <1>8

\* A plist that may be written is not that of a listed process.
LEMMA WriteKeeps ==
  ASSUME IInv, ~Orphans, NEW l \in Labels, WritePlist(l)
  PROVE  IInv'
<1> USE DEF IInv, TInv
<1>1. /\ UNCHANGED <<opt, jobs, proc>> /\ jobs[l] = None
      /\ agents' \in [Labels -> Plists \cup {None}]
      /\ \A m \in Labels : m # l => agents'[m] = agents[m]
  BY DEF WritePlist, TypeOK
<1>2. \A q \in Pids : Listed(q)' <=> Listed(q)
  BY <1>1 DEF Listed
<1>3. \A q \in Pids : Listed(q) => proc[q].label \in Labels \ {l}
  <2> SUFFICES ASSUME NEW q \in Pids, Listed(q) PROVE proc[q].label \in Labels \ {l}
    OBVIOUS
  <2>1. q # None
    BY IdentityAssumption
  <2> QED BY <1>1, <2>1 DEF Listed, TypeOK, ProbeFills, Process
<1>4. ListedMatches'
  BY <1>1, <1>2, <1>3 DEF ListedMatches, Matches
<1> QED BY <1>1, <1>2, <1>4 DEF TypeOK, ProbeFills, At, JobsLive, ListedAgree,
                                ManagersListed, Manages

\* The invariant holds at first, is kept by every step, and implies what is
\* claimed.
LEMMA InitHolds == Init => IInv
BY DEF Init, IInv, TInv, TypeOK, ProbeFills, At, JobsLive, ListedMatches,
       ListedAgree, Listed, ManagersListed, Manages

LEMMA InvariantKept == ASSUME ~Orphans PROVE IInv /\ [Next]_vars => IInv'
<1> SUFFICES ASSUME IInv, [Next]_vars PROVE IInv'
  OBVIOUS
<1>0. "service" \in Kinds /\ "status" \in Kinds /\ "worker" \in Kinds
      /\ "opt" \in Paths /\ "executor" \in Paths
  BY DEF Kinds, Paths
<1>1. CASE BrewUpgrade
  BY <1>1 DEF BrewUpgrade, IInv, TInv, TypeOK, ProbeFills, At, JobsLive,
              ListedMatches, ListedAgree, Listed, Matches, ManagersListed, Manages
<1>2. ASSUME NEW l \in Labels, WritePlist(l) PROVE IInv'
  BY <1>2, WriteKeeps
<1>3. ASSUME NEW l \in Labels, NEW p \in Pids, JobStarts(l, p) PROVE IInv'
  BY <1>0, <1>3, StartKeeps DEF JobStarts
<1>4. ASSUME NEW p \in Pids, NEW exe \in Paths, ManualStart(p, exe) \/ StatusStart(p, exe)
      PROVE  IInv'
  BY <1>0, <1>4, StartKeeps DEF ManualStart, StatusStart
<1>5. ASSUME NEW p \in Pids, ProcessEnds(p) PROVE IInv'
  BY <1>5, EndKeeps
<1>6. ASSUME NEW p \in Pids, Probe(p) PROVE IInv'
  <2>1. CASE Resolve(p)
    BY <2>1, ResolveKeeps
  <2>2. CASE RefusedElsewhere(p)
    <3>1. proc[p] # None /\ Fails(p, "refused") /\ UNCHANGED <<opt, agents, jobs>>
      BY <2>2 DEF RefusedElsewhere, At
    <3> QED BY <3>1, FailsRefuses, ProbeStepKeeps DEF Reasons, IInv
  <2>3. CASE CheckLink(p)
    BY <2>3, CheckLinkKeeps
  <2>4. CASE FindPlist(p)
    BY <2>4, FindPlistKeeps
  <2>5. CASE CheckPid(p)
    BY <2>5, CheckPidKeeps
  <2> QED BY <1>6, <2>1, <2>2, <2>3, <2>4, <2>5 DEF Probe
<1>7. ASSUME NEW p \in Pids, NEW q \in Pids, Accept(p, q) PROVE IInv'
  <2>1. Starts(q, "worker", "executor") /\ UNCHANGED <<opt, agents, jobs>>
    BY <1>7, TaskPlistRuns DEF Accept
  <2> QED BY <1>0, <2>1, StartKeeps
<1>8. CASE UNCHANGED vars
  BY <1>8 DEF vars, IInv, TInv, TypeOK, ProbeFills, At, JobsLive, ListedMatches,
              ListedAgree, Listed, Matches, ManagersListed, Manages
<1> QED BY <1>1, <1>2, <1>3, <1>4, <1>5, <1>6, <1>7, <1>8 DEF Next

LEMMA OneOfMany == IInv => OneManager
<1> SUFFICES ASSUME IInv PROVE OneManager
  OBVIOUS
<1>1. \A p \in Pids : Manages(p) => jobs[proc[p].label] = p
  BY DEF IInv, ManagersListed, Listed
<1>2. ASSUME NEW p \in Pids, NEW q \in Pids, Manages(p), Manages(q)
      PROVE  p = q
  <2>1. proc[p].label = proc[q].label
    BY <1>2 DEF IInv, ManagersListed, ListedAgree
  <2> QED BY <1>1, <1>2, <2>1
<1> QED BY <1>1, <1>2 DEF OneManager

\* At most one process manages upgrades, and it is the one launchd runs under
\* the label its probe found (NewServiceProber, Probe, servicePlist), as long
\* as nobody removes or replaces the plist of a running job.
THEOREM ManagersAreOne == ASSUME ~Orphans PROVE Spec => [](TypeOK /\ OneManager)
<1>1. IInv => TypeOK /\ OneManager
  BY OneOfMany DEF IInv, TInv
<1>2. IInv /\ [Next]_vars => IInv'
  BY InvariantKept
<1> QED BY InitHolds, <1>1, <1>2, PTL DEF Spec
-----------------------------------------------------------------------------
(* Types, and the plists that are read, whatever happens to the plists of  *)
(* running jobs.                                                           *)

LEMMA TypesInit == Init => TInv
BY DEF Init, TInv, TypeOK, ProbeFills, At

\* A step of the probe of p fills in what it has established.
LEMMA ProbeTypes ==
  ASSUME TInv, NEW p \in Pids, NEW process \in Process, Becomes(p, process),
         process.step \in {"resolved", "linked", "found", "ready"} => process.keg # None,
         process.step \in {"found", "ready"} => process.label # None,
         UNCHANGED <<opt, agents, jobs>>
  PROVE  TInv'
<1>1. /\ proc' \in [Pids -> Process \cup {None}] /\ proc'[p] = process
      /\ \A q \in Pids : q # p => proc'[q] = proc[q]
  BY BecomesOnly
<1> QED BY <1>1 DEF TInv, TypeOK, ProbeFills, At

LEMMA StartTypes ==
  ASSUME TInv, NEW p \in Pids, NEW kind \in Kinds, NEW exe \in Paths,
         Starts(p, kind, exe), UNCHANGED <<opt, agents>>,
         jobs' \in [Labels -> Pids \cup {None}]
  PROVE  TInv'
<1>1. /\ proc' \in [Pids -> Process \cup {None}] /\ proc'[p].step = "new"
      /\ \A q \in Pids : q # p => proc'[q] = proc[q]
  BY StartsFresh
<1> QED BY <1>1 DEF TInv, TypeOK, ProbeFills, At

LEMMA FailTypes ==
  ASSUME TInv, NEW p \in Pids, proc[p] # None, NEW reason \in Reasons,
         Fails(p, reason), UNCHANGED <<opt, agents, jobs>>
  PROVE  TInv'
<1>1. /\ proc' \in [Pids -> Process \cup {None}] /\ proc'[p].step = reason
      /\ \A q \in Pids : q # p => proc'[q] = proc[q]
  BY FailsRefuses
<1> QED BY <1>1 DEF TInv, TypeOK, ProbeFills, At, Reasons

LEMMA TypesKept == TInv /\ [Next]_vars => TInv'
<1> SUFFICES ASSUME TInv, [Next]_vars PROVE TInv'
  OBVIOUS
<1>0. /\ "service" \in Kinds /\ "status" \in Kinds /\ "worker" \in Kinds
      /\ "opt" \in Paths /\ "executor" \in Paths
      /\ jobs \in [Labels -> Pids \cup {None}]
  BY DEF Kinds, Paths, TInv, TypeOK
<1>1. CASE BrewUpgrade
  BY <1>1 DEF BrewUpgrade, TInv, TypeOK, ProbeFills, At
<1>2. ASSUME NEW l \in Labels, WritePlist(l) PROVE TInv'
  BY <1>2 DEF WritePlist, TInv, TypeOK, ProbeFills, At
<1>3. ASSUME NEW l \in Labels, NEW p \in Pids, JobStarts(l, p) PROVE TInv'
  <2>1. jobs' \in [Labels -> Pids \cup {None}]
    BY <1>0, <1>3 DEF JobStarts
  <2> QED BY <1>0, <1>3, <2>1, StartTypes DEF JobStarts
<1>4. ASSUME NEW p \in Pids, NEW exe \in Paths, ManualStart(p, exe) \/ StatusStart(p, exe)
      PROVE  TInv'
  BY <1>0, <1>4, StartTypes DEF ManualStart, StatusStart
<1>5. ASSUME NEW p \in Pids, ProcessEnds(p) PROVE TInv'
  <2>1. /\ proc' \in [Pids -> Process \cup {None}] /\ proc'[p] = None
        /\ \A q \in Pids : q # p => proc'[q] = proc[q]
        /\ UNCHANGED <<opt, agents>>
    BY <1>5, BecomesOnly DEF ProcessEnds
  <2>2. jobs' \in [Labels -> Pids \cup {None}]
    BY <1>0, <1>5 DEF ProcessEnds
  <2> QED BY <2>1, <2>2 DEF TInv, TypeOK, ProbeFills, At
<1>6. ASSUME NEW p \in Pids, Probe(p) PROVE TInv'
  <2> USE DEF TInv
  <2>1. CASE Resolve(p)
    <3>1. proc[p] # None /\ proc[p] \in Process /\ UNCHANGED <<opt, agents, jobs>>
      BY <2>1 DEF Resolve, At, TypeOK
    <3>2. CASE Fails(p, "install_unsupported")
      BY <3>1, <3>2, FailTypes DEF Reasons
    <3>3. ASSUME NEW keg, keg = Resolved(proc[p].exe), keg # None,
                 Becomes(p, [proc[p] EXCEPT !.step = "resolved", !.keg = keg])
          PROVE  TInv'
      <4> DEFINE process == [proc[p] EXCEPT !.step = "resolved", !.keg = keg]
      <4>1. keg \in Kegs
        BY <3>1, <3>3 DEF Resolved, Process, Paths, TypeOK
      <4>2. process \in Process /\ process.step = "resolved" /\ process.keg = keg
        BY <3>1, <4>1 DEF Process, Steps, Probing
      <4> QED BY <3>1, <3>3, <4>2, ProbeTypes
    <3> QED BY <2>1, <3>2, <3>3 DEF Resolve
  <2>2. CASE RefusedElsewhere(p)
    BY <2>2, FailTypes DEF RefusedElsewhere, Reasons
  <2>3. CASE CheckLink(p)
    <3>1. /\ proc[p] # None /\ proc[p] \in Process /\ proc[p].keg # None
          /\ UNCHANGED <<opt, agents, jobs>>
      BY <2>3 DEF CheckLink, At, TypeOK, ProbeFills
    <3>2. CASE Fails(p, "opt_link_mismatch")
      BY <3>1, <3>2, FailTypes DEF Reasons
    <3>3. CASE Becomes(p, [proc[p] EXCEPT !.step = "linked"])
      <4> DEFINE process == [proc[p] EXCEPT !.step = "linked"]
      <4>1. process \in Process /\ process.step = "linked" /\ process.keg = proc[p].keg
        BY <3>1 DEF Process, Steps, Probing
      <4> QED BY <3>1, <3>3, <4>1, ProbeTypes
    <3> QED BY <2>3, <3>2, <3>3 DEF CheckLink
  <2>4. CASE FindPlist(p)
    <3>1. /\ proc[p] # None /\ proc[p] \in Process /\ proc[p].step = "linked"
          /\ proc[p].keg # None /\ UNCHANGED <<opt, agents, jobs>>
      BY <2>4 DEF FindPlist, At, TypeOK, ProbeFills
    <3>2. CASE Fails(p, "refused")
      BY <3>1, <3>2, FailTypes DEF Reasons
    <3>3. ASSUME NEW l \in Labels,
                 Becomes(p, [proc[p] EXCEPT !.step = "found", !.label = l])
          PROVE  TInv'
      <4> DEFINE process == [proc[p] EXCEPT !.step = "found", !.label = l]
      <4>1. /\ process \in Process /\ process.step = "found"
            /\ process.keg = proc[p].keg /\ process.label = l /\ l # None
        BY <3>1, IdentityAssumption DEF Process, Steps, Probing
      <4> QED BY <3>1, <3>3, <4>1, ProbeTypes
    <3> QED BY <2>4, <3>2, <3>3 DEF FindPlist
  <2>5. CASE CheckPid(p)
    <3>1. /\ proc[p] # None /\ proc[p] \in Process /\ proc[p].step = "found"
          /\ proc[p].keg # None /\ proc[p].label # None
          /\ UNCHANGED <<opt, agents, jobs>>
      BY <2>5 DEF CheckPid, At, TypeOK, ProbeFills
    <3>2. CASE Fails(p, "refused")
      BY <3>1, <3>2, FailTypes DEF Reasons
    <3>3. CASE Becomes(p, [proc[p] EXCEPT !.step = "ready"])
      <4> DEFINE process == [proc[p] EXCEPT !.step = "ready"]
      <4>1. /\ process \in Process /\ process.step = "ready"
            /\ process.keg = proc[p].keg /\ process.label = proc[p].label
        BY <3>1 DEF Process, Steps
      <4> QED BY <3>1, <3>3, <4>1, ProbeTypes
    <3> QED BY <2>5, <3>2, <3>3 DEF CheckPid
  <2> QED BY <1>6, <2>1, <2>2, <2>3, <2>4, <2>5 DEF Probe
<1>7. ASSUME NEW p \in Pids, NEW q \in Pids, Accept(p, q) PROVE TInv'
  <2>1. Starts(q, "worker", "executor") /\ UNCHANGED <<opt, agents, jobs>>
    BY <1>7, TaskPlistRuns DEF Accept
  <2> QED BY <1>0, <2>1, StartTypes
<1>8. CASE UNCHANGED vars
  BY <1>8 DEF vars, TInv, TypeOK, ProbeFills, At
<1> QED BY <1>1, <1>2, <1>3, <1>4, <1>5, <1>6, <1>7, <1>8 DEF Next

\* A probe that is ready has resolved its keg and found its label (Probe),
\* and the other variables keep their types, even if plists of running jobs
\* are removed or replaced.
THEOREM IdentityTypeCorrect == Spec => []TypeOK
<1>1. TInv => TypeOK
  BY DEF TInv
<1> QED BY TypesInit, TypesKept, <1>1, PTL DEF Spec

\* The plist of the worker is that of a job.
LEMMA TaskPlistIsJob ==
  \E T : JobPlist(taskPlist("executor"), T) /\ ~EmptyProgram(taskPlist("executor"))
<1> DEFINE T == {"Label", "task", "Program", "executor", "ProgramArguments",
                 "upgrade-worker", "--task-id", "RunAtLoad", "LaunchOnlyOnce"}
           E == [key : T, value : Value(T)]
           plist == taskPlist("executor")
           items == <<"executor", "upgrade-worker", "--task-id">>
<1>1. /\ Text("task") \in Value(T) /\ Text("executor") \in Value(T)
      /\ True \in Value(T)
  BY DEF Text, True, Value, FlatValue
<1>2. Array(items) \in Value(T)
  <2>1. items \in Seq(T)
    OBVIOUS
  <2> QED BY <2>1 DEF Array, Value, FlatValue
<1>3. \A k \in T, v \in Value(T) : Entry(k, v) \in E
  BY DEF Entry
<1>4. /\ Entry("Label", Text("task")) \in E
      /\ Entry("Program", Text("executor")) \in E
      /\ Entry("ProgramArguments", Array(items)) \in E
      /\ Entry("RunAtLoad", True) \in E
      /\ Entry("LaunchOnlyOnce", True) \in E
  BY <1>1, <1>2, <1>3
<1>5. plist \in Seq(E)
  <2> HIDE DEF E
  <2> QED BY <1>4 DEF taskPlist
<1>6. /\ DOMAIN plist = 1 .. 5
      /\ plist[1].key = "Label" /\ plist[2].key = "Program"
      /\ plist[3].key = "ProgramArguments" /\ plist[4].key = "RunAtLoad"
      /\ plist[5].key = "LaunchOnlyOnce"
      /\ plist[2].value = Text("executor") /\ plist[3].value = Array(items)
  BY DEF taskPlist, Entry
<1> HIDE DEF plist
<1>7. \A i, j \in DOMAIN plist : plist[i].key = plist[j].key => i = j
  BY <1>6
<1>8. \A i \in DOMAIN plist : /\ plist[i].key = "Program" => i = 2
                              /\ plist[i].key = "ProgramArguments" => i = 3
  BY <1>6
<1>9. plist[2].value.is = "string" /\ plist[3].value.is = "array"
  BY <1>6 DEF Text, Array
<1>10. JobPlist(plist, T)
  BY <1>5, <1>7, <1>8, <1>9 DEF JobPlist
<1>11. ~EmptyProgram(plist)
  <2>1. Text("executor") # Text("")
    BY DEF Text
  <2> QED BY <1>6, <1>8, <2>1 DEF EmptyProgram, Values
<1> HIDE DEF T
<1> QED BY <1>10, <1>11 DEF plist

\* Well typed plists, in the directory and elsewhere, are read as launchd reads
\* them.
LEMMA TypedPlistsRead == TInv => PlistsRead
<1> SUFFICES ASSUME TInv PROVE PlistsRead
  OBVIOUS
<1>1. ASSUME NEW plist \in Plists \cup Documents, ~EmptyProgram(plist)
      PROVE  Reads(plist)
  BY <1>1, PlistAssumption, ProgramIsRead
<1>2. Reads(taskPlist("executor"))
  BY TaskPlistIsJob, ProgramIsRead
<1>3. \A l \in Labels : agents[l] # None => agents[l] \in Plists
  BY DEF TInv, TypeOK
<1> QED BY <1>1, <1>2, <1>3 DEF PlistsRead, DocumentsRead

\* "strictly extracts the job program: Program if present, else
\* ProgramArguments[0]" (plistProgram): in the plist of any job whose Program
\* is not empty, and whose other values are strings, arrays of strings and
\* dictionaries of these, the state machine finds the program launchd runs, or
\* fails when it is not absolute, whatever stands before, between and after.
THEOREM PlistsAreRead == Spec => []PlistsRead
<1>1. TInv => PlistsRead
  BY TypedPlistsRead
<1> QED BY TypesInit, TypesKept, <1>1, PTL DEF Spec
=============================================================================
