--------------------------- MODULE DataInduction ---------------------------
(***************************************************************************)
(* Induction over numbers, as the existence of a least counterexample, and *)
(* what it gives: functions defined by recursion satisfy their equation,   *)
(* and FlattenSeq joins sequences one after the other.                     *)
(***************************************************************************)
EXTENDS Integers, Sequences, SequencesExt, WellFoundedInduction, SequenceTheorems,
        TLAPS

(* A set of numbers has a least element: the number where something first *)
(* goes wrong.                                                             *)
LEMMA LeastNumber ==
    ASSUME NEW T, T \subseteq Nat, T # {}
    PROVE  \E m \in T : \A k \in T : m <= k
<1>1. PICK m \in T : \A k \in T : <<k, m>> \notin OpToRel(<, Nat)
  BY NatLessThanWellFounded, WFMin
<1>2. ASSUME NEW k \in T, ~(m <= k) PROVE FALSE
  <2>1. k < m /\ k \in Nat /\ m \in Nat
    BY <1>2
  <2>2. <<k, m>> \in Nat \X Nat /\ <<k, m>>[1] < <<k, m>>[2]
    BY <2>1
  <2>3. <<k, m>> \in OpToRel(<, Nat)
    BY <2>2, Zenon DEF OpToRel
  <2> QED BY <1>1, <2>3
<1> QED BY <1>2

-----------------------------------------------------------------------------
(* Recursive functions                                                     *)

(* f results from taking step after step from base.                        *)
StepByStep(f, n, base, step) ==
    f[0] = base /\ \A i \in 1 .. n : f[i] = step[<<f[i - 1], i>>]

(* There is such a function, of whatever its steps stay in.                *)
LEMMA Recursion ==
    ASSUME NEW S, NEW base \in S, NEW n \in Nat, NEW step \in [S \X (1 .. n) -> S]
    PROVE  \E f \in [0 .. n -> S] : StepByStep(f, n, base, step)
<1> DEFINE T == {m \in 0 .. n : ~\E f \in [0 .. m -> S] : StepByStep(f, m, base, step)}
<1>1. SUFFICES ASSUME T # {} PROVE FALSE
  <2>1. n \in 0 .. n
    OBVIOUS
  <2> QED BY <1>1, <2>1
<1>2. T \subseteq Nat
  OBVIOUS
<1>3. PICK m \in T : \A k \in T : m <= k
  <2> HIDE DEF T
  <2> QED BY <1>1, <1>2, LeastNumber
<1>4. m \in 0 .. n /\ ~\E f \in [0 .. m -> S] : StepByStep(f, m, base, step)
  BY <1>3
<1>5. CASE m = 0
  <2> DEFINE f == [i \in 0 .. 0 |-> base]
  <2>1. f \in [0 .. m -> S] /\ StepByStep(f, m, base, step)
    BY <1>5 DEF StepByStep
  <2> QED BY <1>4, <2>1
<1>6. CASE m # 0
  <2>1. m - 1 \in 0 .. n /\ m - 1 \notin T
    BY <1>3, <1>4, <1>6
  <2>2. PICK g \in [0 .. m - 1 -> S] : StepByStep(g, m - 1, base, step)
    BY <2>1
  <2>3. g[m - 1] \in S /\ m \in 1 .. n
    BY <1>4, <1>6, <2>2
  <2>4. step[<<g[m - 1], m>>] \in S
    BY <2>3
  <2> DEFINE last == step[<<g[m - 1], m>>]
             f == [i \in 0 .. m |-> IF i = m THEN last ELSE g[i]]
  <2> HIDE DEF T
  <2>5. f \in [0 .. m -> S]
    <3> HIDE DEF last
    <3>1. last \in S
      BY <2>4 DEF last
    <3>2. ASSUME NEW i \in 0 .. m PROVE (IF i = m THEN last ELSE g[i]) \in S
      <4>1. i # m => i \in 0 .. m - 1
        BY <1>4
      <4> QED BY <2>2, <3>1, <4>1
    <3> QED BY <3>2
  <2>6. f[0] = base
    BY <1>4, <1>6, <2>2 DEF StepByStep
  <2>7. ASSUME NEW i \in 1 .. m PROVE f[i] = step[<<f[i - 1], i>>]
    <3>1. CASE i = m
      <4>1. f[i] = last /\ f[i - 1] = g[m - 1]
        BY <1>4, <1>6, <3>1
      <4> QED BY <3>1, <4>1
    <3>2. CASE i # m
      <4>1. f[i] = g[i] /\ f[i - 1] = g[i - 1] /\ i \in 1 .. m - 1
        BY <1>4, <1>6, <3>2
      <4> QED BY <2>2, <4>1 DEF StepByStep
    <3> QED BY <3>1, <3>2
  <2> HIDE DEF f
  <2> QED BY <1>4, <2>5, <2>6, <2>7 DEF StepByStep
<1> QED BY <1>5, <1>6

(* Two functions that begin alike and step alike are the same.             *)
LEMMA SameSteps ==
    ASSUME NEW n \in Nat, NEW f, NEW g, g[0] = f[0],
           \A i \in 1 .. n : g[i - 1] = f[i - 1] => g[i] = f[i]
    PROVE  \A i \in 0 .. n : g[i] = f[i]
<1> DEFINE T == {i \in 0 .. n : g[i] # f[i]}
<1>1. SUFFICES ASSUME T # {} PROVE FALSE
  OBVIOUS
<1>2. T \subseteq Nat
  OBVIOUS
<1>3. PICK m \in T : \A k \in T : m <= k
  <2> HIDE DEF T
  <2> QED BY <1>1, <1>2, LeastNumber
<1>4. m \in 0 .. n /\ g[m] # f[m]
  BY <1>3
<1>5. m # 0
  BY <1>4
<1>6. m - 1 \in 0 .. n /\ m \in 1 .. n /\ g[m - 1] = f[m - 1]
  BY <1>3, <1>4, <1>5
<1> QED BY <1>4, <1>6

-----------------------------------------------------------------------------
(* Sequences of sequences                                                  *)

(* The sequences that FlattenSeq goes through.                             *)
Joins(f, parts, n) == f[0] = <<>> /\ \A i \in 1 .. n : f[i] = f[i - 1] \o parts[i]

LEMMA JoinsExist ==
    ASSUME NEW S, NEW n \in Nat, NEW parts \in [1 .. n -> Seq(S)]
    PROVE  \E f \in [0 .. n -> Seq(S)] : Joins(f, parts, n)
<1> DEFINE step == [p \in Seq(S) \X (1 .. n) |-> p[1] \o parts[p[2]]]
<1>1. step \in [Seq(S) \X (1 .. n) -> Seq(S)]
  OBVIOUS
<1>2. \A s \in Seq(S), i \in 1 .. n : step[<<s, i>>] = s \o parts[i]
  OBVIOUS
<1>3. <<>> \in Seq(S)
  OBVIOUS
<1> HIDE DEF step
<1>4. PICK f \in [0 .. n -> Seq(S)] : StepByStep(f, n, <<>>, step)
  BY <1>1, <1>3, Recursion
<1>5. ASSUME NEW i \in 1 .. n PROVE f[i] = f[i - 1] \o parts[i]
  <2>1. f[i] = step[<<f[i - 1], i>>] /\ f[i - 1] \in Seq(S)
    BY <1>4 DEF StepByStep
  <2> QED BY <1>2, <2>1
<1> QED BY <1>4, <1>5 DEF Joins, StepByStep

LEMMA JoinsAreUnique ==
    ASSUME NEW n \in Nat, NEW parts, NEW f, Joins(f, parts, n)
    PROVE  \A g : Joins(g, parts, n) => \A i \in 0 .. n : g[i] = f[i]
<1> TAKE g
<1> HAVE Joins(g, parts, n)
<1>1. g[0] = f[0] /\ \A i \in 1 .. n : g[i - 1] = f[i - 1] => g[i] = f[i]
  BY DEF Joins
<1> QED BY <1>1, SameSteps

(* FlattenSeq is the last of them.                                         *)
LEMMA FlattenJoins ==
    ASSUME NEW S, NEW n \in Nat, NEW parts \in [1 .. n -> Seq(S)],
           NEW f \in [0 .. n -> Seq(S)], Joins(f, parts, n)
    PROVE  FlattenSeq(parts) = f[n]
<1>1. Len(parts) = n
  OBVIOUS
<1>2. \A g : Joins(g, parts, n) => g[n] = f[n]
  <2>1. \A g : Joins(g, parts, n) => \A i \in 0 .. n : g[i] = f[i]
    BY JoinsAreUnique
  <2> QED BY <2>1
<1>4. CASE n = 0
  <2>1. parts = <<>>
    BY <1>4
  <2>2. FlattenSeq(parts) = parts
    BY <1>1, <1>4 DEF FlattenSeq
  <2> QED BY <1>4, <2>1, <2>2 DEF Joins
<1>3. CASE n # 0
  <2> DEFINE Defines(g) == g = [i \in 1 .. n |-> IF i = 1 THEN parts[i] ELSE g[i - 1] \o parts[i]]
             flatten == CHOOSE g : Defines(g)
             h == [i \in 1 .. n |-> f[i]]
  <2>1. FlattenSeq(parts) = flatten[n]
    BY <1>1, <1>3 DEF FlattenSeq
  <2>2. Defines(h)
    <3>1. ASSUME NEW i \in 1 .. n
          PROVE  f[i] = IF i = 1 THEN parts[i] ELSE h[i - 1] \o parts[i]
      <4>1. f[i] = f[i - 1] \o parts[i]
        BY DEF Joins
      <4>2. CASE i = 1
        <5>1. f[i - 1] = <<>> /\ parts[i] \in Seq(S)
          BY <4>2 DEF Joins
        <5>2. <<>> \o parts[i] = parts[i]
          BY <5>1
        <5> QED BY <4>1, <4>2, <5>1, <5>2
      <4>3. CASE i # 1
        <5>1. i - 1 \in 1 .. n /\ h[i - 1] = f[i - 1]
          BY <4>3
        <5> QED BY <4>1, <4>3, <5>1
      <4> QED BY <4>2, <4>3
    <3> QED BY <3>1
  <2>3. Defines(flatten)
    BY <2>2
  <2> HIDE DEF flatten
  <2> DEFINE g == [i \in 0 .. n |-> IF i = 0 THEN <<>> ELSE flatten[i]]
  <2>4. ASSUME NEW i \in 1 .. n
        PROVE  flatten[i] = IF i = 1 THEN parts[i] ELSE flatten[i - 1] \o parts[i]
    <3>1. flatten = [j \in 1 .. n |-> IF j = 1 THEN parts[j] ELSE flatten[j - 1] \o parts[j]]
      BY <2>3
    <3> QED BY <3>1
  <2>5. ASSUME NEW i \in 1 .. n PROVE g[i] = g[i - 1] \o parts[i]
    <3>1. CASE i = 1
      <4>1. parts[i] \in Seq(S) /\ g[i - 1] = <<>> /\ g[i] = parts[i]
        BY <2>4, <3>1
      <4>2. <<>> \o parts[i] = parts[i]
        BY <4>1
      <4> QED BY <4>1, <4>2
    <3>2. CASE i # 1
      <4>1. i - 1 \in 0 .. n /\ i - 1 # 0
        BY <3>2
      <4>2. g[i - 1] = flatten[i - 1] /\ g[i] = flatten[i]
        BY <4>1
      <4> QED BY <2>4, <3>2, <4>2
    <3> QED BY <3>1, <3>2
  <2>6. g[0] = <<>> /\ g[n] = flatten[n]
    BY <1>3
  <2> HIDE DEF g
  <2>7. Joins(g, parts, n)
    BY <2>5, <2>6 DEF Joins
  <2>8. g[n] = f[n]
    <3> QED BY <1>2, <2>7
  <2> QED BY <2>1, <2>6, <2>8
<1> QED BY <1>3, <1>4

LEMMA FlattenNothing == FlattenSeq(<<>>) = <<>>
<1>1. Len(<<>>) = 0
  OBVIOUS
<1> QED BY <1>1 DEF FlattenSeq

(* One more sequence is joined at the end.                                 *)
LEMMA FlattenOneMore ==
    ASSUME NEW S, NEW n \in Nat, NEW parts \in [1 .. n + 1 -> Seq(S)],
           NEW fewer, fewer = [i \in 1 .. n |-> parts[i]]
    PROVE  /\ FlattenSeq(fewer) \in Seq(S)
           /\ FlattenSeq(parts) = FlattenSeq(fewer) \o parts[n + 1]
<1>1. PICK f \in [0 .. n + 1 -> Seq(S)] : Joins(f, parts, n + 1)
  BY JoinsExist, SMTT(30)
<1>2. FlattenSeq(parts) = f[n + 1]
  <2>1. n + 1 \in Nat
    OBVIOUS
  <2> QED BY <1>1, <2>1, FlattenJoins
<1> DEFINE g == [i \in 0 .. n |-> f[i]]
<1>3. fewer \in [1 .. n -> Seq(S)]
  OBVIOUS
<1>4. g \in [0 .. n -> Seq(S)]
  OBVIOUS
<1>5. g[0] = <<>> /\ \A i \in 1 .. n : g[i] = g[i - 1] \o fewer[i]
  <2>1. ASSUME NEW i \in 1 .. n PROVE g[i] = g[i - 1] \o fewer[i]
    <3>1. g[i] = f[i] /\ g[i - 1] = f[i - 1] /\ fewer[i] = parts[i] /\ i \in 1 .. n + 1
      OBVIOUS
    <3> QED BY <1>1, <3>1 DEF Joins
  <2>2. g[0] = f[0]
    OBVIOUS
  <2>3. f[0] = <<>>
    BY <1>1 DEF Joins
  <2> HIDE DEF g
  <2> QED BY <2>1, <2>2, <2>3
<1>6. g[n] = f[n]
  OBVIOUS
<1> HIDE DEF g
<1>7. FlattenSeq(fewer) = g[n]
  BY <1>3, <1>4, <1>5, FlattenJoins DEF Joins
<1>8. f[n + 1] = f[n] \o parts[n + 1] /\ f[n] \in Seq(S)
  <2>1. n + 1 \in 1 .. n + 1 /\ (n + 1) - 1 = n /\ n \in 0 .. n + 1
    OBVIOUS
  <2> QED BY <1>1, <2>1 DEF Joins
<1> QED BY <1>2, <1>6, <1>7, <1>8

(* Of sequences that are empty but for the last, the last remains.         *)
LEMMA FlattenLast ==
    ASSUME NEW S, NEW n \in Nat, n # 0, NEW parts \in [1 .. n -> Seq(S)],
           \A i \in 1 .. n : i # n => parts[i] = <<>>
    PROVE  FlattenSeq(parts) = parts[n]
<1> DEFINE last == parts[n]
           f == [i \in 0 .. n |-> IF i = n THEN last ELSE <<>>]
<1>1. last \in Seq(S) /\ n \in 1 .. n /\ <<>> \in Seq(S) /\ n \in 0 .. n
  OBVIOUS
<1>2. \A i \in 1 .. n : i # n => parts[i] = <<>>
  OBVIOUS
<1>3. parts[n] = last
  OBVIOUS
<1> HIDE DEF last
<1>4. f \in [0 .. n -> Seq(S)] /\ f[n] = last /\ \A i \in 0 .. n : i # n => f[i] = <<>>
  BY <1>1
<1> HIDE DEF f
<1>5. ASSUME NEW i \in 1 .. n PROVE f[i] = f[i - 1] \o parts[i]
  <2>1. i - 1 \in 0 .. n /\ i - 1 # n /\ i \in 0 .. n
    OBVIOUS
  <2>2. f[i - 1] = <<>>
    BY <1>4, <2>1
  <2>3. f[i] = parts[i] /\ parts[i] \in Seq(S)
    BY <1>2, <1>3, <1>4, <2>1
  <2>4. <<>> \o parts[i] = parts[i]
    BY <2>3, ConcatEmptySeq
  <2> QED BY <2>2, <2>3, <2>4
<1>6. Joins(f, parts, n)
  <2>1. 0 \in 0 .. n /\ 0 # n
    OBVIOUS
  <2>2. f[0] = <<>>
    BY <1>4, <2>1
  <2> QED BY <1>5, <2>2 DEF Joins
<1>7. FlattenSeq(parts) = f[n]
  BY <1>4, <1>6, FlattenJoins
<1> QED BY <1>3, <1>4, <1>7

(* Of sequences of which one is not empty, that one remains.               *)
LEMMA FlattenOnly ==
    ASSUME NEW S, NEW n \in Nat, NEW k \in 1 .. n, NEW parts \in [1 .. n -> Seq(S)],
           \A i \in 1 .. n : i # k => parts[i] = <<>>
    PROVE  FlattenSeq(parts) = parts[k]
<1> DEFINE only == parts[k]
           f == [i \in 0 .. n |-> IF i < k THEN <<>> ELSE only]
<1>1. only \in Seq(S) /\ <<>> \in Seq(S) /\ n \in 0 .. n /\ k \in Nat \ {0}
  OBVIOUS
<1>2. \A i \in 1 .. n : parts[i] = IF i = k THEN only ELSE <<>>
  OBVIOUS
<1> HIDE DEF only
<1>3. f \in [0 .. n -> Seq(S)] /\ f[0] = <<>> /\ f[n] = only
  BY <1>1
<1>4. ASSUME NEW i \in 1 .. n PROVE f[i] = f[i - 1] \o parts[i]
  <2>1. f[i] = (IF i < k THEN <<>> ELSE only) /\ f[i - 1] = (IF i - 1 < k THEN <<>> ELSE only)
    OBVIOUS
  <2>2. <<>> \o <<>> = <<>> /\ <<>> \o only = only /\ only \o <<>> = only
    BY <1>1, ConcatEmptySeq
  <2> HIDE DEF f
  <2>3. CASE i < k
    <3>1. i - 1 < k /\ i # k
      BY <1>1, <2>3
    <3> QED BY <1>2, <2>1, <2>2, <2>3, <3>1
  <2>4. CASE i = k
    <3>1. i - 1 < k /\ ~(i < k)
      BY <1>1, <2>4
    <3> QED BY <1>2, <2>1, <2>2, <2>4, <3>1
  <2>5. CASE k < i
    <3>1. ~(i - 1 < k) /\ ~(i < k) /\ i # k
      BY <1>1, <2>5
    <3> QED BY <1>2, <2>1, <2>2, <3>1
  <2> QED BY <1>1, <2>3, <2>4, <2>5
<1> HIDE DEF f
<1>5. Joins(f, parts, n)
  BY <1>3, <1>4 DEF Joins
<1>6. FlattenSeq(parts) = f[n]
  BY <1>3, <1>5, FlattenJoins
<1> QED BY <1>3, <1>6 DEF only

(* Nothing remains of empty sequences.                                     *)
LEMMA FlattenEmpty ==
    ASSUME NEW S, NEW n \in Nat, NEW parts \in [1 .. n -> Seq(S)],
           \A i \in 1 .. n : parts[i] = <<>>
    PROVE  FlattenSeq(parts) = <<>>
<1> DEFINE f == [i \in 0 .. n |-> <<>>]
<1>1. <<>> \in Seq(S) /\ <<>> \o <<>> = <<>>
  BY ConcatEmptySeq
<1>2. f \in [0 .. n -> Seq(S)] /\ \A i \in 0 .. n : f[i] = <<>>
  BY <1>1
<1> HIDE DEF f
<1>3. Joins(f, parts, n)
  <2>1. ASSUME NEW i \in 1 .. n PROVE f[i] = f[i - 1] \o parts[i]
    <3>1. i \in 0 .. n /\ i - 1 \in 0 .. n
      OBVIOUS
    <3> QED BY <1>1, <1>2, <3>1
  <2> QED BY <1>2, <2>1, SMTT(30) DEF Joins
<1>4. n \in 0 .. n
  OBVIOUS
<1>5. FlattenSeq(parts) = f[n]
  BY <1>2, <1>3, FlattenJoins
<1> QED BY <1>2, <1>4, <1>5

(* Sequences of one element each are joined to the sequence of these.      *)
LEMMA FlattenSingles ==
    ASSUME NEW S, NEW s \in Seq(S), NEW parts,
           parts = [i \in 1 .. Len(s) |-> <<s[i]>>]
    PROVE  FlattenSeq(parts) = s
<1> DEFINE n == Len(s)
           f == [i \in 0 .. n |-> SubSeq(s, 1, i)]
<1>1. n \in Nat /\ s \in [1 .. n -> S]
  OBVIOUS
<1>2. parts \in [1 .. n -> Seq(S)]
  BY <1>1
<1>3. ASSUME NEW i \in 0 .. n PROVE SubSeq(s, 1, i) \in Seq(S)
  BY <1>1, SubSeqProperties
<1>4. f \in [0 .. n -> Seq(S)] /\ \A i \in 0 .. n : f[i] = SubSeq(s, 1, i)
  BY <1>3
<1> HIDE DEF f
<1>5. ASSUME NEW i \in 1 .. n PROVE f[i] = f[i - 1] \o parts[i]
  <2>1. i \in 0 .. n /\ i - 1 \in 0 .. n /\ 1 \in 1 .. Len(s) /\ i \in 1 .. Len(s)
    BY <1>1
  <2>2. SubSeq(s, 1, i) = SubSeq(s, 1, i - 1) \o <<s[i]>>
    BY <2>1, SubSeqRecursiveSecond
  <2> QED BY <1>4, <2>1, <2>2
<1>6. f[0] = <<>> /\ f[n] = s
  <2>1. SubSeq(s, 1, 0) = <<>> /\ 0 \in 0 .. n /\ n \in 0 .. n
    BY <1>1, SubSeqEmpty
  <2>2. SubSeq(s, 1, n) = s
    BY SubSeqFull
  <2> QED BY <1>4, <2>1, <2>2
<1> HIDE DEF n
<1>7. Joins(f, parts, n)
  BY <1>5, <1>6 DEF Joins
<1> QED BY <1>1, <1>2, <1>4, <1>6, <1>7, FlattenJoins

(* To join later is the same.  ListOf and After keep the provers from       *)
(* taking the sequences apart.                                             *)
LEMMA JoinLater ==
    ASSUME NEW S, NEW a \in Seq(S), NEW b \in Seq(S), NEW c \in Seq(S), NEW bc, bc = b \o c
    PROVE  a \o bc = (a \o b) \o c
BY ConcatAssociative

ListOf(s, dom, S) == s \in [dom -> Seq(S)]

After(first, g, v, m) == \A k \in 1 .. m : first \o g[k] = (first \o g[k - 1]) \o v[k]

LEMMA JoinsAfter ==
    ASSUME NEW S, NEW m \in Nat, NEW first \in Seq(S), NEW v, NEW g,
           ListOf(v, 1 .. m, S), ListOf(g, 0 .. m, S), Joins(g, v, m)
    PROVE  After(first, g, v, m)
<1>1. ASSUME NEW k \in 1 .. m PROVE first \o g[k] = (first \o g[k - 1]) \o v[k]
  <2> DEFINE b  == g[k - 1]
             c  == v[k]
             bc == g[k]
  <2>1. k - 1 \in 0 .. m
    OBVIOUS
  <2>2. b \in Seq(S) /\ c \in Seq(S) /\ bc = b \o c
    BY <2>1 DEF Joins, ListOf
  <2> HIDE DEF b, c, bc
  <2>3. first \o bc = (first \o b) \o c
    BY <2>2, JoinLater
  <2> QED BY <2>3 DEF b, c, bc
<1> QED BY <1>1 DEF After

(* The lists u, of length n, and v, of length m, one after the other.      *)
Follows(parts, u, n, v, m) ==
    (\A i \in 1 .. n : parts[i] = u[i]) /\ (\A i \in 1 .. m : parts[n + i] = v[i])

IsJoin(s, a, b) == s = a \o b

(* Joining two lists of sequences one after the other.                     *)
LEMMA FlattenConcat ==
    ASSUME NEW S, NEW n \in Nat, NEW m \in Nat,
           NEW u, NEW v, NEW parts,
           ListOf(u, 1 .. n, S), ListOf(v, 1 .. m, S), ListOf(parts, 1 .. n + m, S),
           Follows(parts, u, n, v, m)
    PROVE  IsJoin(FlattenSeq(parts), FlattenSeq(u), FlattenSeq(v))
<1>1. PICK f \in [0 .. n -> Seq(S)] : Joins(f, u, n)
  BY JoinsExist DEF ListOf
<1>2. PICK g \in [0 .. m -> Seq(S)] : Joins(g, v, m)
  BY JoinsExist DEF ListOf
<1>3. FlattenSeq(u) = f[n] /\ FlattenSeq(v) = g[m] /\ f[n] \in Seq(S) /\ g[m] \in Seq(S)
  <2>1. FlattenSeq(u) = f[n]
    BY <1>1, FlattenJoins DEF ListOf
  <2>2. FlattenSeq(v) = g[m]
    BY <1>2, FlattenJoins DEF ListOf
  <2> QED BY <2>1, <2>2
<1> DEFINE first == f[n]
           h == [i \in 0 .. n + m |-> IF i <= n THEN f[i] ELSE first \o g[i - n]]
<1>4. first \in Seq(S) /\ first = f[n]
  BY <1>3
<1> HIDE DEF first
<1>5. After(first, g, v, m)
  BY <1>2, <1>4, JoinsAfter DEF ListOf
<1>6. ASSUME NEW i \in 0 .. m PROVE first \o g[i] \in Seq(S)
  BY <1>2, <1>4, ConcatProperties
<1>7. h \in [0 .. n + m -> Seq(S)]
  <2>1. ASSUME NEW i \in 0 .. n + m PROVE (IF i <= n THEN f[i] ELSE first \o g[i - n]) \in Seq(S)
    <3>1. CASE i <= n
      <4>1. i \in 0 .. n
        BY <3>1
      <4> QED BY <1>1, <3>1, <4>1
    <3>2. CASE ~(i <= n)
      <4>1. i - n \in 0 .. m
        BY <3>2
      <4> QED BY <1>6, <3>2, <4>1
    <3> QED BY <3>1, <3>2
  <2> QED BY <2>1
<1>8. /\ \A i \in 0 .. n : h[i] = f[i]
      /\ \A i \in 0 .. m : i # 0 => h[n + i] = first \o g[i]
  <2>1. ASSUME NEW i \in 0 .. m, i # 0 PROVE h[n + i] = first \o g[i]
    <3>1. n + i \in 0 .. n + m /\ ~(n + i <= n) /\ (n + i) - n = i
      BY <2>1
    <3> QED BY <3>1
  <2> QED BY <2>1, SMTT(30)
<1> HIDE DEF h
<1>9. h[n] = first \o g[0]
  <2>1. first \o <<>> = first /\ n \in 0 .. n
    BY <1>4, ConcatEmptySeq
  <2> QED BY <1>2, <1>4, <1>8, <2>1 DEF Joins
<1>10. ASSUME NEW i \in 1 .. n + m PROVE h[i] = h[i - 1] \o parts[i]
  <2>1. CASE i <= n
    <3>1. i \in 1 .. n /\ i \in 0 .. n /\ i - 1 \in 0 .. n /\ parts[i] = u[i]
      BY <2>1 DEF Follows
    <3>2. f[i] = f[i - 1] \o u[i]
      BY <1>1, <3>1 DEF Joins
    <3> QED BY <1>8, <3>1, <3>2
  <2>2. CASE ~(i <= n)
    <3> DEFINE j == i - n
    <3>1. j \in 1 .. m /\ j \in 0 .. m /\ j - 1 \in 0 .. m /\ i = n + j /\ i - 1 = n + (j - 1)
      BY <2>2
    <3>2. parts[i] = v[j]
      <4>1. parts[n + j] = v[j]
        BY <3>1 DEF Follows
      <4> HIDE DEF j
      <4> QED BY <3>1, <4>1
    <3> HIDE DEF j
    <3>3. g[j] = g[j - 1] \o v[j] /\ g[j - 1] \in Seq(S) /\ v[j] \in Seq(S)
      BY <1>2, <3>1 DEF Joins, ListOf
    <3>4. h[i] = first \o g[j]
      <4>1. j # 0 /\ h[n + j] = h[i]
        BY <3>1
      <4> QED BY <1>8, <3>1, <4>1
    <3>5. h[i - 1] = first \o g[j - 1]
      <4>1. CASE j - 1 = 0
        <5>1. n + (j - 1) = n
          BY <4>1
        <5> QED BY <1>9, <3>1, <4>1, <5>1
      <4>2. CASE j - 1 # 0
        BY <1>8, <3>1, <4>2
      <4> QED BY <4>1, <4>2
    <3>6. h[i - 1] \o v[j] = first \o g[j]
      BY <1>5, <3>1, <3>5, Zenon DEF After
    <3> QED BY <3>2, <3>4, <3>6
  <2> QED BY <2>1, <2>2
<1>11. h[0] = <<>>
  <2>1. 0 \in 0 .. n
    OBVIOUS
  <2> QED BY <1>1, <1>8, <2>1 DEF Joins
<1>12. h[n + m] = first \o g[m]
  <2>1. CASE m = 0
    BY <1>9, <2>1
  <2>2. CASE m # 0
    <3>1. m \in 0 .. m
      OBVIOUS
    <3> QED BY <1>8, <2>2, <3>1
  <2> QED BY <2>1, <2>2
<1>13. FlattenSeq(parts) = h[n + m]
  <2>1. n + m \in Nat
    OBVIOUS
  <2>2. Joins(h, parts, n + m)
    BY <1>10, <1>11 DEF Joins
  <2> QED BY <1>7, <2>1, <2>2, FlattenJoins DEF ListOf
<1> QED BY <1>3, <1>4, <1>12, <1>13 DEF IsJoin

LEMMA FlattenTyped ==
    ASSUME NEW S, NEW n \in Nat, NEW parts \in [1 .. n -> Seq(S)]
    PROVE  FlattenSeq(parts) \in Seq(S)
<1>1. PICK f \in [0 .. n -> Seq(S)] : Joins(f, parts, n)
  BY JoinsExist
<1>2. FlattenSeq(parts) = f[n]
  BY <1>1, FlattenJoins
<1> QED BY <1>2

-----------------------------------------------------------------------------
(* The members of a sequence that are in a set, in order                   *)

Choice(x, T) == IF x \in T THEN <<x>> ELSE <<>>

Chosen(s, T) == FlattenSeq([k \in 1 .. Len(s) |-> Choice(s[k], T)])

LEMMA ChoicesTyped ==
    ASSUME NEW S, NEW s \in Seq(S), NEW T
    PROVE  /\ Len(s) \in Nat /\ Chosen(s, T) \in Seq(S)
           /\ [k \in 1 .. Len(s) |-> Choice(s[k], T)] \in [1 .. Len(s) -> Seq(S)]
<1> DEFINE u == [k \in 1 .. Len(s) |-> Choice(s[k], T)]
<1>1. Len(s) \in Nat /\ \A k \in 1 .. Len(s) : s[k] \in S
  OBVIOUS
<1>2. \A x \in S : Choice(x, T) \in Seq(S)
  BY DEF Choice
<1>3. u \in [1 .. Len(s) -> Seq(S)]
  BY <1>1, <1>2
<1> HIDE DEF u
<1>4. FlattenSeq(u) \in Seq(S)
  BY <1>1, <1>3, FlattenTyped
<1> QED BY <1>1, <1>3, <1>4 DEF Chosen, u

LEMMA ChosenConcat ==
    ASSUME NEW S, NEW s \in Seq(S), NEW t \in Seq(S), NEW T
    PROVE  Chosen(s \o t, T) = Chosen(s, T) \o Chosen(t, T)
<1> DEFINE n == Len(s)
           m == Len(t)
           both == s \o t
           u == [k \in 1 .. n |-> Choice(s[k], T)]
           v == [k \in 1 .. m |-> Choice(t[k], T)]
           parts == [k \in 1 .. Len(both) |-> Choice(both[k], T)]
<1>1. /\ n \in Nat /\ m \in Nat /\ both \in Seq(S) /\ Len(both) = n + m
      /\ \A k \in 1 .. n : both[k] = s[k]
      /\ \A k \in n + 1 .. n + m : both[k] = t[k - n]
  BY ConcatProperties
<1>2. u \in [1 .. n -> Seq(S)] /\ v \in [1 .. m -> Seq(S)]
  BY ChoicesTyped
<1> HIDE DEF both
<1>3. parts \in [1 .. n + m -> Seq(S)]
  <2>1. parts \in [1 .. Len(both) -> Seq(S)]
    BY <1>1, ChoicesTyped
  <2> HIDE DEF parts
  <2> QED BY <1>1, <2>1
<1>4. Follows(parts, u, n, v, m)
  <2>1. ASSUME NEW k \in 1 .. n PROVE parts[k] = u[k]
    <3>1. k \in 1 .. Len(both)
      BY <1>1
    <3> QED BY <1>1, <3>1
  <2>2. ASSUME NEW k \in 1 .. m PROVE parts[n + k] = v[k]
    <3>1. n + k \in 1 .. Len(both) /\ n + k \in n + 1 .. n + m /\ (n + k) - n = k
      BY <1>1
    <3>2. both[n + k] = t[k]
      BY <1>1, <3>1
    <3> QED BY <3>1, <3>2
  <2> HIDE DEF n, m, parts, u, v
  <2> QED BY <2>1, <2>2 DEF Follows
<1> HIDE DEF parts, u, v
<1>5. FlattenSeq(parts) = FlattenSeq(u) \o FlattenSeq(v)
  <2>1. n \in Nat /\ m \in Nat
    BY <1>1
  <2> HIDE DEF n, m
  <2>2. ListOf(u, 1 .. n, S) /\ ListOf(v, 1 .. m, S) /\ ListOf(parts, 1 .. n + m, S)
    BY <1>2, <1>3 DEF ListOf
  <2>3. IsJoin(FlattenSeq(parts), FlattenSeq(u), FlattenSeq(v))
    BY <1>4, <2>1, <2>2, FlattenConcat
  <2> QED BY <2>3 DEF IsJoin
<1> QED BY <1>5 DEF Chosen, parts, u, v, both

LEMMA ChosenAll ==
    ASSUME NEW S, NEW s \in Seq(S), NEW T, \A k \in 1 .. Len(s) : s[k] \in T
    PROVE  Chosen(s, T) = s
<1> DEFINE u == [k \in 1 .. Len(s) |-> Choice(s[k], T)]
<1>1. u = [k \in 1 .. Len(s) |-> <<s[k]>>]
  BY DEF Choice
<1> HIDE DEF u
<1>2. FlattenSeq(u) = s
  BY <1>1, FlattenSingles
<1> QED BY <1>2 DEF Chosen, u

LEMMA ChosenNone ==
    ASSUME NEW S, NEW s \in Seq(S), NEW T, \A k \in 1 .. Len(s) : s[k] \notin T
    PROVE  Chosen(s, T) = <<>>
<1> DEFINE u == [k \in 1 .. Len(s) |-> Choice(s[k], T)]
<1>1. Len(s) \in Nat /\ u \in [1 .. Len(s) -> Seq(S)]
  BY ChoicesTyped
<1>2. \A k \in 1 .. Len(s) : u[k] = <<>>
  BY DEF Choice
<1> HIDE DEF u
<1>3. FlattenSeq(u) = <<>>
  BY <1>1, <1>2, FlattenEmpty
<1> QED BY <1>3 DEF Chosen, u

LEMMA ChosenOne ==
    ASSUME NEW S, NEW s \in Seq(S), NEW T, NEW j \in 1 .. Len(s),
           \A k \in 1 .. Len(s) : s[k] \in T <=> k = j
    PROVE  Chosen(s, T) = <<s[j]>>
<1> DEFINE u == [k \in 1 .. Len(s) |-> Choice(s[k], T)]
<1>1. Len(s) \in Nat /\ u \in [1 .. Len(s) -> Seq(S)]
  BY ChoicesTyped
<1>2. u[j] = <<s[j]>> /\ \A k \in 1 .. Len(s) : k # j => u[k] = <<>>
  BY DEF Choice
<1> HIDE DEF u
<1>3. FlattenSeq(u) = u[j]
  BY <1>1, <1>2, FlattenOnly
<1> QED BY <1>2, <1>3 DEF Chosen, u

LEMMA ChosenSome ==
    ASSUME NEW S, NEW s \in Seq(S), NEW T, NEW j \in 1 .. Len(s), s[j] \in T
    PROVE  Chosen(s, T) # <<>>
<1> DEFINE n == Len(s)
           a == SubSeq(s, 1, j - 1)
           b == SubSeq(s, j + 1, n)
           x == s[j]
<1>1. n \in Nat /\ x \in S
  OBVIOUS
<1>2. a \in Seq(S) /\ b \in Seq(S) /\ Len(a) = j - 1 /\ Len(b) = n - j
  BY <1>1, SubSeqProperties
<1>3. s = (a \o <<x>>) \o b
  <2> DEFINE c == a \o <<x>>
             d == c \o b
  <2>1. c \in Seq(S) /\ Len(c) = j /\ c[j] = x /\ \A k \in 1 .. j - 1 : c[k] = a[k]
    <3>1. c = Append(a, x)
      BY <1>1, <1>2, AppendIsConcat
    <3> HIDE DEF a, x
    <3>2. c \in Seq(S) /\ Len(c) = Len(a) + 1 /\ c[Len(a) + 1] = x
          /\ \A k \in 1 .. Len(a) : c[k] = a[k]
      BY <1>1, <1>2, <3>1, AppendProperties
    <3> QED BY <1>1, <1>2, <3>2
  <2>2. \A k \in 1 .. j - 1 : a[k] = s[k]
    BY <1>1, SubSeqProperties
  <2>3. \A k \in 1 .. n - j : b[k] = s[j + k]
    <3>1. ASSUME NEW k \in 1 .. n - j PROVE b[k] = s[(j + 1) + k - 1]
      BY <1>1, <3>1, SubSeqProperties
    <3> QED BY <1>1, <3>1
  <2> HIDE DEF a, b, c
  <2>4. /\ d \in Seq(S) /\ Len(d) = n /\ \A k \in 1 .. j : d[k] = c[k]
        /\ \A k \in j + 1 .. n : d[k] = b[k - j]
    <3>1. /\ d \in Seq(S) /\ Len(d) = Len(c) + Len(b) /\ \A k \in 1 .. Len(c) : d[k] = c[k]
          /\ \A k \in Len(c) + 1 .. Len(c) + Len(b) : d[k] = b[k - Len(c)]
      <4>1. c \in Seq(S) /\ b \in Seq(S)
        BY <1>2, <2>1
      <4> QED BY <4>1, ConcatProperties
    <3>2. j + (n - j) = n
      BY <1>1
    <3> QED BY <1>2, <2>1, <3>1, <3>2
  <2> HIDE DEF d
  <2>5. ASSUME NEW k \in 1 .. n PROVE d[k] = s[k]
    <3>1. CASE k \in 1 .. j - 1
      <4>1. k \in 1 .. j
        BY <3>1
      <4> QED BY <2>1, <2>2, <2>4, <3>1, <4>1
    <3>2. CASE k = j
      BY <2>1, <2>4, <3>2
    <3>3. CASE k \in j + 1 .. n
      <4>1. k - j \in 1 .. n - j /\ j + (k - j) = k
        BY <1>1, <3>3
      <4> QED BY <2>3, <2>4, <3>3, <4>1
    <3>4. k \in 1 .. j - 1 \/ k = j \/ k \in j + 1 .. n
      BY <1>1
    <3> QED BY <3>1, <3>2, <3>3, <3>4
  <2>6. d = s
    BY <1>1, <2>4, <2>5
  <2> QED BY <2>6 DEF c, d
<1> DEFINE y == <<x>>
           c == a \o y
<1>4. x \in T
  OBVIOUS
<1> HIDE DEF a, b, n, x
<1>5. y \in Seq(S) /\ Len(y) = 1 /\ \A k \in 1 .. Len(y) : y[k] \in T
  BY <1>1, <1>4
<1> HIDE DEF y
<1>6. Chosen(y, T) = y
  BY <1>5, ChosenAll
<1>7. c \in Seq(S) /\ Chosen(a, T) \in Seq(S) /\ Chosen(b, T) \in Seq(S)
  BY <1>2, <1>5, ChoicesTyped
<1>8. Chosen(c, T) = Chosen(a, T) \o Chosen(y, T)
  <2>1. a \in Seq(S) /\ y \in Seq(S)
    BY <1>2, <1>5
  <2> QED BY <2>1, ChosenConcat
<1> HIDE DEF c
<1>9. s = c \o b /\ b \in Seq(S)
  BY <1>2, <1>3 DEF c, y
<1>10. Chosen(c \o b, T) = Chosen(c, T) \o Chosen(b, T)
  BY <1>7, <1>9, ChosenConcat, SMTT(30)
<1>11. Len((Chosen(a, T) \o y) \o Chosen(b, T)) # 0
  <2> DEFINE p == Chosen(a, T)
             q == Chosen(b, T)
  <2>1. p \in Seq(S) /\ q \in Seq(S) /\ y \in Seq(S) /\ Len(y) = 1
    BY <1>5, <1>7
  <2> HIDE DEF p, q
  <2>2. p \o y \in Seq(S) /\ Len(p \o y) = Len(p) + Len(y)
    BY <2>1, ConcatProperties
  <2> DEFINE r == p \o y
  <2>3. r \in Seq(S) /\ Len(r) = Len(p) + 1
    BY <2>1, <2>2
  <2> HIDE DEF r
  <2>4. Len(r \o q) = Len(r) + Len(q)
    BY <2>1, <2>3, ConcatProperties
  <2>5. Len(p) \in Nat /\ Len(q) \in Nat
    BY <2>1
  <2>6. Len(r \o q) # 0
    BY <2>3, <2>4, <2>5
  <2> QED BY <2>6 DEF p, q, r
<1> QED BY <1>6, <1>8, <1>9, <1>10, <1>11
=============================================================================
