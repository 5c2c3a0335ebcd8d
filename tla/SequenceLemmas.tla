--------------------------- MODULE SequenceLemmas ---------------------------
(***************************************************************************)
(* Lemmas about natural numbers and sequences that the proofs of the       *)
(* streams share.  Induction and recursion are stated with sets and        *)
(* functions in place of operators.                                        *)
(***************************************************************************)
EXTENDS Integers, SequencesExt, SequenceTheorems, WellFoundedInduction, TLAPS

-----------------------------------------------------------------------------
(* Induction *)

LEMMA LessIsWellFounded ==
  \E R : (\A x, y \in Nat : <<y, x>> \in R <=> y < x) /\ IsWellFoundedOn(R, Nat)
<1>1. \A x, y \in Nat : <<y, x>> \in OpToRel(<, Nat) <=> y < x
  BY DEF OpToRel
<1>2. IsWellFoundedOn(OpToRel(<, Nat), Nat)
  BY NatLessThanWellFounded
<1>3. QED
  BY <1>1, <1>2, Zenon

\* A set of natural numbers has a least element.
LEMMA LeastElement ==
  ASSUME NEW T \in SUBSET Nat, T # {}
  PROVE  \E x \in T : \A y \in T : x <= y
<1>1. PICK R : (\A x, y \in Nat : <<y, x>> \in R <=> y < x) /\ IsWellFoundedOn(R, Nat)
  BY LessIsWellFounded
<1>2. PICK x \in T : \A y \in T : ~ (<<y, x>> \in R)
  BY <1>1, WFMin
<1>3. \A y \in T : ~ (y < x)
  BY <1>1, <1>2
<1>4. QED
  BY <1>3

\* A set that has 0, and n + 1 with n, has every natural number.
LEMMA InductiveSet ==
  ASSUME NEW T, 0 \in T, \A n \in Nat : n \in T => n + 1 \in T
  PROVE  \A n \in Nat : n \in T
<1> DEFINE M == {n \in Nat : n \notin T}
<1>1. ASSUME M # {} PROVE FALSE
  <2>1. PICK m \in M : \A k \in M : m <= k
    BY <1>1, LeastElement
  <2>2. m \in Nat \ {0} /\ m \notin T
    BY <2>1
  <2>3. m - 1 \in Nat /\ m - 1 \notin M
    BY <2>1, <2>2
  <2>4. (m - 1) + 1 \in T
    BY <2>3
  <2>5. QED
    BY <2>2, <2>4
<1>2. QED
  BY <1>1

-----------------------------------------------------------------------------
(* Recursion: a first value and a step make a function. *)

\* f begins with the first value and takes n steps.
Takes(f, n, base, step) ==
  f[0] = base /\ \A i \in 1 .. n : f[i] = step[<<i, f[i - 1]>>]

\* As far as any number there is such a function.
LEMMA RecursionUpTo ==
  ASSUME NEW V, NEW base \in V, NEW step \in [Nat \X V -> V]
  PROVE  \A n \in Nat : \E f \in [0 .. n -> V] : Takes(f, n, base, step)
<1> DEFINE T == {n \in Nat : \E f \in [0 .. n -> V] : Takes(f, n, base, step)}
<1>1. 0 \in T
  <2> DEFINE f == [i \in 0 .. 0 |-> base]
  <2>1. f \in [0 .. 0 -> V] /\ f[0] = base
    OBVIOUS
  <2>2. Takes(f, 0, base, step)
    BY <2>1 DEF Takes
  <2>3. QED
    BY <2>1, <2>2
<1>2. ASSUME NEW n \in Nat, n \in T PROVE n + 1 \in T
  <2>1. PICK f \in [0 .. n -> V] : Takes(f, n, base, step)
    BY <1>2
  <2> DEFINE g == [i \in 0 .. n + 1 |-> IF i = n + 1 THEN step[<<n + 1, f[n]>>] ELSE f[i]]
  <2>2. f[n] \in V /\ step[<<n + 1, f[n]>>] \in V
    OBVIOUS
  <2>3. g \in [0 .. n + 1 -> V]
    BY <2>2
  <2>4. g[0] = base
    BY <2>1 DEF Takes
  <2>5. ASSUME NEW i \in 1 .. n + 1 PROVE g[i] = step[<<i, g[i - 1]>>]
    <3>1. i - 1 \in 0 .. n /\ i - 1 # n + 1 /\ i \in 0 .. n + 1
      OBVIOUS
    <3>2. g[i - 1] = f[i - 1]
      BY <3>1
    <3>3. CASE i = n + 1
      <4>1. g[i] = step[<<n + 1, f[n]>>] /\ i - 1 = n
        BY <3>3
      <4>2. QED
        BY <4>1, <3>2, <3>3
    <3>4. CASE i # n + 1
      <4>1. g[i] = f[i] /\ i \in 1 .. n
        BY <3>1, <3>4
      <4>2. QED
        BY <4>1, <3>2, <2>1 DEF Takes
    <3>5. QED
      BY <3>3, <3>4
  <2> HIDE DEF g
  <2>6. Takes(g, n + 1, base, step)
    BY <2>4, <2>5 DEF Takes
  <2>7. n + 1 \in Nat
    OBVIOUS
  <2>8. QED
    BY <2>3, <2>6, <2>7
<1> HIDE DEF T
<1>3. \A n \in Nat : n \in T
  BY <1>1, <1>2, InductiveSet
<1>4. QED
  BY <1>3 DEF T

\* Two of them agree as far as both go.
LEMMA RecursionIsUnique ==
  ASSUME NEW base, NEW step, NEW m \in Nat, NEW n \in Nat, NEW f, NEW g,
         Takes(f, m, base, step), Takes(g, n, base, step)
  PROVE  \A i \in Nat : i <= m /\ i <= n => f[i] = g[i]
<1> DEFINE T == {i \in Nat : i <= m /\ i <= n => f[i] = g[i]}
<1>1. 0 \in T
  BY DEF Takes
<1>2. ASSUME NEW i \in Nat, i \in T PROVE i + 1 \in T
  <2>1. CASE i + 1 <= m /\ i + 1 <= n
    <3>1. f[i] = g[i]
      BY <1>2, <2>1
    <3>2. f[i + 1] = step[<<i + 1, f[i]>>] /\ g[i + 1] = step[<<i + 1, g[i]>>]
      BY <2>1 DEF Takes
    <3>3. QED
      BY <3>1, <3>2
  <2>2. QED
    BY <2>1
<1> HIDE DEF T
<1>3. \A i \in Nat : i \in T
  BY <1>1, <1>2, InductiveSet
<1>4. QED
  BY <1>3 DEF T

-----------------------------------------------------------------------------
(* Joining sequences of sequences *)

\* Three parts are joined in either order.
Associate(x, y, z) == (x \o y) \o z = x \o (y \o z)

LEMMA PartsAssociate ==
  ASSUME NEW S
  PROVE  \A x, y, z \in Seq(S) : Associate(x, y, z)
<1> SUFFICES ASSUME NEW x \in Seq(S), NEW y \in Seq(S), NEW z \in Seq(S)
             PROVE  (x \o y) \o z = x \o (y \o z)
  BY DEF Associate
<1>1. QED
  BY ConcatAssociative

\* The step of FlattenSeq().
Joining(S, seqs) ==
  [p \in Nat \X Seq(S) |-> IF p[1] \in 1 .. Len(seqs) THEN p[2] \o seqs[p[1]] ELSE p[2]]

LEMMA JoiningJoins ==
  ASSUME NEW S, NEW seqs \in Seq(Seq(S))
  PROVE  /\ << >> \in Seq(S)
         /\ Joining(S, seqs) \in [Nat \X Seq(S) -> Seq(S)]
         /\ \A i \in 1 .. Len(seqs), s \in Seq(S) :
              /\ Joining(S, seqs)[<<i, s>>] = s \o seqs[i]
              /\ s \o seqs[i] \in Seq(S)
<1>1. \A i \in 1 .. Len(seqs) : seqs[i] \in Seq(S)
  OBVIOUS
<1>2. \A i \in 1 .. Len(seqs), s \in Seq(S) : s \o seqs[i] \in Seq(S)
  BY <1>1
<1>3. ASSUME NEW p \in Nat \X Seq(S)
      PROVE  (IF p[1] \in 1 .. Len(seqs) THEN p[2] \o seqs[p[1]] ELSE p[2]) \in Seq(S)
  BY <1>2
<1>4. Joining(S, seqs) \in [Nat \X Seq(S) -> Seq(S)]
  BY <1>3 DEF Joining
<1>5. ASSUME NEW i \in 1 .. Len(seqs), NEW s \in Seq(S)
      PROVE  Joining(S, seqs)[<<i, s>>] = s \o seqs[i]
  <2>1. <<i, s>> \in Nat \X Seq(S) /\ <<i, s>>[1] = i /\ <<i, s>>[2] = s
    OBVIOUS
  <2>2. QED
    BY <2>1 DEF Joining
<1>6. << >> \in Seq(S)
  OBVIOUS
<1>7. QED
  BY <1>2, <1>4, <1>5, <1>6

LEMMA JoiningStep ==
  ASSUME NEW S, NEW seqs \in Seq(Seq(S)), NEW i \in 1 .. Len(seqs), NEW s \in Seq(S)
  PROVE  Joining(S, seqs)[<<i, s>>] = s \o seqs[i]
BY JoiningJoins

\* FlattenSeq() is what the steps lead to.
LEMMA FlattenIsRecursive ==
  ASSUME NEW S, NEW seqs \in Seq(Seq(S)), Len(seqs) > 0,
         NEW f \in [0 .. Len(seqs) -> Seq(S)],
         Takes(f, Len(seqs), << >>, Joining(S, seqs))
  PROVE  FlattenSeq(seqs) = f[Len(seqs)]
<1> DEFINE n == Len(seqs)
           step == Joining(S, seqs)
           Def(g) == g = [i \in 1 .. n |-> IF i = 1 THEN seqs[i] ELSE g[i - 1] \o seqs[i]]
           h == CHOOSE g : Def(g)
           w == [i \in 1 .. n |-> f[i]]
<1>1. n \in Nat \ {0} /\ \A i \in 1 .. n : seqs[i] \in Seq(S)
  OBVIOUS
<1>2. \A i \in 1 .. n : f[i] = f[i - 1] \o seqs[i]
  <2>1. ASSUME NEW i \in 1 .. n PROVE f[i] = f[i - 1] \o seqs[i]
    <3>1. f[i] = step[<<i, f[i - 1]>>]
      BY DEF Takes
    <3>2. f[i - 1] \in Seq(S)
      <4>1. i - 1 \in 0 .. n
        BY <1>1
      <4>2. QED
        BY <4>1
    <3>3. \A s \in Seq(S) : Joining(S, seqs)[<<i, s>>] = s \o seqs[i]
      BY JoiningJoins
    <3>4. step[<<i, f[i - 1]>>] = f[i - 1] \o seqs[i]
      BY <3>2, <3>3
    <3>5. QED
      BY <3>1, <3>4
  <2>2. QED
    BY <2>1
<1>3. f[1] = seqs[1]
  <2>1. f[0] = << >>
    BY DEF Takes
  <2>2. f[1] = f[0] \o seqs[1]
    <3>1. 1 \in 1 .. n /\ 1 - 1 = 0
      BY <1>1
    <3>2. QED
      BY <3>1, <1>2
  <2>3. << >> \o seqs[1] = seqs[1]
    BY <1>1
  <2>4. QED
    BY <2>1, <2>2, <2>3
<1>4. Def(w)
  <2>1. ASSUME NEW i \in 1 .. n
        PROVE  w[i] = IF i = 1 THEN seqs[i] ELSE w[i - 1] \o seqs[i]
    <3>1. CASE i = 1
      BY <3>1, <1>3
    <3>2. CASE i # 1
      <4>1. i - 1 \in 1 .. n
        BY <3>2
      <4>2. QED
        BY <3>2, <4>1, <1>2
    <3>3. QED
      BY <3>1, <3>2
  <2>2. w = [i \in 1 .. n |-> w[i]]
    OBVIOUS
  <2> HIDE DEF w
  <2>3. QED
    BY <2>1, <2>2
<1>5. Def(h)
  <2> HIDE DEF Def, w
  <2>1. QED
    BY <1>4
<1> DEFINE T == {i \in Nat : i + 1 <= n => h[i + 1] = f[i + 1]}
<1>6. h[1] = seqs[1] /\ \A i \in 1 .. n : i # 1 => h[i] = h[i - 1] \o seqs[i]
  <2>1. ASSUME NEW g, g = [i \in 1 .. n |-> IF i = 1 THEN seqs[i] ELSE g[i - 1] \o seqs[i]]
        PROVE  g[1] = seqs[1] /\ \A i \in 1 .. n : i # 1 => g[i] = g[i - 1] \o seqs[i]
    <3>1. \A i \in 1 .. n : g[i] = IF i = 1 THEN seqs[i] ELSE g[i - 1] \o seqs[i]
      BY <2>1
    <3>2. 1 \in 1 .. n
      BY <1>1
    <3> HIDE DEF n
    <3>3. QED
      BY <3>1, <3>2
  <2> HIDE DEF h
  <2>2. QED
    BY <1>5, <2>1
<1> HIDE DEF h
<1>7. 0 \in T
  BY <1>3, <1>6
<1>8. ASSUME NEW i \in Nat, i \in T PROVE i + 1 \in T
  <2>1. CASE i + 2 <= n
    <3>1. h[i + 1] = f[i + 1]
      BY <1>8, <2>1
    <3>2. i + 2 \in 1 .. n /\ i + 2 # 1 /\ (i + 2) - 1 = i + 1 /\ (i + 1) + 1 = i + 2
      BY <2>1
    <3>3. h[i + 2] = h[i + 1] \o seqs[i + 2] /\ f[i + 2] = f[i + 1] \o seqs[i + 2]
      BY <3>2, <1>2, <1>6
    <3>4. h[(i + 1) + 1] = f[(i + 1) + 1]
      BY <3>1, <3>2, <3>3
    <3>5. QED
      BY <3>4
  <2>2. QED
    BY <2>1
<1>9. \A i \in Nat : i \in T
  <2> HIDE DEF T
  <2>1. QED
    BY <1>7, <1>8, InductiveSet
<1>10. h[n] = f[n]
  <2>1. n - 1 \in Nat /\ (n - 1) + 1 = n
    BY <1>1
  <2>2. n - 1 \in T
    BY <1>9, <2>1
  <2>3. QED
    BY <2>1, <2>2
<1>11. FlattenSeq(seqs) = h[n]
  BY <1>1 DEF FlattenSeq, h
<1>12. QED
  BY <1>10, <1>11

LEMMA FlattenNone ==
  FlattenSeq(<< >>) = << >>
BY DEF FlattenSeq

\* What is joined is of the elements of the parts; one part more comes at the end.
LEMMA FlattenAppend ==
  ASSUME NEW S, NEW seqs \in Seq(Seq(S)), NEW s \in Seq(S)
  PROVE  /\ FlattenSeq(seqs) \in Seq(S)
         /\ FlattenSeq(Append(seqs, s)) = FlattenSeq(seqs) \o s
<1> DEFINE n == Len(seqs)
           more == Append(seqs, s)
<1>1. /\ n \in Nat /\ more \in Seq(Seq(S)) /\ Len(more) = n + 1 /\ more[n + 1] = s
      /\ \A i \in 1 .. n : more[i] = seqs[i]
  OBVIOUS
<1> HIDE DEF more
<1>2. /\ Joining(S, seqs) \in [Nat \X Seq(S) -> Seq(S)]
      /\ Joining(S, more) \in [Nat \X Seq(S) -> Seq(S)]
      /\ << >> \in Seq(S)
  BY <1>1, JoiningJoins
<1>3. PICK f \in [0 .. n -> Seq(S)] : Takes(f, n, << >>, Joining(S, seqs))
  BY <1>1, <1>2, RecursionUpTo
<1>4. PICK g \in [0 .. n + 1 -> Seq(S)] : Takes(g, n + 1, << >>, Joining(S, more))
  <2>1. n + 1 \in Nat
    BY <1>1
  <2>2. QED
    BY <2>1, <1>2, RecursionUpTo
<1>5. Takes(g, n, << >>, Joining(S, seqs))
  <2>1. ASSUME NEW i \in 1 .. n PROVE g[i] = Joining(S, seqs)[<<i, g[i - 1]>>]
    <3>1. g[i] = Joining(S, more)[<<i, g[i - 1]>>]
      <4>1. i \in 1 .. n + 1
        BY <1>1
      <4>2. \A j \in 1 .. n + 1 : g[j] = Joining(S, more)[<<j, g[j - 1]>>]
        BY <1>4, Zenon DEF Takes
      <4>3. QED
        BY ONLY <4>1, <4>2, Zenon
    <3>2. g[i - 1] \in Seq(S)
      <4>1. i - 1 \in 0 .. n + 1
        BY <1>1
      <4>2. QED
        BY <4>1
    <3>3. i \in 1 .. Len(more) /\ more[i] = seqs[i]
      BY <1>1
    <3>4. Joining(S, seqs)[<<i, g[i - 1]>>] = g[i - 1] \o seqs[i]
      BY <3>2, JoiningStep
    <3>5. Joining(S, more)[<<i, g[i - 1]>>] = g[i - 1] \o more[i]
      BY <1>1, <3>2, <3>3, JoiningStep
    <3>6. QED
      BY <3>1, <3>2, <3>3, <3>4, <3>5
  <2>2. g[0] = << >>
    BY <1>4 DEF Takes
  <2>3. QED
    BY <2>1, <2>2 DEF Takes
<1>6. f[n] = g[n]
  BY <1>1, <1>3, <1>5, RecursionIsUnique
<1>7. g[n + 1] = g[n] \o s
  <2>1. g[n + 1] = Joining(S, more)[<<n + 1, g[n]>>]
    <3>1. n + 1 \in 1 .. n + 1 /\ (n + 1) - 1 = n
      BY <1>1
    <3>2. QED
      BY <1>4, <3>1 DEF Takes
  <2>2. n + 1 \in 1 .. Len(more) /\ g[n] \in Seq(S)
    BY <1>1
  <2>3. Joining(S, more)[<<n + 1, g[n]>>] = g[n] \o more[n + 1]
    <3>1. more \in Seq(Seq(S))
      BY <1>1
    <3>2. QED
      BY <3>1, <2>2, JoiningStep
  <2>4. QED
    BY <1>1, <2>1, <2>2, <2>3
<1>8. FlattenSeq(seqs) = f[n]
  <2>1. CASE n = 0
    <3>1. seqs = << >> /\ f[0] = << >>
      BY <2>1, <1>3 DEF Takes
    <3>2. QED
      BY <2>1, <3>1, FlattenNone
  <2>2. CASE n > 0
    BY <2>2, <1>3, FlattenIsRecursive
  <2>3. QED
    BY <1>1, <2>1, <2>2
<1>9. FlattenSeq(more) = g[n + 1]
  <2>1. Len(more) > 0
    BY <1>1
  <2>2. g \in [0 .. Len(more) -> Seq(S)] /\ Takes(g, Len(more), << >>, Joining(S, more))
    BY <1>1, <1>4
  <2>3. FlattenSeq(more) = g[Len(more)]
    BY <1>1, <2>1, <2>2, FlattenIsRecursive
  <2>4. QED
    BY <1>1, <2>3
<1>10. f[n] \in Seq(S)
  <2>1. n \in 0 .. n
    BY <1>1
  <2>2. QED
    BY <2>1
<1>11. QED
  BY <1>6, <1>7, <1>8, <1>9, <1>10 DEF more

\* The first part can be taken off.
LEMMA FlattenTail ==
  ASSUME NEW S, NEW seqs \in Seq(Seq(S)), seqs # << >>
  PROVE  FlattenSeq(seqs) = Head(seqs) \o FlattenSeq(Tail(seqs))
<1> DEFINE n == Len(Tail(seqs))
           less == Tail(seqs)
           first == Head(seqs)
<1>1. /\ n \in Nat /\ less \in Seq(Seq(S)) /\ first \in Seq(S) /\ Len(seqs) = n + 1
      /\ Len(less) = n /\ seqs[1] = first
      /\ \A i \in 1 .. n : less[i] = seqs[i + 1]
  OBVIOUS
<1> HIDE DEF less, first, n
<1>2. /\ Joining(S, seqs) \in [Nat \X Seq(S) -> Seq(S)]
      /\ Joining(S, less) \in [Nat \X Seq(S) -> Seq(S)]
      /\ << >> \in Seq(S)
  BY <1>1, JoiningJoins
<1>3. PICK g \in [0 .. n -> Seq(S)] : Takes(g, n, << >>, Joining(S, less))
  BY <1>1, <1>2, RecursionUpTo
<1>4. PICK f \in [0 .. n + 1 -> Seq(S)] : Takes(f, n + 1, << >>, Joining(S, seqs))
  <2>1. n + 1 \in Nat
    BY <1>1
  <2>2. QED
    BY <2>1, <1>2, RecursionUpTo
<1>5. f[0] = << >> /\ g[0] = << >>
  BY <1>3, <1>4 DEF Takes
<1>6. ASSUME NEW i \in 1 .. n + 1 PROVE f[i] = f[i - 1] \o seqs[i] /\ f[i - 1] \in Seq(S)
  <2>1. f[i] = Joining(S, seqs)[<<i, f[i - 1]>>]
    BY <1>4 DEF Takes
  <2>2. f[i - 1] \in Seq(S)
    <3>1. i - 1 \in 0 .. n + 1
      BY <1>1
    <3>2. QED
      BY <3>1
  <2>3. Joining(S, seqs)[<<i, f[i - 1]>>] = f[i - 1] \o seqs[i]
    <3>1. i \in 1 .. Len(seqs)
      BY <1>1
    <3>2. QED
      BY <3>1, <2>2, JoiningStep
  <2>4. QED
    BY <2>1, <2>2, <2>3
<1>7. ASSUME NEW i \in 1 .. n PROVE g[i] = g[i - 1] \o less[i] /\ g[i - 1] \in Seq(S)
  <2>1. g[i] = Joining(S, less)[<<i, g[i - 1]>>]
    BY <1>3 DEF Takes
  <2>2. g[i - 1] \in Seq(S)
    <3>1. i - 1 \in 0 .. n
      BY <1>1
    <3>2. QED
      BY <3>1
  <2>3. Joining(S, less)[<<i, g[i - 1]>>] = g[i - 1] \o less[i]
    <3>1. i \in 1 .. Len(less) /\ less \in Seq(Seq(S))
      BY <1>1
    <3>2. QED
      BY <3>1, <2>2, JoiningStep
  <2>4. QED
    BY <2>1, <2>2, <2>3
<1> DEFINE T == {i \in Nat : i <= n => f[i + 1] = first \o g[i]}
<1>8. 0 \in T
  <2>1. f[1] = f[0] \o seqs[1]
    <3>1. 1 \in 1 .. n + 1 /\ 1 - 1 = 0
      BY <1>1
    <3>2. QED
      BY <3>1, <1>6
  <2>2. << >> \o first = first /\ first \o << >> = first
    BY <1>1
  <2>3. f[0 + 1] = first \o g[0]
    BY <2>1, <2>2, <1>1, <1>5
  <2>4. QED
    BY <2>3
<1>9. ASSUME NEW i \in Nat, i \in T PROVE i + 1 \in T
  <2>1. CASE i + 1 <= n
    <3>1. f[i + 1] = first \o g[i]
      <4>1. i <= n
        BY <1>1, <2>1
      <4>2. QED
        BY <1>9, <4>1
    <3>2. /\ i + 2 \in 1 .. n + 1 /\ (i + 2) - 1 = i + 1
          /\ i + 1 \in 1 .. n /\ (i + 1) - 1 = i /\ (i + 1) + 1 = i + 2
      BY <1>1, <2>1
    <3>3. f[i + 2] = f[i + 1] \o seqs[i + 2]
      BY <3>2, <1>6
    <3>4. g[i + 1] = g[i] \o less[i + 1] /\ g[i] \in Seq(S)
      BY <3>2, <1>7
    <3>5. seqs[i + 2] = less[i + 1] /\ less[i + 1] \in Seq(S)
      <4>1. \A j \in 1 .. n : less[j] = seqs[j + 1]
        BY <1>1
      <4>2. less[i + 1] = seqs[i + 2]
        BY ONLY <3>2, <4>1
      <4>3. i + 1 \in 1 .. Len(less) /\ less \in Seq(Seq(S))
        BY <1>1, <3>2
      <4>4. QED
        BY ONLY <4>2, <4>3
    <3>6. (first \o g[i]) \o less[i + 1] = first \o (g[i] \o less[i + 1])
      <4>1. first \in Seq(S)
        BY <1>1
      <4>2. PICK a \in Seq(S) : a = first
        BY <4>1
      <4>3. PICK b \in Seq(S) : b = g[i]
        BY <3>4
      <4>4. PICK c \in Seq(S) : c = less[i + 1]
        BY <3>5
      <4>5. Associate(a, b, c)
        BY ONLY a \in Seq(S), b \in Seq(S), c \in Seq(S), PartsAssociate
      <4>6. QED
        BY ONLY <4>2, <4>3, <4>4, <4>5 DEF Associate
    <3>7. f[(i + 1) + 1] = first \o g[i + 1]
      BY <3>1, <3>2, <3>3, <3>4, <3>5, <3>6
    <3>8. QED
      BY <3>7
  <2>2. QED
    BY <2>1
<1>10. n \in T
  <2> HIDE DEF T
  <2>1. \A i \in Nat : i \in T
    BY <1>8, <1>9, InductiveSet
  <2>2. QED
    BY <2>1, <1>1
<1>11. FlattenSeq(seqs) = f[n + 1]
  <2>1. Len(seqs) > 0
    BY <1>1
  <2>2. f \in [0 .. Len(seqs) -> Seq(S)] /\ Takes(f, Len(seqs), << >>, Joining(S, seqs))
    BY <1>1, <1>4
  <2>3. FlattenSeq(seqs) = f[Len(seqs)]
    BY <2>1, <2>2, FlattenIsRecursive
  <2>4. QED
    BY <1>1, <2>3
<1>12. FlattenSeq(less) = g[n]
  <2>1. CASE n = 0
    <3>1. less = << >>
      BY <2>1, <1>1
    <3>2. QED
      BY <2>1, <3>1, <1>5, FlattenNone
  <2>2. CASE n > 0
    <3>1. g \in [0 .. Len(less) -> Seq(S)] /\ Takes(g, Len(less), << >>, Joining(S, less))
      BY <1>1, <1>3
    <3>2. FlattenSeq(less) = g[Len(less)]
      BY <1>1, <2>2, <3>1, FlattenIsRecursive
    <3>3. QED
      BY <1>1, <3>2
  <2>3. QED
    BY <1>1, <2>1, <2>2
<1>13. f[n + 1] = first \o g[n]
  BY <1>1, <1>10
<1>14. QED
  BY <1>11, <1>12, <1>13 DEF first, less

-----------------------------------------------------------------------------
(* Sequences in the order of a relation *)

InOrder(R, s) == \A i, j \in DOMAIN s : i < j => <<s[i], s[j]>> \in R

Before(R, A, B) == \A a \in A, b \in B : <<a, b>> \in R

LEMMA ToSetJoin ==
  ASSUME NEW S, NEW s \in Seq(S), NEW t \in Seq(S)
  PROVE  /\ s \o t \in Seq(S)
         /\ ToSet(s \o t) = ToSet(s) \cup ToSet(t)
<1>1. s \o t \in Seq(S) /\ Len(s \o t) = Len(s) + Len(t)
  OBVIOUS
<1>2. \A i \in 1 .. Len(s) : (s \o t)[i] = s[i]
  OBVIOUS
<1>3. \A i \in 1 .. Len(t) : (s \o t)[Len(s) + i] = t[i]
  OBVIOUS
<1>4. \A i \in 1 .. Len(s) + Len(t) : i \in 1 .. Len(s) \/ i - Len(s) \in 1 .. Len(t)
  OBVIOUS
<1>5. ToSet(s \o t) \subseteq ToSet(s) \cup ToSet(t)
  <2>1. ASSUME NEW i \in 1 .. Len(s) + Len(t)
        PROVE  (s \o t)[i] \in ToSet(s) \cup ToSet(t)
    BY DEF ToSet
  <2>2. QED
    BY <1>1, <2>1 DEF ToSet
<1>6. ToSet(s) \subseteq ToSet(s \o t)
  <2>1. ASSUME NEW i \in 1 .. Len(s) PROVE s[i] \in ToSet(s \o t)
    <3>1. i \in 1 .. Len(s \o t)
      BY <1>1
    <3>2. QED
      BY <1>1, <1>2, <3>1 DEF ToSet
  <2>2. QED
    BY <2>1 DEF ToSet
<1>7. ToSet(t) \subseteq ToSet(s \o t)
  <2>1. ASSUME NEW i \in 1 .. Len(t) PROVE t[i] \in ToSet(s \o t)
    <3>1. Len(s) + i \in DOMAIN (s \o t)
      BY <1>1
    <3>2. (s \o t)[Len(s) + i] \in ToSet(s \o t)
      BY <3>1, Zenon DEF ToSet
    <3>3. QED
      BY <1>3, <3>2
  <2>2. QED
    BY <2>1 DEF ToSet
<1>8. QED
  BY <1>1, <1>5, <1>6, <1>7

LEMMA ToSetAppend ==
  ASSUME NEW S, NEW s \in Seq(S), NEW x \in S
  PROVE  /\ Append(s, x) \in Seq(S)
         /\ ToSet(Append(s, x)) = ToSet(s) \cup {x}
<1>1. PICK t \in Seq(S) : t = <<x>>
  <2>1. <<x>> \in Seq(S)
    OBVIOUS
  <2>2. QED
    BY <2>1
<1>2. Append(s, x) = s \o t
  BY <1>1
<1>3. ToSet(t) = {x}
  BY <1>1 DEF ToSet
<1>4. QED
  BY ONLY <1>2, <1>3, t \in Seq(S), s \in Seq(S), ToSetJoin

LEMMA ToSetType ==
  ASSUME NEW S, NEW s \in Seq(S)
  PROVE  /\ ToSet(s) \subseteq S
         /\ \A i \in DOMAIN s : s[i] \in ToSet(s)
BY DEF ToSet

LEMMA ToSetNone == ToSet(<< >>) = {}
BY DEF ToSet

\* A sequence cut in two.
LEMMA CutJoins ==
  ASSUME NEW S, NEW s \in Seq(S), NEW n \in 0 .. Len(s)
  PROVE  /\ SubSeq(s, 1, n) \in Seq(S) /\ SubSeq(s, n + 1, Len(s)) \in Seq(S)
         /\ Len(SubSeq(s, 1, n)) = n /\ Len(SubSeq(s, n + 1, Len(s))) = Len(s) - n
         /\ s = SubSeq(s, 1, n) \o SubSeq(s, n + 1, Len(s))
<1>1. Len(s) \in Nat /\ 1 \in 1 .. Len(s) + 1 /\ n \in 1 - 1 .. Len(s) /\ Len(s) \in n .. Len(s)
  OBVIOUS
<1>2. SubSeq(s, 1, n) \in Seq(S) /\ Len(SubSeq(s, 1, n)) = n
  OBVIOUS
<1>3. SubSeq(s, n + 1, Len(s)) \in Seq(S) /\ Len(SubSeq(s, n + 1, Len(s))) = Len(s) - n
  OBVIOUS
<1>4. SubSeq(s, 1, n) \o SubSeq(s, n + 1, Len(s)) = SubSeq(s, 1, Len(s))
  BY <1>1, ConcatAdjacentSubSeq
<1>5. SubSeq(s, 1, Len(s)) = s
  BY SubSeqFull
<1>6. QED
  BY <1>2, <1>3, <1>4, <1>5

LEMMA InOrderJoin ==
  ASSUME NEW S, NEW R, NEW s \in Seq(S), NEW t \in Seq(S)
  PROVE  InOrder(R, s \o t) <=> InOrder(R, s) /\ InOrder(R, t) /\ Before(R, ToSet(s), ToSet(t))
<1> DEFINE u == s \o t
           m == Len(s)
           n == Len(t)
<1>1. DOMAIN u = 1 .. m + n /\ DOMAIN s = 1 .. m /\ DOMAIN t = 1 .. n /\ m \in Nat /\ n \in Nat
  OBVIOUS
<1>2. \A i \in 1 .. m : u[i] = s[i]
  OBVIOUS
<1>3. \A i \in 1 .. n : u[m + i] = t[i]
  OBVIOUS
<1> HIDE DEF u, m, n
<1>4. ASSUME InOrder(R, u)
      PROVE  InOrder(R, s) /\ InOrder(R, t) /\ Before(R, ToSet(s), ToSet(t))
  <2>1. InOrder(R, s)
    <3>1. ASSUME NEW i \in 1 .. m, NEW j \in 1 .. m, i < j
          PROVE  <<s[i], s[j]>> \in R
      <4>1. i \in 1 .. m + n /\ j \in 1 .. m + n
        BY <1>1
      <4>2. <<u[i], u[j]>> \in R
        BY <1>1, <1>4, <3>1, <4>1 DEF InOrder
      <4>3. QED
        BY <1>2, <4>2
    <3>2. QED
      BY <1>1, <3>1 DEF InOrder
  <2>2. InOrder(R, t)
    <3>1. ASSUME NEW i \in 1 .. n, NEW j \in 1 .. n, i < j
          PROVE  <<t[i], t[j]>> \in R
      <4>1. m + i \in 1 .. m + n /\ m + j \in 1 .. m + n /\ m + i < m + j
        BY <1>1, <3>1
      <4>2. <<u[m + i], u[m + j]>> \in R
        BY <1>1, <1>4, <4>1 DEF InOrder
      <4>3. QED
        BY <1>3, <4>2
    <3>2. QED
      BY <1>1, <3>1 DEF InOrder
  <2>3. ASSUME NEW i \in 1 .. m, NEW j \in 1 .. n
        PROVE  <<s[i], t[j]>> \in R
    <3>1. i \in 1 .. m + n /\ m + j \in 1 .. m + n /\ i < m + j
      BY <1>1
    <3>2. <<u[i], u[m + j]>> \in R
      BY <1>1, <1>4, <3>1 DEF InOrder
    <3>3. QED
      BY <1>2, <1>3, <3>2
  <2>4. QED
    BY <1>1, <2>1, <2>2, <2>3 DEF Before, ToSet
<1>5. ASSUME InOrder(R, s), InOrder(R, t), Before(R, ToSet(s), ToSet(t))
      PROVE  InOrder(R, u)
  <2>1. ASSUME NEW i \in 1 .. m + n, NEW j \in 1 .. m + n, i < j
        PROVE  <<u[i], u[j]>> \in R
    <3>1. CASE j <= m
      <4>1. i \in 1 .. m /\ j \in 1 .. m
        BY <1>1, <2>1, <3>1
      <4>2. <<s[i], s[j]>> \in R
        BY <1>1, <1>5, <2>1, <4>1 DEF InOrder
      <4>3. QED
        BY <1>2, <4>1, <4>2
    <3>2. CASE i <= m /\ m < j
      <4>1. i \in 1 .. m /\ j - m \in 1 .. n /\ m + (j - m) = j
        BY <1>1, <2>1, <3>2
      <4>2. <<s[i], t[j - m]>> \in R
        <5>1. s[i] \in ToSet(s) /\ t[j - m] \in ToSet(t)
          BY <1>1, <4>1 DEF ToSet
        <5>2. QED
          BY <1>5, <5>1 DEF Before
      <4>3. u[i] = s[i] /\ u[m + (j - m)] = t[j - m]
        BY <1>2, <1>3, <4>1
      <4>4. QED
        BY <4>1, <4>2, <4>3
    <3>3. CASE m < i
      <4>1. /\ i - m \in 1 .. n /\ m + (i - m) = i
            /\ j - m \in 1 .. n /\ m + (j - m) = j /\ i - m < j - m
        BY <1>1, <2>1, <3>3
      <4>2. <<t[i - m], t[j - m]>> \in R
        BY <1>1, <1>5, <4>1 DEF InOrder
      <4>3. u[m + (i - m)] = t[i - m] /\ u[m + (j - m)] = t[j - m]
        BY <1>3, <4>1
      <4>4. QED
        BY <4>1, <4>2, <4>3
    <3>4. QED
      BY <1>1, <2>1, <3>1, <3>2, <3>3
  <2>2. QED
    BY <1>1, <2>1 DEF InOrder
<1>6. QED
  BY <1>4, <1>5 DEF u

LEMMA InOrderFew ==
  ASSUME NEW R
  PROVE  InOrder(R, << >>) /\ \A x : InOrder(R, <<x>>)
<1>1. InOrder(R, << >>)
  BY DEF InOrder
<1>2. ASSUME NEW x PROVE InOrder(R, <<x>>)
  <2>1. DOMAIN <<x>> = {1}
    OBVIOUS
  <2>2. QED
    BY <2>1 DEF InOrder
<1>3. QED
  BY <1>1, <1>2

LEMMA InOrderAppend ==
  ASSUME NEW S, NEW R, NEW s \in Seq(S), NEW x \in S,
         InOrder(R, s), Before(R, ToSet(s), {x})
  PROVE  InOrder(R, Append(s, x))
<1>1. PICK t \in Seq(S) : t = <<x>>
  <2>1. <<x>> \in Seq(S)
    OBVIOUS
  <2>2. QED
    BY <2>1
<1>2. Append(s, x) = s \o t
  BY <1>1
<1>3. ToSet(t) = {x}
  BY <1>1 DEF ToSet
<1>4. InOrder(R, t)
  BY <1>1, InOrderFew
<1>5. InOrder(R, s \o t)
  BY <1>3, <1>4, InOrderJoin
<1>6. QED
  BY <1>2, <1>5

\* What a cut leaves in order, and before what.
LEMMA InOrderCut ==
  ASSUME NEW S, NEW R, NEW s \in Seq(S), NEW n \in 0 .. Len(s), InOrder(R, s)
  PROVE  /\ InOrder(R, SubSeq(s, 1, n)) /\ InOrder(R, SubSeq(s, n + 1, Len(s)))
         /\ Before(R, ToSet(SubSeq(s, 1, n)), ToSet(SubSeq(s, n + 1, Len(s))))
         /\ ToSet(s) = ToSet(SubSeq(s, 1, n)) \cup ToSet(SubSeq(s, n + 1, Len(s)))
<1>1. PICK a \in Seq(S) : a = SubSeq(s, 1, n)
  BY CutJoins
<1>2. PICK b \in Seq(S) : b = SubSeq(s, n + 1, Len(s))
  BY CutJoins
<1>3. s = a \o b
  <2>1. s = SubSeq(s, 1, n) \o SubSeq(s, n + 1, Len(s))
    BY CutJoins
  <2>2. QED
    BY ONLY <1>1, <1>2, <2>1
<1>4. InOrder(R, a) /\ InOrder(R, b) /\ Before(R, ToSet(a), ToSet(b))
  BY <1>3, InOrderJoin
<1>5. ToSet(s) = ToSet(a) \cup ToSet(b)
  BY <1>3, ToSetJoin
<1>6. QED
  BY <1>1, <1>2, <1>4, <1>5

LEMMA BeforeParts ==
  ASSUME NEW R, NEW A, NEW B, NEW C
  PROVE  /\ Before(R, A, C) /\ Before(R, B, C) <=> Before(R, A \cup B, C)
         /\ Before(R, C, A) /\ Before(R, C, B) <=> Before(R, C, A \cup B)
         /\ Before(R, A, {}) /\ Before(R, {}, A)
BY DEF Before

-----------------------------------------------------------------------------
(* Sequences with an end mark *)

Marked(x, e, y) == Append(x, e) \o y

\* What comes before the first mark, and what comes after it.
LEMMA FirstMark ==
  ASSUME NEW S, NEW e, e \notin S,
         NEW x \in Seq(S), NEW x2 \in Seq(S),
         NEW T, e \in T, x \in Seq(T), x2 \in Seq(T), NEW y \in Seq(T), NEW y2 \in Seq(T),
         Marked(x, e, y) = Marked(x2, e, y2)
  PROVE  x = x2 /\ y = y2
<1>1. PICK a \in Seq(T) : /\ a = Append(x, e) /\ Len(a) = Len(x) + 1 /\ a[Len(x) + 1] = e
                          /\ \A i \in 1 .. Len(x) : a[i] = x[i]
  <2>1. /\ Append(x, e) \in Seq(T) /\ Len(Append(x, e)) = Len(x) + 1
        /\ Append(x, e)[Len(x) + 1] = e
        /\ \A i \in 1 .. Len(x) : Append(x, e)[i] = x[i]
    BY AppendProperties
  <2>2. QED
    BY <2>1
<1>2. PICK b \in Seq(T) : /\ b = Append(x2, e) /\ Len(b) = Len(x2) + 1 /\ b[Len(x2) + 1] = e
                          /\ \A i \in 1 .. Len(x2) : b[i] = x2[i]
  <2>1. /\ Append(x2, e) \in Seq(T) /\ Len(Append(x2, e)) = Len(x2) + 1
        /\ Append(x2, e)[Len(x2) + 1] = e
        /\ \A i \in 1 .. Len(x2) : Append(x2, e)[i] = x2[i]
    BY AppendProperties
  <2>2. QED
    BY <2>1
<1>3. a \o y = b \o y2
  BY <1>1, <1>2 DEF Marked
<1>4. \A i \in 1 .. Len(a) : (a \o y)[i] = a[i]
  BY y \in Seq(T)
<1>5. \A i \in 1 .. Len(b) : (b \o y2)[i] = b[i]
  BY y2 \in Seq(T)
<1>6. Len(x) \in Nat /\ Len(x2) \in Nat
  OBVIOUS
<1>7. ~ (Len(x) < Len(x2))
  <2>1. ASSUME Len(x) < Len(x2) PROVE FALSE
    <3> DEFINE k == Len(x) + 1
    <3>1. k \in 1 .. Len(x2) /\ k \in 1 .. Len(b) /\ k \in 1 .. Len(a)
      BY <1>1, <1>2, <1>6, <2>1
    <3>2. b[k] = e
      BY <1>1, <1>3, <1>4, <1>5, <3>1
    <3>3. b[k] = x2[k] /\ x2[k] \in S
      BY <1>2, <3>1
    <3>4. QED
      BY <3>2, <3>3
  <2>2. QED
    BY <2>1
<1>8. ~ (Len(x2) < Len(x))
  <2>1. ASSUME Len(x2) < Len(x) PROVE FALSE
    <3> DEFINE k == Len(x2) + 1
    <3>1. k \in 1 .. Len(x) /\ k \in 1 .. Len(b) /\ k \in 1 .. Len(a)
      BY <1>1, <1>2, <1>6, <2>1
    <3>2. a[k] = e
      BY <1>2, <1>3, <1>4, <1>5, <3>1
    <3>3. a[k] = x[k] /\ x[k] \in S
      BY <1>1, <3>1
    <3>4. QED
      BY <3>2, <3>3
  <2>2. QED
    BY <2>1
<1>9. Len(x) = Len(x2)
  BY <1>6, <1>7, <1>8
<1>10. \A i \in 1 .. Len(x) : x[i] = x2[i]
  <2>1. ASSUME NEW i \in 1 .. Len(x) PROVE x[i] = x2[i]
    <3>1. i \in 1 .. Len(a) /\ i \in 1 .. Len(b) /\ i \in 1 .. Len(x2)
      BY <1>1, <1>2, <1>6, <1>9
    <3>2. a[i] = b[i]
      BY <1>3, <1>4, <1>5, <3>1
    <3>3. QED
      BY <1>1, <1>2, <3>1, <3>2
  <2>2. QED
    BY <2>1
<1>11. x = x2
  BY <1>9, <1>10, SeqEqual
<1>12. a = b
  BY <1>1, <1>2, <1>11
<1>13. a \o y = a \o y2
  BY <1>3, <1>12
<1>14. \A u, v, w \in Seq(T) : u \o v = u \o w => v = w
  BY ConcatSimplifications
<1>15. y \in Seq(T) /\ y2 \in Seq(T)
  OBVIOUS
<1>16. y = y2
  BY ONLY <1>13, <1>14, <1>15, a \in Seq(T)
<1>17. QED
  BY <1>11, <1>16

\* A mark within a sequence is at the end of a first part.
LEMMA MarkCuts ==
  ASSUME NEW S, NEW s \in Seq(S), NEW i \in 1 .. Len(s)
  PROVE  /\ SubSeq(s, 1, i - 1) \in Seq(S) /\ SubSeq(s, i + 1, Len(s)) \in Seq(S)
         /\ s = Append(SubSeq(s, 1, i - 1), s[i]) \o SubSeq(s, i + 1, Len(s))
<1>1. i \in 0 .. Len(s) /\ i - 1 \in 0 .. Len(s) /\ s[i] \in S
  OBVIOUS
<1>2. PICK a \in Seq(S) : a = SubSeq(s, 1, i - 1)
  BY <1>1, CutJoins
<1>3. PICK c \in Seq(S) : c = SubSeq(s, i + 1, Len(s))
  BY <1>1, CutJoins
<1>4. SubSeq(s, 1, i) = Append(a, s[i])
  <2>1. PICK b \in Seq(S) : b = SubSeq(s, 1, i) /\ Len(b) = i
    <3>1. SubSeq(s, 1, i) \in Seq(S) /\ Len(SubSeq(s, 1, i)) = i
      BY <1>1, CutJoins
    <3>2. QED
      BY <3>1
  <2>2. Len(a) = i - 1 /\ \A j \in 1 .. i - 1 : a[j] = s[j]
    BY <1>2
  <2>3. \A j \in 1 .. i : b[j] = s[j]
    BY <2>1
  <2>4. PICK d \in Seq(S) : /\ d = Append(a, s[i]) /\ Len(d) = Len(a) + 1 /\ d[Len(a) + 1] = s[i]
                            /\ \A j \in 1 .. Len(a) : d[j] = a[j]
    <3>1. /\ Append(a, s[i]) \in Seq(S) /\ Len(Append(a, s[i])) = Len(a) + 1
          /\ Append(a, s[i])[Len(a) + 1] = s[i]
          /\ \A j \in 1 .. Len(a) : Append(a, s[i])[j] = a[j]
      BY <1>1, AppendProperties
    <3>2. QED
      BY <3>1
  <2>5. Len(d) = i /\ \A j \in 1 .. i : d[j] = b[j]
    BY <2>2, <2>3, <2>4
  <2>6. b = d
    BY <2>1, <2>5, SeqEqual
  <2>7. QED
    BY <2>1, <2>4, <2>6
<1>5. s = SubSeq(s, 1, i) \o SubSeq(s, i + 1, Len(s))
  BY <1>1, CutJoins
<1>6. QED
  BY <1>2, <1>3, <1>4, <1>5

=============================================================================
