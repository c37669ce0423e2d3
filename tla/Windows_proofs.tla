--------------------------- MODULE Windows_proofs ---------------------------
(***************************************************************************)
(* What the proofs about limiters and breakers need to know of Select, and *)
(* of SumFunction, which adds up the weights of a window or of a log.      *)
(*                                                                         *)
(* Both are recursive functions.  That they exist, and what they compute,  *)
(* is shown by induction with the property given as a set.                 *)
(***************************************************************************)
EXTENDS Windows, FiniteSets, Functions, FiniteSetTheorems, WellFoundedInduction, TLAPS

(***************************************************************************)
(* Induction, with the property given as a set.                            *)
(***************************************************************************)
LEMMA NatSetInduction ==
    ASSUME NEW P, 0 \in P, \A n \in Nat : n \in P => n + 1 \in P
    PROVE  Nat \subseteq P
<1> SUFFICES ASSUME Nat \ P # {} PROVE FALSE
  OBVIOUS
<1>1. PICK m \in Nat \ P : \A k \in Nat \ P : ~ (<<k, m>> \in OpToRel(<, Nat))
  BY NatLessThanWellFounded, WFMin
<1>2. \A j, k \in Nat : j < k => <<j, k>> \in OpToRel(<, Nat)
  BY DEF OpToRel
<1>3. m \in Nat \ P /\ \A k \in Nat \ P : ~ (k < m)
  BY <1>1, <1>2, Zenon
<1>4. m # 0
  BY <1>3
<1>5. m - 1 \in Nat /\ (m - 1) + 1 = m /\ m - 1 < m
  BY <1>4
<1> QED BY <1>3, <1>5

LEMMA SeqSetInduction ==
    ASSUME NEW S, NEW P, <<>> \in P,
           \A s \in Seq(S) : \A x \in S : s \in P => Append(s, x) \in P
    PROVE  Seq(S) \subseteq P
<1> DEFINE Q == {n \in Nat : \A s \in Seq(S) : Len(s) = n => s \in P}
<1>1. 0 \in Q
  <2>1. \A s \in Seq(S) : Len(s) = 0 => s = <<>>
    OBVIOUS
  <2> QED BY <2>1
<1>2. ASSUME NEW n \in Nat, n \in Q PROVE n + 1 \in Q
  <2>1. SUFFICES ASSUME NEW s \in Seq(S), Len(s) = n + 1 PROVE s \in P
    OBVIOUS
  <2> DEFINE front == [i \in 1..n |-> s[i]]
  <2>2. front \in Seq(S) /\ Len(front) = n /\ s[n + 1] \in S /\ s = Append(front, s[n + 1])
    BY <2>1
  <2>3. front \in P
    BY <1>2, <2>2
  <2> QED BY <2>2, <2>3
<1>3. Nat \subseteq Q
  <2> HIDE DEF Q
  <2> QED BY <1>1, <1>2, NatSetInduction
<1> QED BY <1>3

(***************************************************************************)
(* Select.                                                                 *)
(***************************************************************************)
LEMMA SelectUnfold ==
    ASSUME NEW S, NEW s \in Seq(S), NEW keep
    PROVE  \E kept :
             /\ kept = [n \in 0..Len(s) |->
                          IF n = 0 THEN <<>>
                          ELSE IF s[n] \in keep THEN Append(kept[n - 1], s[n]) ELSE kept[n - 1]]
             /\ Select(s, keep) = kept[Len(s)]
<1> DEFINE Next(k, n) == IF s[n] \in keep THEN Append(k, s[n]) ELSE k
           Run(f, m) == f[0] = <<>> /\ \A n \in 1..m : f[n] = Next(f[n - 1], n)
           Q == {m \in Nat : \E f : Run(f, m)}
<1>1. 0 \in Q
  <2>1. Run([n \in 0..0 |-> <<>>], 0)
    OBVIOUS
  <2> QED BY <2>1
<1>2. ASSUME NEW m \in Nat, m \in Q PROVE m + 1 \in Q
  <2>1. PICK f : Run(f, m)
    BY <1>2
  <2> DEFINE g == [n \in 0..(m + 1) |-> IF n = m + 1 THEN Next(f[m], n) ELSE f[n]]
  <2>2. \A n \in 0..m : g[n] = f[n]
    OBVIOUS
  <2>3. g[m + 1] = Next(g[m], m + 1)
    BY <2>2
  <2> HIDE DEF g, Next
  <2>4. Run(g, m + 1)
    BY <2>1, <2>2, <2>3
  <2> QED BY <2>4
<1>3. Nat \subseteq Q
  <2> HIDE DEF Q
  <2> QED BY <1>1, <1>2, NatSetInduction
<1>4. PICK f : Run(f, Len(s))
  <2>1. Len(s) \in Nat
    OBVIOUS
  <2> QED BY <1>3, <2>1
<1> DEFINE Def(k) == k = [n \in 0..Len(s) |-> IF n = 0 THEN <<>> ELSE Next(k[n - 1], n)]
           g == [n \in 0..Len(s) |-> f[n]]
<1>5. Def(g)
  <2>1. \A n \in 0..Len(s) : n # 0 => n - 1 \in 0..Len(s) /\ n \in 1..Len(s)
    OBVIOUS
  <2> HIDE DEF Next
  <2> QED BY <1>4, <2>1
<1> HIDE DEF g
<1>6. Def(CHOOSE k : Def(k))
  BY <1>5
<1>7. Select(s, keep) = (CHOOSE k : Def(k))[Len(s)]
  BY DEF Select
<1> QED BY <1>6, <1>7

LEMMA SelectEmpty == \A keep : Select(<<>>, keep) = <<>>
<1> TAKE keep
<1>1. <<>> \in Seq({}) /\ Len(<<>>) = 0
  OBVIOUS
<1>2. PICK kept :
         /\ kept = [n \in 0..Len(<<>>) |->
                      IF n = 0 THEN <<>>
                      ELSE IF <<>>[n] \in keep THEN Append(kept[n - 1], <<>>[n]) ELSE kept[n - 1]]
         /\ Select(<<>>, keep) = kept[Len(<<>>)]
  BY <1>1, SelectUnfold
<1>3. kept[0] = <<>>
  BY <1>1, <1>2
<1> QED BY <1>1, <1>2, <1>3

LEMMA SelectAppend ==
    ASSUME NEW S, NEW s \in Seq(S), NEW x \in S, NEW keep
    PROVE  Select(Append(s, x), keep) =
             IF x \in keep THEN Append(Select(s, keep), x) ELSE Select(s, keep)
<1> DEFINE t == Append(s, x)
           len == Len(s)
<1>1. t \in Seq(S) /\ Len(t) = len + 1 /\ t[len + 1] = x /\ len \in Nat /\ \A n \in 1..len : t[n] = s[n]
  OBVIOUS
<1>2. PICK f :
         /\ f = [n \in 0..Len(s) |->
                   IF n = 0 THEN <<>>
                   ELSE IF s[n] \in keep THEN Append(f[n - 1], s[n]) ELSE f[n - 1]]
         /\ Select(s, keep) = f[Len(s)]
  BY SelectUnfold
<1>3. PICK g :
         /\ g = [n \in 0..Len(t) |->
                   IF n = 0 THEN <<>>
                   ELSE IF t[n] \in keep THEN Append(g[n - 1], t[n]) ELSE g[n - 1]]
         /\ Select(t, keep) = g[Len(t)]
  <2> HIDE DEF t
  <2> QED BY <1>1, SelectUnfold
<1> DEFINE Next(k, y) == IF y \in keep THEN Append(k, y) ELSE k
<1> HIDE DEF t
<1>4. f[0] = <<>> /\ \A n \in 1..len : f[n] = Next(f[n - 1], s[n])
  <2>1. \A n \in 1..len : n \in 0..Len(s) /\ n # 0
    BY <1>1
  <2>2. 0 \in 0..Len(s)
    BY <1>1
  <2> QED BY <1>2, <2>1, <2>2
<1>5. g[0] = <<>> /\ \A n \in 1..(len + 1) : g[n] = Next(g[n - 1], t[n])
  <2>1. \A n \in 1..(len + 1) : n \in 0..Len(t) /\ n # 0
    BY <1>1
  <2>2. 0 \in 0..Len(t)
    BY <1>1
  <2> QED BY <1>3, <2>1, <2>2
<1> DEFINE Q == {n \in Nat : n <= len => f[n] = g[n]}
<1> HIDE DEF Next, len
<1>6. 0 \in Q
  BY <1>4, <1>5
<1>7. ASSUME NEW n \in Nat, n \in Q PROVE n + 1 \in Q
  <2> SUFFICES ASSUME n + 1 <= len PROVE f[n + 1] = g[n + 1]
    OBVIOUS
  <2>1. n + 1 \in 1..len /\ n + 1 \in 1..(len + 1) /\ (n + 1) - 1 = n /\ n <= len
    BY <1>1
  <2>2. f[n] = g[n] /\ t[n + 1] = s[n + 1]
    BY <1>1, <1>7, <2>1
  <2> QED BY <1>4, <1>5, <2>1, <2>2
<1>8. f[len] = g[len]
  <2> HIDE DEF Q
  <2>1. Nat \subseteq Q
    BY <1>6, <1>7, NatSetInduction
  <2>2. len \in Q
    BY <1>1, <2>1
  <2> QED BY <1>1, <2>2 DEF Q
<1>9. g[len + 1] = Next(g[len], x)
  <2>1. len + 1 \in 1..(len + 1) /\ (len + 1) - 1 = len
    BY <1>1
  <2> QED BY <1>1, <1>5, <2>1
<1> QED BY <1>1, <1>2, <1>3, <1>8, <1>9 DEF Next, len, t

\* Trimming keeps a sequence a sequence and makes it no longer.
LEMMA SelectType ==
    ASSUME NEW S, NEW s \in Seq(S), NEW keep
    PROVE  Select(s, keep) \in Seq(S) /\ Len(Select(s, keep)) <= Len(s)
<1> DEFINE P == {z \in Seq(S) : Select(z, keep) \in Seq(S) /\ Len(Select(z, keep)) <= Len(z)}
<1>1. <<>> \in P
  <2>1. <<>> \in Seq(S) /\ Len(<<>>) <= Len(<<>>)
    OBVIOUS
  <2> QED BY <2>1, SelectEmpty, Zenon
<1>2. ASSUME NEW z \in Seq(S), NEW x \in S, z \in P PROVE Append(z, x) \in P
  <2>1. CASE x \in keep
    <3>1. Select(Append(z, x), keep) = Append(Select(z, keep), x)
      BY <2>1, SelectAppend
    <3>2. /\ Append(Select(z, keep), x) \in Seq(S)
          /\ Len(Append(Select(z, keep), x)) <= Len(Append(z, x))
          /\ Append(z, x) \in Seq(S)
      BY <1>2
    <3> QED BY <3>1, <3>2, Zenon
  <2>2. CASE x \notin keep
    <3>1. Select(Append(z, x), keep) = Select(z, keep)
      BY <2>2, SelectAppend
    <3> QED BY <1>2, <3>1
  <2> QED BY <2>1, <2>2
<1>3. Seq(S) \subseteq P
  <2> HIDE DEF P
  <2> QED BY <1>1, <1>2, SeqSetInduction
<1> QED BY <1>3

\* It keeps only what it is to keep.
LEMMA SelectKeeps ==
    ASSUME NEW S, NEW s \in Seq(S), NEW keep
    PROVE  Select(s, keep) \in Seq(keep)
<1> DEFINE P == {z \in Seq(S) : Select(z, keep) \in Seq(keep)}
<1>1. <<>> \in P
  <2>1. <<>> \in Seq(S)
    OBVIOUS
  <2>2. <<>> \in Seq(keep)
    OBVIOUS
  <2> QED BY <2>1, <2>2, SelectEmpty, Zenon
<1>2. ASSUME NEW z \in Seq(S), NEW x \in S, z \in P PROVE Append(z, x) \in P
  <2>1. CASE x \in keep
    <3>1. Select(Append(z, x), keep) = Append(Select(z, keep), x)
      BY <2>1, SelectAppend
    <3> QED BY <1>2, <2>1, <3>1
  <2>2. CASE x \notin keep
    <3>1. Select(Append(z, x), keep) = Select(z, keep)
      BY <2>2, SelectAppend
    <3> QED BY <1>2, <3>1
  <2> QED BY <2>1, <2>2
<1>3. Seq(S) \subseteq P
  <2> HIDE DEF P
  <2> QED BY <1>1, <1>2, SeqSetInduction
<1> QED BY <1>3

\* A window trimmed before is trimmed again as if it had not been.
LEMMA SelectTwice ==
    ASSUME NEW S, NEW s \in Seq(S), NEW keep, NEW less, less \subseteq keep
    PROVE  Select(Select(s, keep), less) = Select(s, less)
<1> DEFINE P == {z \in Seq(S) : Select(Select(z, keep), less) = Select(z, less)}
<1>1. <<>> \in P
  BY SelectEmpty
<1>2. ASSUME NEW z \in Seq(S), NEW x \in S, z \in P PROVE Append(z, x) \in P
  <2>1. Append(z, x) \in Seq(S) /\ Select(z, keep) \in Seq(S)
    BY SelectType
  <2>2. Select(Append(z, x), less) = IF x \in less THEN Append(Select(z, less), x) ELSE Select(z, less)
    BY SelectAppend
  <2>3. Select(Append(z, x), keep) = IF x \in keep THEN Append(Select(z, keep), x) ELSE Select(z, keep)
    BY SelectAppend
  <2>4. Select(Append(Select(z, keep), x), less) =
          IF x \in less THEN Append(Select(Select(z, keep), less), x) ELSE Select(Select(z, keep), less)
    BY <2>1, SelectAppend
  <2> QED BY <1>2, <2>1, <2>2, <2>3, <2>4
<1>3. Seq(S) \subseteq P
  <2> HIDE DEF P
  <2> QED BY <1>1, <1>2, SeqSetInduction
<1> QED BY <1>3

(***************************************************************************)
(* SumFunction.                                                                  *)
(***************************************************************************)
\* The element a fold takes first.
First(T) == CHOOSE x \in T : TRUE

LEMMA Removed ==
    ASSUME NEW D, IsFiniteSet(D), NEW T \in SUBSET D, NEW x \in T
    PROVE  /\ T \ {x} \in SUBSET D /\ IsFiniteSet(T) /\ IsFiniteSet(T \ {x})
           /\ Cardinality(T) \in Nat /\ Cardinality(T) # 0
           /\ Cardinality(T \ {x}) = Cardinality(T) - 1
<1>1. IsFiniteSet(T)
  BY FS_Subset
<1>2. IsFiniteSet(T \ {x}) /\ Cardinality(T \ {x}) = Cardinality(T) - 1
  BY <1>1, FS_RemoveElement
<1>3. Cardinality(T) \in Nat /\ Cardinality(T) # 0
  BY <1>1, FS_CardinalityType, FS_EmptySet
<1> QED BY <1>1, <1>2, <1>3

\* sum is what SumFunction computes on the way, for each part of the domain of w.
Sums(sum, w) ==
    sum = [T \in SUBSET DOMAIN w |-> IF T = {} THEN 0 ELSE w[First(T)] + sum[T \ {First(T)}]]

LEMMA SumUnfold ==
    ASSUME NEW w, IsFiniteSet(DOMAIN w)
    PROVE  \E sum : Sums(sum, w) /\ SumFunction(w) = sum[DOMAIN w]
<1> DEFINE D == DOMAIN w
           Run(f, m) == \A T \in SUBSET D : Cardinality(T) <= m =>
                           f[T] = IF T = {} THEN 0 ELSE w[First(T)] + f[T \ {First(T)}]
           Q == {m \in Nat : \E f : Run(f, m)}
<1>1. 0 \in Q
  <2>1. ASSUME NEW T \in SUBSET D, Cardinality(T) <= 0 PROVE T = {}
    <3>1. IsFiniteSet(T) /\ Cardinality(T) \in Nat
      BY FS_Subset, FS_CardinalityType
    <3> QED BY <2>1, <3>1, FS_EmptySet
  <2>2. Run([T \in SUBSET D |-> 0], 0)
    BY <2>1
  <2> QED BY <2>2
<1>2. ASSUME NEW m \in Nat, m \in Q PROVE m + 1 \in Q
  <2>1. PICK f : Run(f, m)
    BY <1>2
  <2> DEFINE g == [T \in SUBSET D |-> IF Cardinality(T) <= m THEN f[T]
                                      ELSE w[First(T)] + f[T \ {First(T)}]]
  <2>2. ASSUME NEW T \in SUBSET D, Cardinality(T) <= m + 1
        PROVE  g[T] = IF T = {} THEN 0 ELSE w[First(T)] + g[T \ {First(T)}]
    <3>1. CASE T = {}
      <4>1. Cardinality(T) <= m
        BY <3>1, FS_EmptySet
      <4> QED BY <2>1, <3>1, <4>1
    <3>2. CASE T # {}
      <4> DEFINE x == First(T)
      <4>1. x \in T
        BY <3>2 DEF First
      <4> HIDE DEF x
      <4>2. T \ {x} \in SUBSET D /\ Cardinality(T \ {x}) <= m
        BY <2>2, <4>1, Removed
      <4>3. g[T \ {x}] = f[T \ {x}]
        BY <4>2
      <4>4. g[T] = w[x] + f[T \ {x}]
        BY <2>1, <3>2 DEF x
      <4> QED BY <3>2, <4>3, <4>4 DEF x
    <3> QED BY <3>1, <3>2
  <2> HIDE DEF g
  <2>3. Run(g, m + 1)
    BY <2>2
  <2> HIDE DEF Run
  <2> QED BY <2>3
<1>3. Nat \subseteq Q
  <2> HIDE DEF Q
  <2> QED BY <1>1, <1>2, NatSetInduction
<1>4. Cardinality(D) \in Nat
  BY FS_CardinalityType
<1>5. PICK f : Run(f, Cardinality(D))
  BY <1>3, <1>4
<1> DEFINE g == [T \in SUBSET D |-> f[T]]
<1>6. Sums(g, w)
  <2>1. ASSUME NEW T \in SUBSET D
        PROVE  f[T] = IF T = {} THEN 0 ELSE w[First(T)] + g[T \ {First(T)}]
    <3>1. Cardinality(T) <= Cardinality(D)
      BY FS_Subset
    <3> QED BY <1>5, <3>1
  <2> QED BY <2>1 DEF Sums
<1>7. Sums(CHOOSE sum : Sums(sum, w), w)
  <2> HIDE DEF g
  <2> QED BY <1>6
<1>8. SumFunction(w) = (CHOOSE sum : Sums(sum, w))[DOMAIN w]
  BY DEF SumFunction, SumFunctionOnSet, FoldFunctionOnSet, MapThenFoldSet, Sums, First
<1> QED BY <1>7, <1>8

\* A function that adds up, unfolded once.
Adds(sum, w, D) ==
    /\ sum[{}] = 0
    /\ \A T \in SUBSET D : sum[T] \in Nat
    /\ \A T \in SUBSET D : T # {} => sum[T] = w[First(T)] + sum[T \ {First(T)}]

LEMMA SumsFacts ==
    ASSUME NEW D, IsFiniteSet(D), NEW w \in [D -> Nat], NEW sum, Sums(sum, w)
    PROVE  Adds(sum, w, D)
<1>1. D = DOMAIN w
  OBVIOUS
<1>2. sum[{}] = 0
  BY <1>1 DEF Sums
<1>7. ASSUME NEW T \in SUBSET D, T # {} PROVE sum[T] = w[First(T)] + sum[T \ {First(T)}]
  BY <1>1, <1>7 DEF Sums
<1> DEFINE Q == {n \in Nat : \A T \in SUBSET D : Cardinality(T) = n => sum[T] \in Nat}
<1>3. 0 \in Q
  <2>1. ASSUME NEW T \in SUBSET D, Cardinality(T) = 0 PROVE T = {}
    BY <2>1, FS_Subset, FS_EmptySet
  <2> QED BY <1>2, <2>1
<1>4. ASSUME NEW n \in Nat, n \in Q PROVE n + 1 \in Q
  <2> SUFFICES ASSUME NEW T \in SUBSET D, Cardinality(T) = n + 1 PROVE sum[T] \in Nat
    OBVIOUS
  <2>1. T # {}
    BY FS_EmptySet
  <2>2. First(T) \in T
    BY <2>1 DEF First
  <2>3. T \ {First(T)} \in SUBSET D /\ Cardinality(T \ {First(T)}) = n
    <3>1. T \ {First(T)} \in SUBSET D /\ Cardinality(T \ {First(T)}) = (n + 1) - 1
      BY <2>2, Removed
    <3> QED BY <3>1
  <2>4. sum[T \ {First(T)}] \in Nat /\ w[First(T)] \in Nat
    BY <1>4, <2>2, <2>3
  <2>5. sum[T] = w[First(T)] + sum[T \ {First(T)}]
    BY <1>7, <2>1
  <2> QED BY <2>4, <2>5
<1>5. Nat \subseteq Q
  <2> HIDE DEF Q
  <2> QED BY <1>3, <1>4, NatSetInduction
<1>6. \A T \in SUBSET D : Cardinality(T) \in Nat
  BY FS_Subset, FS_CardinalityType
<1> QED BY <1>2, <1>7, <1>5, <1>6 DEF Adds

\* The order of the summands does not matter.
LEMMA SumsSplit ==
    ASSUME NEW D, IsFiniteSet(D), NEW w \in [D -> Nat], NEW sum, Sums(sum, w)
    PROVE  \A T \in SUBSET D : \A x \in T : sum[T] = w[x] + sum[T \ {x}]
<1> DEFINE Q == {n \in Nat : \A T \in SUBSET D : \A x \in T :
                                Cardinality(T) = n => sum[T] = w[x] + sum[T \ {x}]}
<1>0. \A T \in SUBSET D :
         sum[T] \in Nat /\ (T # {} => sum[T] = w[First(T)] + sum[T \ {First(T)}])
  <2>1. Adds(sum, w, D)
    BY SumsFacts
  <2> QED BY <2>1 DEF Adds
<1>1. 0 \in Q
  <2>1. ASSUME NEW T \in SUBSET D, Cardinality(T) = 0 PROVE T = {}
    BY <2>1, FS_Subset, FS_EmptySet
  <2> QED BY <2>1
<1>2. ASSUME NEW n \in Nat, n \in Q PROVE n + 1 \in Q
  <2> SUFFICES ASSUME NEW T \in SUBSET D, NEW x \in T, Cardinality(T) = n + 1
               PROVE  sum[T] = w[x] + sum[T \ {x}]
    OBVIOUS
  <2> DEFINE y == First(T)
  <2>1. y \in T
    BY DEF First
  <2>2. sum[T] = w[y] + sum[T \ {y}]
    <3>1. T # {}
      OBVIOUS
    <3> QED BY <1>0, <3>1
  <2> HIDE DEF y
  <2>3. CASE x = y
    BY <2>2, <2>3
  <2>4. CASE x # y
    <3>1. T \ {y} \in SUBSET D /\ Cardinality(T \ {y}) = n /\ x \in T \ {y}
      <4>1. T \ {y} \in SUBSET D /\ Cardinality(T \ {y}) = (n + 1) - 1
        BY <2>1, Removed
      <4> QED BY <2>1, <2>4, <4>1
    <3>2. T \ {x} \in SUBSET D /\ Cardinality(T \ {x}) = n /\ y \in T \ {x}
      <4>1. T \ {x} \in SUBSET D /\ Cardinality(T \ {x}) = (n + 1) - 1
        <5> HIDE DEF Q
        <5> QED BY Removed
      <4> QED BY <2>1, <2>4, <4>1
    <3>3. sum[T \ {y}] = w[x] + sum[(T \ {y}) \ {x}]
      BY <1>2, <3>1
    <3>4. sum[T \ {x}] = w[y] + sum[(T \ {x}) \ {y}]
      BY <1>2, <3>2
    <3>5. (T \ {y}) \ {x} = (T \ {x}) \ {y} /\ (T \ {y}) \ {x} \in SUBSET D
      OBVIOUS
    <3>6. sum[(T \ {y}) \ {x}] \in Nat /\ w[x] \in Nat /\ w[y] \in Nat
      BY <1>0, <2>1, <3>5
    <3> QED BY <2>2, <3>3, <3>4, <3>5, <3>6
  <2> QED BY <2>3, <2>4
<1>3. Nat \subseteq Q
  <2> HIDE DEF Q
  <2> QED BY <1>1, <1>2, NatSetInduction
<1>4. \A T \in SUBSET D : Cardinality(T) \in Nat
  BY FS_Subset, FS_CardinalityType
<1> QED BY <1>3, <1>4

\* Sums over a part of a domain agree with sums over the whole.
LEMMA SumsAgree ==
    ASSUME NEW D, IsFiniteSet(D), NEW w \in [D -> Nat], NEW sum, Sums(sum, w),
           NEW E \in SUBSET D, NEW v \in [E -> Nat], \A x \in E : v[x] = w[x],
           NEW part, Sums(part, v)
    PROVE  \A T \in SUBSET E : part[T] = sum[T]
<1>0. IsFiniteSet(E)
  BY FS_Subset
<1>5. sum[{}] = 0 /\ \A T \in SUBSET D : T # {} => sum[T] = w[First(T)] + sum[T \ {First(T)}]
  <2>1. Adds(sum, w, D)
    BY SumsFacts
  <2> QED BY <2>1 DEF Adds
<1>6. part[{}] = 0 /\ \A T \in SUBSET E : T # {} => part[T] = v[First(T)] + part[T \ {First(T)}]
  <2>1. Adds(part, v, E)
    BY <1>0, SumsFacts
  <2> QED BY <2>1 DEF Adds
<1> DEFINE Q == {n \in Nat : \A T \in SUBSET E : Cardinality(T) = n => part[T] = sum[T]}
<1>1. 0 \in Q
  <2>1. ASSUME NEW T \in SUBSET E, Cardinality(T) = 0 PROVE T = {}
    BY <1>0, <2>1, FS_Subset, FS_EmptySet
  <2>2. part[{}] = 0 /\ sum[{}] = 0
    BY <1>5, <1>6
  <2> QED BY <2>1, <2>2
<1>2. ASSUME NEW n \in Nat, n \in Q PROVE n + 1 \in Q
  <2> SUFFICES ASSUME NEW T \in SUBSET E, Cardinality(T) = n + 1 PROVE part[T] = sum[T]
    OBVIOUS
  <2>1. T # {}
    BY FS_EmptySet
  <2> DEFINE y == First(T)
  <2>2. y \in T
    BY <2>1 DEF First
  <2>3. part[T] = v[y] + part[T \ {y}]
    BY <1>6, <2>1
  <2>4. sum[T] = w[y] + sum[T \ {y}]
    BY <1>5, <2>1
  <2> HIDE DEF y
  <2>5. T \ {y} \in SUBSET E /\ Cardinality(T \ {y}) = n
    <3>1. T \ {y} \in SUBSET E /\ Cardinality(T \ {y}) = (n + 1) - 1
      BY <1>0, <2>2, Removed
    <3> QED BY <3>1
  <2> QED BY <1>2, <2>2, <2>3, <2>4, <2>5
<1>3. Nat \subseteq Q
  <2> HIDE DEF Q
  <2> QED BY <1>1, <1>2, NatSetInduction
<1>4. \A T \in SUBSET E : Cardinality(T) \in Nat
  BY <1>0, FS_Subset, FS_CardinalityType
<1> QED BY <1>3, <1>4

\* A sum is a natural number, 0 when there is nothing to add.
LEMMA SumType ==
    ASSUME NEW D, IsFiniteSet(D), NEW w \in [D -> Nat]
    PROVE  SumFunction(w) \in Nat /\ (D = {} => SumFunction(w) = 0)
<1>1. D = DOMAIN w
  OBVIOUS
<1>2. PICK sum : Sums(sum, w) /\ SumFunction(w) = sum[D]
  BY <1>1, SumUnfold
<1>3. sum[{}] = 0 /\ \A T \in SUBSET D : sum[T] \in Nat
  BY <1>2, SumsFacts DEF Adds
<1> QED BY <1>2, <1>3

\* The sum without one of its summands.
LEMMA SumWithout ==
    ASSUME NEW D, IsFiniteSet(D), NEW w \in [D -> Nat], NEW x \in D
    PROVE  SumFunction(w) = SumFunction([y \in D \ {x} |-> w[y]]) + w[x]
<1> DEFINE v == [y \in D \ {x} |-> w[y]]
<1>0. v \in [D \ {x} -> Nat] /\ \A y \in D \ {x} : v[y] = w[y]
  OBVIOUS
<1> HIDE DEF v
<1>1. D = DOMAIN w /\ D \ {x} = DOMAIN v /\ IsFiniteSet(D \ {x})
  BY <1>0, FS_Subset
<1>2. PICK sum : Sums(sum, w) /\ SumFunction(w) = sum[D]
  BY <1>1, SumUnfold
<1>3. PICK part : Sums(part, v) /\ SumFunction(v) = part[D \ {x}]
  BY <1>1, SumUnfold
<1>4. part[D \ {x}] = sum[D \ {x}]
  BY <1>0, <1>2, <1>3, SumsAgree
<1>5. sum[D] = w[x] + sum[D \ {x}]
  BY <1>2, SumsSplit
<1>6. sum[D \ {x}] \in Nat /\ w[x] \in Nat
  BY <1>2, SumsFacts DEF Adds
<1> QED BY <1>2, <1>3, <1>4, <1>5, <1>6 DEF v

(***************************************************************************)
(* Windows that grow.                                                      *)
(***************************************************************************)
\* A narrower window has no more in it.
LEMMA SelectNarrower ==
    ASSUME NEW S, NEW s \in Seq(S), NEW keep, NEW less, less \subseteq keep
    PROVE  Len(Select(s, less)) <= Len(Select(s, keep))
<1>1. Select(s, keep) \in Seq(S)
  BY SelectType
<1>2. Len(Select(Select(s, keep), less)) <= Len(Select(s, keep))
  BY <1>1, SelectType
<1> QED BY <1>2, SelectTwice

\* n stamps x put at the end of a window.
LEMMA SelectRepeated ==
    ASSUME NEW S, NEW s \in Seq(S), NEW x \in S, NEW n \in Nat, NEW keep
    PROVE  Len(Select(s \o [i \in 1..n |-> x], keep)) =
             Len(Select(s, keep)) + (IF x \in keep THEN n ELSE 0)
<1> DEFINE z(m) == s \o [i \in 1..m |-> x]
           Q == {m \in Nat : Len(Select(z(m), keep)) = Len(Select(s, keep)) + (IF x \in keep THEN m ELSE 0)}
<1>1. Select(s, keep) \in Seq(S) /\ Len(Select(s, keep)) \in Nat
  BY SelectType
<1>2. 0 \in Q
  <2>1. z(0) = s
    OBVIOUS
  <2> HIDE DEF z
  <2> QED BY <1>1, <2>1
<1>3. ASSUME NEW m \in Nat, m \in Q PROVE m + 1 \in Q
  <2>1. z(m) \in Seq(S)
    OBVIOUS
  <2>2. z(m + 1) = Append(z(m), x)
    OBVIOUS
  <2> HIDE DEF z
  <2>3. Select(z(m), keep) \in Seq(S)
    BY <2>1, SelectType
  <2>4. Select(z(m + 1), keep) = IF x \in keep THEN Append(Select(z(m), keep), x) ELSE Select(z(m), keep)
    <3>1. \A y \in Seq(S) : Select(Append(y, x), keep) =
                              IF x \in keep THEN Append(Select(y, keep), x) ELSE Select(y, keep)
      BY SelectAppend
    <3> QED BY <2>1, <2>2, <3>1, Zenon
  <2>5. Len(Append(Select(z(m), keep), x)) = Len(Select(z(m), keep)) + 1
    BY <2>3
  <2>6. Len(Select(z(m), keep)) = Len(Select(s, keep)) + (IF x \in keep THEN m ELSE 0)
    BY <1>3
  <2>7. CASE x \in keep
    <3>1. Len(Select(z(m + 1), keep)) = Len(Select(s, keep)) + (m + 1)
      BY <1>1, <2>4, <2>5, <2>6, <2>7
    <3> QED BY <2>7, <3>1
  <2>8. CASE x \notin keep
    <3>1. Len(Select(z(m + 1), keep)) = Len(Select(s, keep)) + 0
      BY <2>4, <2>6, <2>8
    <3> QED BY <2>8, <3>1
  <2> QED BY <2>7, <2>8
<1>4. n \in Q
  <2> HIDE DEF Q
  <2> QED BY <1>2, <1>3, NatSetInduction
<1> QED BY <1>4

(***************************************************************************)
(* Parts of a window.                                                      *)
(***************************************************************************)
\* Parts that have nothing in common fit into it together.
LEMMA SelectDisjoint ==
    ASSUME NEW S, NEW s \in Seq(S), NEW A, NEW B, A \cap B = {}
    PROVE  Len(Select(s, A)) + Len(Select(s, B)) <= Len(s)
<1> DEFINE P == {z \in Seq(S) : Len(Select(z, A)) + Len(Select(z, B)) <= Len(z)}
<1>1. <<>> \in P
  <2>1. <<>> \in Seq(S) /\ Len(<<>>) = 0
    OBVIOUS
  <2>2. Select(<<>>, A) = <<>> /\ Select(<<>>, B) = <<>>
    BY SelectEmpty
  <2> QED BY <2>1, <2>2
<1>2. ASSUME NEW z \in Seq(S), NEW x \in S, z \in P PROVE Append(z, x) \in P
  <2>1. Append(z, x) \in Seq(S) /\ Len(Append(z, x)) = Len(z) + 1 /\ Len(z) \in Nat
    OBVIOUS
  <2>2. Select(z, A) \in Seq(S) /\ Select(z, B) \in Seq(S)
    BY SelectType
  <2>3. /\ Len(Append(Select(z, A), x)) = Len(Select(z, A)) + 1 /\ Len(Select(z, A)) \in Nat
        /\ Len(Append(Select(z, B), x)) = Len(Select(z, B)) + 1 /\ Len(Select(z, B)) \in Nat
    BY <2>2
  <2>4. Select(Append(z, x), A) = IF x \in A THEN Append(Select(z, A), x) ELSE Select(z, A)
    BY SelectAppend
  <2>5. Select(Append(z, x), B) = IF x \in B THEN Append(Select(z, B), x) ELSE Select(z, B)
    BY SelectAppend
  <2>6. Len(Select(z, A)) + Len(Select(z, B)) <= Len(z)
    BY <1>2
  <2>7. Len(Select(Append(z, x), A)) + Len(Select(Append(z, x), B)) <= Len(z) + 1
    <3>1. CASE x \in A
      <4>1. x \notin B
        BY <3>1
      <4> QED BY <2>1, <2>3, <2>4, <2>5, <2>6, <3>1, <4>1
    <3>2. CASE x \notin A
      BY <2>1, <2>3, <2>4, <2>5, <2>6, <3>2
    <3> QED BY <3>1, <3>2
  <2> QED BY <2>1, <2>7
<1>3. Seq(S) \subseteq P
  <2> HIDE DEF P
  <2> QED BY <1>1, <1>2, SeqSetInduction
<1> QED BY <1>3

\* Trimming a window does not put more into a part of it.
LEMMA SelectTrimmed ==
    ASSUME NEW S, NEW s \in Seq(S), NEW A, NEW B
    PROVE  Len(Select(Select(s, A), B)) <= Len(Select(s, B))
<1> DEFINE P == {z \in Seq(S) : Len(Select(Select(z, A), B)) <= Len(Select(z, B))}
<1>1. <<>> \in P
  <2>1. <<>> \in Seq(S) /\ Len(<<>>) = 0
    OBVIOUS
  <2>2. Select(<<>>, A) = <<>> /\ Select(<<>>, B) = <<>>
    BY SelectEmpty
  <2> QED BY <2>1, <2>2
<1>2. ASSUME NEW z \in Seq(S), NEW x \in S, z \in P PROVE Append(z, x) \in P
  <2>1. Append(z, x) \in Seq(S)
    OBVIOUS
  <2>2. Select(z, A) \in Seq(S) /\ Select(z, B) \in Seq(S)
    BY SelectType
  <2>3. Select(Select(z, A), B) \in Seq(S)
    BY <2>2, SelectType
  <2>4. /\ Len(Append(Select(Select(z, A), B), x)) = Len(Select(Select(z, A), B)) + 1
        /\ Len(Append(Select(z, B), x)) = Len(Select(z, B)) + 1
        /\ Len(Select(Select(z, A), B)) \in Nat /\ Len(Select(z, B)) \in Nat
    BY <2>2, <2>3
  <2>5. Select(Append(z, x), A) = IF x \in A THEN Append(Select(z, A), x) ELSE Select(z, A)
    BY SelectAppend
  <2>6. Select(Append(z, x), B) = IF x \in B THEN Append(Select(z, B), x) ELSE Select(z, B)
    BY SelectAppend
  <2>7. Select(Append(Select(z, A), x), B) =
          IF x \in B THEN Append(Select(Select(z, A), B), x) ELSE Select(Select(z, A), B)
    BY <2>2, SelectAppend
  <2>8. Len(Select(Select(z, A), B)) <= Len(Select(z, B))
    BY <1>2
  <2>9. Len(Select(Select(Append(z, x), A), B)) <= Len(Select(Append(z, x), B))
    BY <2>4, <2>5, <2>6, <2>7, <2>8
  <2> QED BY <2>1, <2>9
<1>3. Seq(S) \subseteq P
  <2> HIDE DEF P
  <2> QED BY <1>1, <1>2, SeqSetInduction
<1> QED BY <1>3

\* The first element is in the window.
LEMMA HeadSelected ==
    ASSUME NEW S, NEW s \in Seq(S), Len(s) > 0
    PROVE  Len(Select(s, {Head(s)})) >= 1
<1> DEFINE P == {z \in Seq(S) : Len(z) > 0 => Len(Select(z, {z[1]})) >= 1}
<1>1. <<>> \in P
  <2>1. <<>> \in Seq(S) /\ Len(<<>>) = 0
    OBVIOUS
  <2> QED BY <2>1
<1>2. ASSUME NEW z \in Seq(S), NEW x \in S, z \in P PROVE Append(z, x) \in P
  <2> DEFINE h == Append(z, x)[1]
  <2>1. Append(z, x) \in Seq(S) /\ Len(z) \in Nat
    OBVIOUS
  <2>2. (Len(z) = 0 => h = x) /\ (Len(z) > 0 => h = z[1])
    OBVIOUS
  <2> HIDE DEF h
  <2>3. Select(z, {h}) \in Seq(S)
    BY SelectType
  <2>4. Len(Append(Select(z, {h}), x)) = Len(Select(z, {h})) + 1 /\ Len(Select(z, {h})) \in Nat
    BY <2>3
  <2>5. Select(Append(z, x), {h}) = IF x \in {h} THEN Append(Select(z, {h}), x) ELSE Select(z, {h})
    BY SelectAppend
  <2>6. CASE Len(z) = 0
    <3>1. x \in {h}
      BY <2>2, <2>6
    <3>2. Len(Select(Append(z, x), {h})) >= 1
      BY <2>4, <2>5, <3>1
    <3> QED BY <2>1, <3>2 DEF h
  <2>7. CASE Len(z) > 0
    <3>1. Len(Select(z, {h})) >= 1
      BY <1>2, <2>2, <2>7
    <3>2. Len(Select(Append(z, x), {h})) >= 1
      BY <2>4, <2>5, <3>1
    <3> QED BY <2>1, <3>2 DEF h
  <2> QED BY <2>1, <2>6, <2>7
<1>3. Seq(S) \subseteq P
  <2> HIDE DEF P
  <2> QED BY <1>1, <1>2, SeqSetInduction
<1>4. Head(s) = s[1]
  OBVIOUS
<1> QED BY <1>3, <1>4

\* A window of nothing but fresh stamps is kept as it is.
LEMMA SelectAll ==
    ASSUME NEW keep, NEW s \in Seq(keep)
    PROVE  Select(s, keep) = s
<1> DEFINE P == {z \in Seq(keep) : Select(z, keep) = z}
<1>1. <<>> \in P
  <2>1. <<>> \in Seq(keep)
    OBVIOUS
  <2> QED BY <2>1, SelectEmpty
<1>2. ASSUME NEW z \in Seq(keep), NEW x \in keep, z \in P PROVE Append(z, x) \in P
  <2>1. Append(z, x) \in Seq(keep) /\ Select(z, keep) = z
    BY <1>2
  <2>2. Select(Append(z, x), keep) = Append(Select(z, keep), x)
    BY SelectAppend
  <2> QED BY <2>1, <2>2
<1>3. Seq(keep) \subseteq P
  <2> HIDE DEF P
  <2> QED BY <1>1, <1>2, SeqSetInduction
<1> QED BY <1>3
=============================================================================
