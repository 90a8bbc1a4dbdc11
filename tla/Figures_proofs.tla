------------------------- MODULE Figures_proofs -------------------------
(***************************************************************************)
(* Facts about the figures of a sequence, on which the proofs of the       *)
(* programs rest: the sum that the library folds over the positions of a   *)
(* sequence grows by what is appended, whatever the order of the fold, and *)
(* the members of a finite set are put in rising order.                    *)
(***************************************************************************)
EXTENDS Figures, FiniteSetTheorems, SequenceTheorems, WellFoundedInduction, TLAPS

-------------------------------------------------------------------------
(* The extremes of a bounded set of integers.                              *)

\* A nonempty set of numbers has a least one.
LEMMA LeastNat ==
    ASSUME NEW T \in SUBSET Nat, T # {}
    PROVE  \E x \in T : \A y \in T : x <= y
<1>1. PICK x \in T : \A y \in T : ~(<<y, x>> \in OpToRel(<, Nat))
  BY WFMin, NatLessThanWellFounded
<1>2. \A y \in T : <<y, x>> \in Nat \X Nat
  OBVIOUS
<1>3. \A y \in T : ~(y < x)
  BY <1>1, <1>2, Zenon DEF OpToRel
<1> QED
  BY <1>3

\* The maximum of a set with an upper bound is in the set.
LEMMA MaxIn ==
    ASSUME NEW S \in SUBSET Int, S # {}, NEW b \in Int, \A x \in S : x <= b
    PROVE  Max(S) \in S /\ \A x \in S : x <= Max(S)
<1> DEFINE T == {b - x : x \in S}
<1>1. T \in SUBSET Nat /\ T # {}
  <2>1. \A x \in S : b - x \in Nat
    OBVIOUS
  <2> QED
    BY <2>1
<1>2. PICK y \in T : \A z \in T : y <= z
  BY <1>1, LeastNat
<1>3. PICK x \in S : y = b - x
  BY <1>2
<1>4. \A z \in S : b - z \in T
  OBVIOUS
<1>5. \A z \in S : x >= z
  <2> SUFFICES ASSUME NEW z \in S PROVE x >= z
    OBVIOUS
  <2>1. b - x <= b - z
    BY <1>2, <1>3, <1>4
  <2> QED
    BY <2>1
<1> QED
  BY <1>5 DEF Max

\* The minimum of a set with a lower bound is in the set.
LEMMA MinIn ==
    ASSUME NEW S \in SUBSET Int, S # {}, NEW b \in Int, \A x \in S : b <= x
    PROVE  Min(S) \in S /\ \A x \in S : Min(S) <= x
<1> DEFINE T == {x - b : x \in S}
<1>1. T \in SUBSET Nat /\ T # {}
  <2>1. \A x \in S : x - b \in Nat
    OBVIOUS
  <2> QED
    BY <2>1
<1>2. PICK y \in T : \A z \in T : y <= z
  BY <1>1, LeastNat
<1>3. PICK x \in S : y = x - b
  BY <1>2
<1>4. \A z \in S : z - b \in T
  OBVIOUS
<1>5. \A z \in S : x <= z
  <2> SUFFICES ASSUME NEW z \in S PROVE x <= z
    OBVIOUS
  <2>1. x - b <= z - b
    BY <1>2, <1>3, <1>4
  <2> QED
    BY <2>1
<1> QED
  BY <1>5 DEF Min

\* A set of numbers that has 0, and with a number its successor, has them all.
LEMMA Inductive ==
    ASSUME NEW S, 0 \in S, \A n \in Nat : n \in S => n + 1 \in S
    PROVE  Nat \subseteq S
<1> SUFFICES ASSUME Nat \ S # {} PROVE FALSE
  OBVIOUS
<1>1. PICK x \in Nat \ S : \A y \in Nat \ S : x <= y
  BY LeastNat
<1>2. x # 0 /\ x - 1 \in Nat /\ x - 1 \in S
  BY <1>1
<1> QED
  BY <1>1, <1>2

-------------------------------------------------------------------------
(* Sequences.                                                              *)

\* The members of a sequence.
LEMMA MembersOf ==
    ASSUME NEW R, NEW s \in Seq(R)
    PROVE  \A i \in DOMAIN s : s[i] \in R
OBVIOUS

\* A sequence of members of a set is one of members of a larger set.
LEMMA LargerSeq ==
    ASSUME NEW R, NEW Q, R \subseteq Q, NEW s \in Seq(R)
    PROVE  s \in Seq(Q)
OBVIOUS

\* A function of the first numbers is a sequence.
LEMMA FunctionIsSeq ==
    ASSUME NEW R, NEW n \in Nat, NEW f \in [1..n -> R]
    PROVE  f \in Seq(R) /\ Len(f) = n
OBVIOUS

\* The members of two sequences, n of s and then m of t.
Joined(R, n, m, u, s, t) ==
    /\ u \in Seq(R) /\ DOMAIN u = 1..n + m /\ Len(u) = n + m
    /\ \A i \in 1..n : i \in DOMAIN u /\ u[i] = s[i]
    /\ \A i \in 1..m : n + i \in DOMAIN u /\ u[n + i] = t[i]
    /\ \A k \in DOMAIN u : k \in 1..n \/ (k - n \in 1..m /\ u[k] = t[k - n])

\* The members of two sequences, one after the other.
LEMMA ConcatIs ==
    ASSUME NEW R, NEW s \in Seq(R), NEW t \in Seq(R), NEW u, u = s \o t,
           NEW n \in Nat, NEW m \in Nat, n = Len(s), m = Len(t)
    PROVE  Joined(R, n, m, u, s, t)
BY DEF Joined

\* Append adds a last element.
LEMMA Appended ==
    ASSUME NEW S, NEW s \in Seq(S), NEW e
    PROVE  /\ Append(s, e) \in Seq(S \cup {e}) /\ Append(s, e) # <<>>
           /\ Append(s, e)[Len(Append(s, e))] = e
<1>1. s \in Seq(S \cup {e})
  OBVIOUS
<1> QED
  BY <1>1

-------------------------------------------------------------------------
(* The sum of a function over a finite set of its arguments.               *)

Picked(S) == CHOOSE x \in S : TRUE
SetSums(f) ==
    CHOOSE sum : sum = [S \in SUBSET DOMAIN f |->
                           IF S = {} THEN 0 ELSE f[Picked(S)] + sum[S \ {Picked(S)}]]

\* The sum of a sequence is that of its positions.
LEMMA SumSeqIs ==
    ASSUME NEW s
    PROVE  SumSeq(s) = SetSums(s)[DOMAIN s]
BY DEF SumSeq, FoldSeq, FoldFunction, FoldFunctionOnSet, MapThenFoldSet, SetSums, Picked

\* The recursive definition of the sums has a solution.
LEMMA SetSumsExist ==
    ASSUME NEW f, IsFiniteSet(DOMAIN f)
    PROVE  SetSums(f) = [S \in SUBSET DOMAIN f |->
               IF S = {} THEN 0 ELSE f[Picked(S)] + SetSums(f)[S \ {Picked(S)}]]
<1> DEFINE D == DOMAIN f
           Step(g, S) == IF S = {} THEN 0 ELSE f[Picked(S)] + g[S \ {Picked(S)}]
           Good(g, n) == \A S \in SUBSET D : Cardinality(S) <= n => g[S] = Step(g, S)
           Made == {n \in Nat : \E g : g = [S \in SUBSET D |-> g[S]] /\ Good(g, n)}
<1>1. \A S \in SUBSET D : IsFiniteSet(S) /\ Cardinality(S) \in Nat
  BY FS_Subset, FS_CardinalityType
<1>2. \A S \in SUBSET D : S # {} => /\ Picked(S) \in S /\ S \ {Picked(S)} \in SUBSET D
                                    /\ Cardinality(S \ {Picked(S)}) = Cardinality(S) - 1
  BY <1>1, FS_RemoveElement DEF Picked
<1>3. 0 \in Made
  <2> DEFINE g == [S \in SUBSET D |-> 0]
  <2>1. Good(g, 0)
    BY <1>1, FS_EmptySet
  <2> QED
    BY <2>1
<1>4. ASSUME NEW n \in Nat, n \in Made PROVE n + 1 \in Made
  <2>1. PICK g : g = [S \in SUBSET D |-> g[S]] /\ Good(g, n)
    BY <1>4
  <2> DEFINE h == [S \in SUBSET D |-> Step(g, S)]
  <2>2. ASSUME NEW S \in SUBSET D, Cardinality(S) <= n + 1 PROVE h[S] = Step(h, S)
    <3>1. CASE S = {}
      BY <3>1
    <3>2. CASE S # {}
      <4>1. S \ {Picked(S)} \in SUBSET D /\ Cardinality(S \ {Picked(S)}) <= n
        BY <1>1, <1>2, <2>2, <3>2
      <4>2. g[S \ {Picked(S)}] = h[S \ {Picked(S)}]
        BY <2>1, <4>1
      <4> QED
        BY <3>2, <4>2
    <3> QED
      BY <3>1, <3>2
  <2>3. Good(h, n + 1)
    BY <2>2
  <2>4. h = [S \in SUBSET D |-> h[S]]
    OBVIOUS
  <2> HIDE DEF h, Good
  <2> QED
    BY <2>3, <2>4
<1>5. Cardinality(D) \in Made
  <2> HIDE DEF Made
  <2> QED
    BY <1>1, <1>3, <1>4, Inductive
<1>6. PICK g : g = [S \in SUBSET D |-> g[S]] /\ Good(g, Cardinality(D))
  BY <1>5
<1>7. \A S \in SUBSET D : Cardinality(S) <= Cardinality(D)
  BY FS_Subset
<1>8. g = [S \in SUBSET D |-> Step(g, S)]
  BY <1>6, <1>7
<1> QED
  BY <1>8, Zenon DEF SetSums

\* What the sums of integers satisfy, one set at a time.
LEMMA SetSumsAre ==
    ASSUME NEW D, IsFiniteSet(D), NEW f \in [D -> Int]
    PROVE  /\ SetSums(f)[{}] = 0
           /\ \A S \in SUBSET D : SetSums(f)[S] \in Int
           /\ \A S \in SUBSET D : S # {} =>
                 SetSums(f)[S] = f[Picked(S)] + SetSums(f)[S \ {Picked(S)}]
<1> DEFINE F == SetSums(f)
           Typed == {n \in Nat : \A S \in SUBSET D : Cardinality(S) = n => F[S] \in Int}
<1>1. F = [S \in SUBSET D |-> IF S = {} THEN 0 ELSE f[Picked(S)] + F[S \ {Picked(S)}]]
  BY SetSumsExist
<1> HIDE DEF F
<1>2. F[{}] = 0
  BY <1>1
<1>3. \A S \in SUBSET D : S # {} => F[S] = f[Picked(S)] + F[S \ {Picked(S)}]
  BY <1>1
<1>4. \A S \in SUBSET D : IsFiniteSet(S) /\ Cardinality(S) \in Nat
  BY FS_Subset, FS_CardinalityType
<1>5. \A S \in SUBSET D : S # {} => /\ Picked(S) \in D /\ S \ {Picked(S)} \in SUBSET D
                                    /\ Cardinality(S \ {Picked(S)}) = Cardinality(S) - 1
  BY <1>4, FS_RemoveElement DEF Picked
<1>6. 0 \in Typed
  BY <1>2, <1>4, FS_EmptySet
<1>7. ASSUME NEW n \in Nat, n \in Typed PROVE n + 1 \in Typed
  <2> SUFFICES ASSUME NEW S \in SUBSET D, Cardinality(S) = n + 1 PROVE F[S] \in Int
    OBVIOUS
  <2>1. S # {}
    BY FS_EmptySet
  <2>2. F[S \ {Picked(S)}] \in Int
    BY <1>5, <1>7, <2>1
  <2> QED
    BY <1>3, <1>5, <2>1, <2>2
<1>8. Nat \subseteq Typed
  <2> HIDE DEF Typed
  <2> QED
    BY <1>6, <1>7, Inductive
<1>9. \A S \in SUBSET D : F[S] \in Int
  BY <1>4, <1>8
<1> QED
  BY <1>2, <1>3, <1>9 DEF F

\* The order in which the fold takes the arguments does not matter.
LEMMA SetSumsAdd ==
    ASSUME NEW D, IsFiniteSet(D), NEW f \in [D -> Int]
    PROVE  \A S \in SUBSET D : \A x \in D \ S :
              SetSums(f)[S \cup {x}] = f[x] + SetSums(f)[S]
<1> DEFINE F == SetSums(f)
           Added == {n \in Nat : \A S \in SUBSET D : \A x \in D \ S :
                        Cardinality(S) = n => F[S \cup {x}] = f[x] + F[S]}
<1>1. /\ F[{}] = 0
      /\ \A S \in SUBSET D : F[S] \in Int
      /\ \A S \in SUBSET D : S # {} => F[S] = f[Picked(S)] + F[S \ {Picked(S)}]
  BY SetSumsAre
<1> HIDE DEF F
<1>2. \A S \in SUBSET D : IsFiniteSet(S) /\ Cardinality(S) \in Nat
  BY FS_Subset, FS_CardinalityType
<1>3. \A S \in SUBSET D : S # {} => Picked(S) \in S
  BY DEF Picked
<1>4. 0 \in Added
  <2> SUFFICES ASSUME NEW S \in SUBSET D, NEW x \in D \ S, Cardinality(S) = 0
               PROVE  F[S \cup {x}] = f[x] + F[S]
    OBVIOUS
  <2>1. S = {} /\ S \cup {x} = {x} /\ {x} \ {x} = {}
    BY <1>2, FS_EmptySet
  <2>2. Picked({x}) = x
    BY DEF Picked
  <2>3. F[{x}] = f[x] + F[{}]
    BY <1>1, <2>1, <2>2
  <2> QED
    BY <2>1, <2>3
<1>5. ASSUME NEW n \in Nat, n \in Added PROVE n + 1 \in Added
  <2> SUFFICES ASSUME NEW S \in SUBSET D, NEW x \in D \ S, Cardinality(S) = n + 1
               PROVE  F[S \cup {x}] = f[x] + F[S]
    OBVIOUS
  <2> DEFINE U == S \cup {x}
             c == Picked(U)
             R == S \ {c}
  <2>1. U \in SUBSET D /\ U # {} /\ c \in U /\ F[U] = f[c] + F[U \ {c}]
    BY <1>1, <1>3
  <2>2. CASE c = x
    <3>1. U \ {c} = S
      BY <2>2
    <3> QED
      BY <2>1, <2>2, <3>1
  <2>3. CASE c # x
    <3>1. c \in S /\ R \in SUBSET D /\ x \in D \ R /\ c \in D \ R
      BY <2>1, <2>3
    <3>2. U \ {c} = R \cup {x} /\ R \cup {c} = S
      BY <2>3, <3>1
    <3>3. Cardinality(R) = n
      <4>1. IsFiniteSet(S) /\ c \in S
        BY <1>2, <3>1
      <4> HIDE DEF c
      <4>2. Cardinality(S \ {c}) = Cardinality(S) - 1
        BY <4>1, FS_RemoveElement
      <4> QED
        BY <4>2
    <3>4. F[R \cup {x}] = f[x] + F[R] /\ F[R \cup {c}] = f[c] + F[R]
      BY <1>5, <3>1, <3>3
    <3>5. F[R] \in Int /\ f[c] \in Int /\ f[x] \in Int
      BY <1>1, <3>1
    <3>6. F[U] = f[c] + F[R \cup {x}] /\ F[S] = f[c] + F[R]
      BY <2>1, <3>2, <3>4
    <3> HIDE DEF U, c, R
    <3>7. F[U] = f[x] + F[S]
      BY <3>4, <3>5, <3>6
    <3> QED
      BY <3>7 DEF U
  <2> QED
    BY <2>2, <2>3
<1>6. Nat \subseteq Added
  <2> HIDE DEF Added
  <2> QED
    BY <1>4, <1>5, Inductive
<1>7. \A S \in SUBSET D : \A x \in D \ S : F[S \cup {x}] = f[x] + F[S]
  BY <1>2, <1>6
<1> QED
  BY <1>7 DEF F

\* The sum depends on nothing but the values at the arguments that it is over.
LEMMA SetSumsAgree ==
    ASSUME NEW D, IsFiniteSet(D), NEW f \in [D -> Int],
           NEW E, IsFiniteSet(E), NEW g \in [E -> Int],
           NEW A \in SUBSET (D \cap E), \A x \in A : f[x] = g[x]
    PROVE  SetSums(f)[A] = SetSums(g)[A]
<1> DEFINE F == SetSums(f)
           G == SetSums(g)
           Same == {n \in Nat : \A S \in SUBSET A : Cardinality(S) = n => F[S] = G[S]}
<1>1. /\ F[{}] = 0
      /\ \A S \in SUBSET A : S # {} => F[S] = f[Picked(S)] + F[S \ {Picked(S)}]
  <2>1. F[{}] = 0 /\ \A S \in SUBSET D :
            S # {} => F[S] = f[Picked(S)] + F[S \ {Picked(S)}]
    BY SetSumsAre
  <2> HIDE DEF F
  <2>2. \A S \in SUBSET A : S \in SUBSET D
    OBVIOUS
  <2> QED
    BY <2>1, <2>2
<1>2. /\ G[{}] = 0
      /\ \A S \in SUBSET A : S # {} => G[S] = g[Picked(S)] + G[S \ {Picked(S)}]
  <2>1. G[{}] = 0 /\ \A S \in SUBSET E :
            S # {} => G[S] = g[Picked(S)] + G[S \ {Picked(S)}]
    BY SetSumsAre
  <2> HIDE DEF G
  <2>2. \A S \in SUBSET A : S \in SUBSET E
    OBVIOUS
  <2> QED
    BY <2>1, <2>2
<1> HIDE DEF F, G
<1>3. IsFiniteSet(A)
  BY FS_Subset
<1>4. \A S \in SUBSET A : IsFiniteSet(S) /\ Cardinality(S) \in Nat
  BY <1>3, FS_Subset, FS_CardinalityType
<1>5. 0 \in Same
  BY <1>1, <1>2, <1>4, FS_EmptySet
<1>6. ASSUME NEW n \in Nat, n \in Same PROVE n + 1 \in Same
  <2> SUFFICES ASSUME NEW S \in SUBSET A, Cardinality(S) = n + 1 PROVE F[S] = G[S]
    OBVIOUS
  <2>1. S # {} /\ IsFiniteSet(S)
    BY <1>4, FS_EmptySet
  <2>2. Picked(S) \in S
    BY <2>1 DEF Picked
  <2>3. Cardinality(S \ {Picked(S)}) = n /\ S \ {Picked(S)} \in SUBSET A
    <3>1. Cardinality(S \ {Picked(S)}) = Cardinality(S) - 1
      BY <2>1, <2>2, FS_RemoveElement
    <3> QED
      BY <3>1
  <2>4. F[S \ {Picked(S)}] = G[S \ {Picked(S)}]
    BY <1>6, <2>3
  <2> QED
    BY <1>1, <1>2, <2>1, <2>2, <2>4
<1>7. Nat \subseteq Same
  <2> HIDE DEF Same
  <2> QED
    BY <1>5, <1>6, Inductive
<1> QED
  BY <1>3, <1>4, <1>7 DEF F, G

-------------------------------------------------------------------------
(* The sum of a sequence.                                                  *)

\* The sum of no results is zero.
LEMMA SumEmpty == SumSeq(<<>>) = 0
<1>1. << >> \in [{} -> Int] /\ DOMAIN << >> = {}
  OBVIOUS
<1> QED
  BY <1>1, SumSeqIs, SetSumsAre, FS_EmptySet

\* The positions of a sequence.
LEMMA Positions ==
    ASSUME NEW s \in Seq(Int)
    PROVE  /\ s \in [1..Len(s) -> Int] /\ DOMAIN s = 1..Len(s) /\ Len(s) \in Nat
           /\ IsFiniteSet(1..Len(s))
BY FS_Interval

\* The sum of integers is one.
LEMMA SumType ==
    ASSUME NEW s \in Seq(Int)
    PROVE  SumSeq(s) \in Int
BY Positions, SumSeqIs, SetSumsAre

\* A result appended adds itself to the sum.
LEMMA SumAppend ==
    ASSUME NEW s \in Seq(Int), NEW e \in Int
    PROVE  SumSeq(Append(s, e)) = SumSeq(s) + e
<1> DEFINE t == Append(s, e)
           n == Len(s)
<1>1. t \in Seq(Int) /\ Len(t) = n + 1 /\ t[n + 1] = e /\ \A i \in 1..n : t[i] = s[i]
  OBVIOUS
<1>2. n \in Nat /\ 1..n + 1 = 1..n \cup {n + 1} /\ n + 1 \notin 1..n
  BY Positions
<1>3. /\ s \in [1..n -> Int] /\ DOMAIN s = 1..n /\ IsFiniteSet(1..n)
      /\ t \in [1..n + 1 -> Int] /\ DOMAIN t = 1..n + 1 /\ IsFiniteSet(1..n + 1)
  BY <1>1, Positions
<1> HIDE DEF t, n
<1>4. SetSums(t)[1..n] = SetSums(s)[1..n]
  BY <1>1, <1>2, <1>3, SetSumsAgree
<1>5. SetSums(t)[1..n \cup {n + 1}] = t[n + 1] + SetSums(t)[1..n]
  <2>1. \A S \in SUBSET (1..n + 1) : \A x \in (1..n + 1) \ S :
            SetSums(t)[S \cup {x}] = t[x] + SetSums(t)[S]
    BY <1>3, SetSumsAdd
  <2>2. 1..n \in SUBSET (1..n + 1) /\ n + 1 \in (1..n + 1) \ (1..n)
    BY <1>2
  <2> QED
    BY <2>1, <2>2
<1>6. SetSums(s)[1..n] \in Int
  BY <1>3, SetSumsAre
<1>7. SumSeq(t) = SetSums(t)[1..n + 1] /\ SumSeq(s) = SetSums(s)[1..n]
  BY <1>3, SumSeqIs
<1>8. SumSeq(t) = SumSeq(s) + e
  <2>1. SumSeq(t) = e + SumSeq(s)
    BY <1>1, <1>2, <1>4, <1>5, <1>7, Zenon
  <2> QED
    BY <1>6, <1>7, <2>1
<1> QED
  BY <1>8 DEF t

\* The running sum grows by one result at a time.
LEMMA UpToAre ==
    ASSUME NEW s \in Seq(Int)
    PROVE  /\ UpTo(s, 0) = 0 /\ UpTo(s, Len(s)) = SumSeq(s)
           /\ \A i \in 0..Len(s) : UpTo(s, i) \in Int
           /\ \A i \in 1..Len(s) : s[i] \in Int /\ UpTo(s, i) = UpTo(s, i - 1) + s[i]
<1>1. SubSeq(s, 1, 0) = <<>> /\ SubSeq(s, 1, Len(s)) = s
  OBVIOUS
<1>2. \A i \in 0..Len(s) : SubSeq(s, 1, i) \in Seq(Int)
  OBVIOUS
<1>3. ASSUME NEW i \in 1..Len(s)
      PROVE  s[i] \in Int /\ SubSeq(s, 1, i) = Append(SubSeq(s, 1, i - 1), s[i])
  OBVIOUS
<1>4. ASSUME NEW i \in 1..Len(s) PROVE s[i] \in Int /\ UpTo(s, i) = UpTo(s, i - 1) + s[i]
  <2>1. i - 1 \in 0..Len(s) /\ SubSeq(s, 1, i - 1) \in Seq(Int)
    BY <1>2
  <2> QED
    BY <1>3, <2>1, SumAppend DEF UpTo
<1> QED
  BY <1>1, <1>2, <1>4, SumEmpty, SumType DEF UpTo

\* A result appended leaves the running sum before it.
LEMMA UpToAppend ==
    ASSUME NEW s \in Seq(Int), NEW e \in Int
    PROVE  /\ \A i \in 0..Len(s) : UpTo(Append(s, e), i) = UpTo(s, i)
           /\ UpTo(Append(s, e), Len(s) + 1) = SumSeq(s) + e
<1>1. \A i \in 0..Len(s) : SubSeq(Append(s, e), 1, i) = SubSeq(s, 1, i)
  OBVIOUS
<1>2. SubSeq(Append(s, e), 1, Len(s) + 1) = Append(s, e)
  OBVIOUS
<1> QED
  BY <1>1, <1>2, SumAppend DEF UpTo

\* What holds of the running sum before the first result, and with every result that is
\* added, holds of the sum.
LEMMA EveryPrefix ==
    ASSUME NEW n \in Nat, NEW S, 0 \in S, \A i \in 1..n : i - 1 \in S => i \in S
    PROVE  \A i \in 0..n : i \in S
<1> DEFINE T == {i \in Nat : i <= n => i \in S}
<1>1. 0 \in T
  OBVIOUS
<1>2. ASSUME NEW i \in Nat, i \in T PROVE i + 1 \in T
  <2> SUFFICES ASSUME i + 1 <= n PROVE i + 1 \in S
    OBVIOUS
  <2>1. i \in S /\ i + 1 \in 1..n /\ (i + 1) - 1 = i
    BY <1>2
  <2> QED
    BY <2>1
<1>3. Nat \subseteq T
  <2> HIDE DEF T
  <2> QED
    BY <1>1, <1>2, Inductive
<1> QED
  BY <1>3

\* Larger results have a larger sum.
LEMMA SumMonotone ==
    ASSUME NEW s \in Seq(Int), NEW t \in Seq(Int), Len(s) = Len(t),
           \A i \in 1..Len(s) : s[i] <= t[i]
    PROVE  SumSeq(s) <= SumSeq(t)
<1> DEFINE n == Len(s)
           Below == {i \in 0..n : UpTo(s, i) <= UpTo(t, i)}
<1>0. n \in Nat /\ \A i \in 1..n : i - 1 \in 0..n /\ i \in 0..n
  OBVIOUS
<1>1. /\ UpTo(s, 0) = 0 /\ UpTo(s, n) = SumSeq(s)
      /\ \A i \in 0..n : UpTo(s, i) \in Int
      /\ \A i \in 1..n : s[i] \in Int /\ UpTo(s, i) = UpTo(s, i - 1) + s[i]
  BY UpToAre
<1>2. /\ UpTo(t, 0) = 0 /\ UpTo(t, n) = SumSeq(t)
      /\ \A i \in 0..n : UpTo(t, i) \in Int
      /\ \A i \in 1..n : t[i] \in Int /\ UpTo(t, i) = UpTo(t, i - 1) + t[i]
  BY UpToAre
<1>3. \A i \in 1..n : s[i] <= t[i]
  OBVIOUS
<1> HIDE DEF n
<1>4. 0 \in Below
  BY <1>0, <1>1, <1>2
<1>5. ASSUME NEW i \in 1..n, i - 1 \in Below PROVE i \in Below
  <2>1. /\ UpTo(s, i - 1) \in Int /\ UpTo(t, i - 1) \in Int /\ s[i] \in Int /\ t[i] \in Int
        /\ UpTo(s, i) = UpTo(s, i - 1) + s[i] /\ UpTo(t, i) = UpTo(t, i - 1) + t[i]
        /\ s[i] <= t[i] /\ UpTo(s, i - 1) <= UpTo(t, i - 1)
    BY <1>0, <1>1, <1>2, <1>3, <1>5
  <2> QED
    BY <1>0, <2>1
<1>6. \A i \in 0..n : i \in Below
  <2> HIDE DEF Below
  <2>1. \A i \in 1..n : i - 1 \in Below => i \in Below
    BY <1>5
  <2> QED
    BY <1>0, <1>4, <2>1, EveryPrefix
<1> QED
  BY <1>0, <1>1, <1>2, <1>6

\* A result that is changed changes the sum by as much.
LEMMA SumChanged ==
    ASSUME NEW s \in Seq(Int), NEW t \in Seq(Int), Len(s) = Len(t),
           NEW k \in 1..Len(s), \A i \in 1..Len(s) : i # k => s[i] = t[i]
    PROVE  SumSeq(t) = SumSeq(s) + (t[k] - s[k])
<1> DEFINE n == Len(s)
           Same == {i \in 0..n : UpTo(t, i) = IF i < k THEN UpTo(s, i)
                                              ELSE UpTo(s, i) + (t[k] - s[k])}
<1>0. n \in Nat /\ \A i \in 1..n : i - 1 \in 0..n /\ i \in 0..n
  OBVIOUS
<1>1. /\ UpTo(s, 0) = 0 /\ UpTo(s, n) = SumSeq(s)
      /\ \A i \in 0..n : UpTo(s, i) \in Int
      /\ \A i \in 1..n : s[i] \in Int /\ UpTo(s, i) = UpTo(s, i - 1) + s[i]
  BY UpToAre
<1>2. /\ UpTo(t, 0) = 0 /\ UpTo(t, n) = SumSeq(t)
      /\ \A i \in 0..n : UpTo(t, i) \in Int
      /\ \A i \in 1..n : t[i] \in Int /\ UpTo(t, i) = UpTo(t, i - 1) + t[i]
  BY UpToAre
<1>3. k \in 1..n /\ \A i \in 1..n : i # k => s[i] = t[i]
  OBVIOUS
<1> HIDE DEF n
<1>4. 0 \in Same
  BY <1>0, <1>1, <1>2, <1>3
<1>5. ASSUME NEW i \in 1..n, i - 1 \in Same PROVE i \in Same
  <2>1. /\ UpTo(s, i - 1) \in Int /\ UpTo(t, i - 1) \in Int /\ s[k] \in Int /\ t[k] \in Int
        /\ s[i] \in Int /\ t[i] \in Int
        /\ UpTo(s, i) = UpTo(s, i - 1) + s[i] /\ UpTo(t, i) = UpTo(t, i - 1) + t[i]
    BY <1>0, <1>1, <1>2, <1>3
  <2>2. CASE i < k
    BY <1>3, <1>5, <2>1, <2>2
  <2>3. CASE i = k
    BY <1>3, <1>5, <2>1, <2>3
  <2>4. CASE i > k
    <3>1. s[i] = t[i] /\ ~(i < k) /\ ~(i - 1 < k)
      BY <1>3, <2>4
    <3>2. UpTo(t, i - 1) = UpTo(s, i - 1) + (t[k] - s[k])
      BY <1>5, <3>1
    <3>3. UpTo(t, i) = UpTo(s, i) + (t[k] - s[k])
      <4> DEFINE d == t[k] - s[k]
      <4>1. \A a, b, x, y, z \in Int : b = a + z => b + x = (a + x) + z
        OBVIOUS
      <4>2. d \in Int /\ UpTo(t, i - 1) = UpTo(s, i - 1) + d
        BY <2>1, <3>2
      <4> HIDE DEF d
      <4>3. UpTo(t, i - 1) + t[i] = (UpTo(s, i - 1) + t[i]) + d
        BY <2>1, <4>1, <4>2
      <4>4. UpTo(t, i) = UpTo(s, i) + d
        BY <2>1, <3>1, <4>3, Zenon
      <4> QED
        BY <4>4, Zenon DEF d
    <3> QED
      BY <1>0, <3>1, <3>3
  <2> QED
    BY <1>3, <2>2, <2>3, <2>4
<1>6. \A i \in 0..n : i \in Same
  <2> HIDE DEF Same
  <2>1. \A i \in 1..n : i - 1 \in Same => i \in Same
    BY <1>5
  <2> QED
    BY <1>0, <1>4, <2>1, EveryPrefix
<1> QED
  BY <1>0, <1>1, <1>2, <1>3, <1>6

\* Results that all change their sign have a sum that does.
LEMMA SumNegated ==
    ASSUME NEW s \in Seq(Int), NEW t \in Seq(Int), Len(s) = Len(t),
           \A i \in 1..Len(s) : t[i] = -s[i]
    PROVE  SumSeq(t) = -SumSeq(s)
<1> DEFINE n == Len(s)
           Opposite == {i \in 0..n : UpTo(t, i) = -UpTo(s, i)}
<1>0. n \in Nat /\ \A i \in 1..n : i - 1 \in 0..n /\ i \in 0..n /\ t[i] = -s[i]
  OBVIOUS
<1>1. /\ UpTo(s, 0) = 0 /\ UpTo(s, n) = SumSeq(s)
      /\ \A i \in 0..n : UpTo(s, i) \in Int
      /\ \A i \in 1..n : s[i] \in Int /\ UpTo(s, i) = UpTo(s, i - 1) + s[i]
  BY UpToAre
<1>2. /\ UpTo(t, 0) = 0 /\ UpTo(t, n) = SumSeq(t)
      /\ \A i \in 0..n : UpTo(t, i) \in Int
      /\ \A i \in 1..n : t[i] \in Int /\ UpTo(t, i) = UpTo(t, i - 1) + t[i]
  BY UpToAre
<1> HIDE DEF n
<1>3. 0 \in Opposite
  BY <1>0, <1>1, <1>2
<1>4. ASSUME NEW i \in 1..n, i - 1 \in Opposite PROVE i \in Opposite
  <2>1. /\ UpTo(s, i - 1) \in Int /\ UpTo(t, i - 1) = -UpTo(s, i - 1)
        /\ s[i] \in Int /\ t[i] = -s[i]
        /\ UpTo(s, i) = UpTo(s, i - 1) + s[i] /\ UpTo(t, i) = UpTo(t, i - 1) + t[i]
    BY <1>0, <1>1, <1>2, <1>4
  <2> QED
    BY <1>0, <2>1
<1>5. \A i \in 0..n : i \in Opposite
  <2> HIDE DEF Opposite
  <2>1. \A i \in 1..n : i - 1 \in Opposite => i \in Opposite
    BY <1>4
  <2> QED
    BY <1>0, <1>3, <2>1, EveryPrefix
<1> QED
  BY <1>0, <1>1, <1>2, <1>5

\* The positions of a set up to some position.
LEMMA PositionsUpTo ==
    ASSUME NEW n \in Nat, NEW K \in SUBSET (1..n)
    PROVE  /\ {j \in K : j <= 0} = {} /\ {j \in K : j <= n} = K
           /\ \A i \in 1..n : IF i \in K
                 THEN /\ {j \in K : j <= i} = {j \in K : j <= i - 1} \cup {i}
                      /\ i \notin {j \in K : j <= i - 1}
                 ELSE {j \in K : j <= i} = {j \in K : j <= i - 1}
<1>1. \A j \in K : j \in Int /\ 1 <= j /\ j <= n
  OBVIOUS
<1>2. {j \in K : j <= 0} = {}
  <2>1. \A j \in K : ~(j <= 0)
    BY <1>1
  <2> QED
    BY <2>1, Zenon
<1>3. {j \in K : j <= n} = K
  BY <1>1
<1>4. ASSUME NEW i \in 1..n, i \in K
      PROVE  /\ {j \in K : j <= i} = {j \in K : j <= i - 1} \cup {i}
             /\ i \notin {j \in K : j <= i - 1}
  <2>1. \A j \in K : j <= i <=> (j <= i - 1 \/ j = i)
    BY <1>1
  <2>2. ~(i <= i - 1)
    OBVIOUS
  <2> QED
    BY <1>4, <2>1, <2>2, Zenon
<1>5. ASSUME NEW i \in 1..n, i \notin K
      PROVE  {j \in K : j <= i} = {j \in K : j <= i - 1}
  <2>1. \A j \in K : j <= i <=> j <= i - 1
    BY <1>1, <1>5
  <2> QED
    BY <2>1, Zenon
<1> QED
  BY <1>2, <1>3, <1>4, <1>5

\* Results that are bounded on a set of positions, and not positive elsewhere.
LEMMA SumBounded ==
    ASSUME NEW s \in Seq(Int), NEW K \in SUBSET (1..Len(s)), NEW b \in Nat,
           \A i \in K : s[i] <= b, \A i \in 1..Len(s) : i \notin K => s[i] <= 0
    PROVE  SumSeq(s) <= Cardinality(K) * b
<1> DEFINE n == Len(s)
           Part(i) == {j \in K : j <= i}
           Below == {i \in 0..n : UpTo(s, i) <= Cardinality(Part(i)) * b}
<1>0. n \in Nat /\ \A i \in 1..n : i - 1 \in 0..n /\ i \in 0..n
  OBVIOUS
<1>1. /\ UpTo(s, 0) = 0 /\ UpTo(s, n) = SumSeq(s)
      /\ \A i \in 0..n : UpTo(s, i) \in Int
      /\ \A i \in 1..n : s[i] \in Int /\ UpTo(s, i) = UpTo(s, i - 1) + s[i]
  BY UpToAre
<1>k. /\ Part(0) = {} /\ Part(n) = K
      /\ \A i \in 1..n : IF i \in K
            THEN Part(i) = Part(i - 1) \cup {i} /\ i \notin Part(i - 1)
            ELSE Part(i) = Part(i - 1)
  <2> HIDE DEF n
  <2> QED
    BY <1>0, PositionsUpTo DEF n
<1>2. /\ \A i \in 1..n : (i \in K => s[i] <= b) /\ (i \notin K => s[i] <= 0)
      /\ \A j \in K : j \in 1..n
  OBVIOUS
<1> HIDE DEF n
<1>3. \A i \in 0..n : IsFiniteSet(Part(i)) /\ Cardinality(Part(i)) \in Nat
  <2>1. IsFiniteSet(1..n)
    BY <1>0, FS_Interval
  <2>2. \A i \in 0..n : Part(i) \in SUBSET (1..n)
    BY <1>2
  <2> HIDE DEF Part
  <2> QED
    BY <2>1, <2>2, FS_Subset, FS_CardinalityType
<1>4. 0 \in Below
  <2>1. Cardinality(Part(0)) = 0
    BY <1>k, FS_EmptySet
  <2>2. 0 * b = 0 /\ 0 \in 0..n
    BY <1>0
  <2> HIDE DEF Part
  <2> QED
    BY <1>1, <2>1, <2>2
<1>5. ASSUME NEW i \in 1..n, i - 1 \in Below PROVE i \in Below
  <2>1. i - 1 \in 0..n /\ i \in 0..n
    BY <1>0
  <2>2. PICK c \in Nat : c = Cardinality(Part(i - 1))
    BY <1>3, <2>1
  <2>3. UpTo(s, i - 1) <= c * b /\ c * b \in Int
    BY <1>5, <2>2
  <2>4. CASE i \in K
    <3>1. Part(i) = Part(i - 1) \cup {i} /\ i \notin Part(i - 1)
      BY <1>k, <2>4
    <3>2. Cardinality(Part(i)) = c + 1
      <4> HIDE DEF Part
      <4> QED
        BY <1>3, <2>1, <2>2, <3>1, FS_AddElement
    <3>3. (c + 1) * b = c * b + b
      OBVIOUS
    <3>4. s[i] <= b /\ s[i] \in Int /\ UpTo(s, i) = UpTo(s, i - 1) + s[i]
          /\ UpTo(s, i - 1) \in Int
      BY <1>1, <1>2, <2>1, <2>4
    <3>5. UpTo(s, i) <= (c + 1) * b
      <4> HIDE DEF Part
      <4> QED
        BY <2>3, <3>3, <3>4
    <3> QED
      BY <2>1, <3>2, <3>5
  <2>5. CASE i \notin K
    <3>1. Part(i) = Part(i - 1)
      BY <1>k, <2>5
    <3>2. s[i] <= 0 /\ s[i] \in Int /\ UpTo(s, i) = UpTo(s, i - 1) + s[i]
          /\ UpTo(s, i - 1) \in Int
      BY <1>1, <1>2, <2>1, <2>5
    <3>3. UpTo(s, i) <= c * b
      BY <2>3, <3>2
    <3> QED
      BY <2>1, <2>2, <3>1, <3>3
  <2> QED
    BY <2>4, <2>5
<1>6. \A i \in 0..n : i \in Below
  <2> HIDE DEF Below
  <2>1. \A i \in 1..n : i - 1 \in Below => i \in Below
    BY <1>5
  <2> QED
    BY <1>0, <1>4, <2>1, EveryPrefix
<1>7. Part(n) = K /\ n \in 0..n
  BY <1>0, <1>k
<1> QED
  BY <1>1, <1>6, <1>7

-------------------------------------------------------------------------
(* The members of a finite set of numbers in rising order.                 *)

\* Ascending has as many places as the set has members.
LEMMA AscendingFills ==
    ASSUME NEW S
    PROVE  /\ DOMAIN Ascending(S) = 1..Cardinality(S)
           /\ Ascending(S) = [i \in 1..Cardinality(S) |-> Ascending(S)[i]]
<1> DEFINE e(i) == CHOOSE m \in S : Cardinality({r \in S : r < m}) = i - 1
<1>1. Ascending(S) = [i \in 1..Cardinality(S) |-> e(i)]
  BY Zenon DEF Ascending
<1> HIDE DEF e
<1> QED
  BY <1>1

\* Ascending lists the members of the set, every one once, in rising order.
LEMMA AscendingLists ==
    ASSUME NEW S \in SUBSET Int, IsFiniteSet(S)
    PROVE  /\ Cardinality(S) \in Nat /\ Ascending(S) \in Seq(S)
           /\ Len(Ascending(S)) = Cardinality(S)
           /\ \A i \in 1..Cardinality(S) : Ascending(S)[i] \in S
           /\ \A i, j \in 1..Cardinality(S) : i < j => Ascending(S)[i] < Ascending(S)[j]
           /\ \A x \in S : \E i \in 1..Cardinality(S) : Ascending(S)[i] = x
<1> DEFINE n == Cardinality(S)
           Before(m) == {r \in S : r < m}
           rank == [m \in S |-> Cardinality(Before(m)) + 1]
<1>1. n \in Nat /\ \A m \in S : /\ IsFiniteSet(Before(m)) /\ Cardinality(Before(m)) \in Nat
                                /\ Cardinality(Before(m)) < n
  <2>1. n \in Nat
    BY FS_CardinalityType
  <2>2. ASSUME NEW m \in S
        PROVE  /\ IsFiniteSet(Before(m)) /\ Cardinality(Before(m)) \in Nat
               /\ Cardinality(Before(m)) < n
    <3>1. Before(m) \in SUBSET S /\ Before(m) # S
      OBVIOUS
    <3> HIDE DEF Before
    <3>2. IsFiniteSet(Before(m)) /\ Cardinality(Before(m)) <= n /\ Cardinality(Before(m)) # n
      BY <3>1, FS_Subset
    <3> QED
      BY <2>1, <3>2, FS_CardinalityType
  <2> QED
    BY <2>1, <2>2
<1>2. ASSUME NEW a \in S, NEW c \in S, a < c
      PROVE  Cardinality(Before(a)) < Cardinality(Before(c))
  <2>1. Before(a) \in SUBSET Before(c) /\ Before(a) # Before(c)
    <3>1. a \in Before(c) /\ a \notin Before(a)
      BY <1>2
    <3>2. \A x \in S : x < a => x < c
      BY <1>2
    <3> QED
      BY <3>1, <3>2
  <2> HIDE DEF Before
  <2> QED
    BY <1>1, <2>1, FS_Subset
<1>3. rank \in [S -> 1..n] /\ \A a, c \in S : a < c => rank[a] < rank[c]
  <2> HIDE DEF Before, n
  <2> QED
    BY <1>1, <1>2
<1>4. \A a, c \in S : rank[a] = rank[c] => a = c
  <2> HIDE DEF rank
  <2>1. \A a, c \in S : rank[a] \in Int /\ (a < c \/ c < a \/ a = c)
    BY <1>3
  <2> QED
    BY <1>3, <2>1
<1>5. rank \in Injection(S, 1..n)
  <2> HIDE DEF rank
  <2> QED
    BY <1>3, <1>4 DEF Injection, IsInjective
<1>6. \A i \in 1..n : \E m \in S : rank[m] = i
  <2> HIDE DEF rank, n
  <2>1. IsFiniteSet(1..n) /\ Cardinality(1..n) = n
    BY <1>1, FS_Interval
  <2>2. rank \in Surjection(S, 1..n)
    BY <1>5, <2>1, FS_Injection DEF n
  <2> QED
    BY <2>2 DEF Surjection
<1>7. \A i \in 1..n : Ascending(S)[i] \in S /\ rank[Ascending(S)[i]] = i
  <2> SUFFICES ASSUME NEW i \in 1..n PROVE Ascending(S)[i] \in S /\ rank[Ascending(S)[i]] = i
    OBVIOUS
  <2>1. Ascending(S)[i] = CHOOSE m \in S : Cardinality(Before(m)) = i - 1
    BY DEF Ascending
  <2>2. \E m \in S : Cardinality(Before(m)) = i - 1
    <3>1. PICK m \in S : rank[m] = i
      BY <1>6
    <3> HIDE DEF Before, n
    <3> QED
      BY <1>1, <3>1
  <2> HIDE DEF Before, n
  <2>3. Ascending(S)[i] \in S /\ Cardinality(Before(Ascending(S)[i])) = i - 1
    BY <2>1, <2>2
  <2> QED
    BY <1>1, <2>3
<1>8. DOMAIN Ascending(S) = 1..n /\ Ascending(S) = [i \in 1..n |-> Ascending(S)[i]]
  BY AscendingFills
<1>9. Ascending(S) \in Seq(S) /\ Len(Ascending(S)) = n
  <2> HIDE DEF n, rank
  <2>1. Ascending(S) \in [1..n -> S]
    BY <1>7, <1>8
  <2> QED
    BY <1>1, <2>1
<1>10. \A i, j \in 1..n : i < j => Ascending(S)[i] < Ascending(S)[j]
  <2> HIDE DEF rank, n
  <2> SUFFICES ASSUME NEW i \in 1..n, NEW j \in 1..n, i < j,
                      ~(Ascending(S)[i] < Ascending(S)[j])
               PROVE  FALSE
    OBVIOUS
  <2>1. PICK a \in S : a = Ascending(S)[i] /\ rank[a] = i
    BY <1>7
  <2>2. PICK c \in S : c = Ascending(S)[j] /\ rank[c] = j
    BY <1>7
  <2>3. c < a \/ c = a
    BY <2>1, <2>2
  <2> QED
    BY <1>3, <2>1, <2>2, <2>3
<1>11. \A x \in S : \E i \in 1..n : Ascending(S)[i] = x
  <2> HIDE DEF rank, n
  <2> QED
    BY <1>3, <1>4, <1>7
<1> QED
  BY <1>1, <1>7, <1>9, <1>10, <1>11

\* A rising sequence lists its members.
LEMMA AscendingIs ==
    ASSUME NEW n \in Nat, NEW t \in [1..n -> Int],
           \A i, j \in 1..n : i < j => t[i] < t[j]
    PROVE  /\ Ascending({t[i] : i \in 1..n}) = t
           /\ Cardinality({t[i] : i \in 1..n}) = n /\ IsFiniteSet({t[i] : i \in 1..n})
<1> DEFINE S == {t[i] : i \in 1..n}
           Before(m) == {r \in S : r < m}
<1>1. \A i, j \in 1..n : t[i] = t[j] => i = j
  <2>1. \A i, j \in 1..n : i < j \/ j < i \/ i = j
    OBVIOUS
  <2>2. \A i \in 1..n : t[i] \in Int
    OBVIOUS
  <2> QED
    BY <2>1, <2>2
<1>2. ASSUME NEW k \in 0..n
      PROVE  IsFiniteSet({t[i] : i \in 1..k}) /\ Cardinality({t[i] : i \in 1..k}) = k
  <2> DEFINE g == [i \in 1..k |-> t[i]]
             I == {t[i] : i \in 1..k}
  <2>1. g \in [1..k -> I] /\ \A i, j \in 1..k : g[i] = g[j] => i = j
    BY <1>1
  <2>2. \A x \in I : \E i \in 1..k : g[i] = x
    OBVIOUS
  <2> HIDE DEF g, I
  <2>3. g \in Bijection(1..k, I)
    BY <2>1, <2>2 DEF Bijection, Injection, Surjection, IsInjective
  <2>4. IsFiniteSet(1..k) /\ Cardinality(1..k) = k
    BY FS_Interval
  <2>5. IsFiniteSet(I) /\ Cardinality(I) = k
    BY <2>3, <2>4, FS_Bijection DEF ExistsBijection
  <2> QED
    BY <2>5 DEF I
<1>3. ASSUME NEW i \in 1..n PROVE Cardinality(Before(t[i])) = i - 1
  <2>1. Before(t[i]) = {t[j] : j \in 1..i - 1}
    <3>1. \A j \in 1..n : t[j] \in Int /\ (t[j] < t[i] <=> j < i)
      <4>1. \A j \in 1..n : t[j] \in Int /\ (j < i \/ i < j \/ i = j)
        OBVIOUS
      <4> QED
        BY <4>1
    <3>2. \A j \in 1..i - 1 : j \in 1..n /\ j < i
      OBVIOUS
    <3>3. \A j \in 1..n : j < i => j \in 1..i - 1
      OBVIOUS
    <3> QED
      BY <3>1, <3>2, <3>3
  <2>2. i - 1 \in 0..n
    OBVIOUS
  <2> QED
    BY <1>2, <2>1, <2>2
<1>4. n \in 0..n
  OBVIOUS
<1>5. IsFiniteSet(S) /\ Cardinality(S) = n
  BY <1>2, <1>4
<1>6. ASSUME NEW i \in 1..n PROVE Ascending(S)[i] = t[i]
  <2>1. Ascending(S)[i] = CHOOSE m \in S : Cardinality(Before(m)) = i - 1
    BY <1>5 DEF Ascending
  <2>2. t[i] \in S /\ Cardinality(Before(t[i])) = i - 1
    BY <1>3
  <2>3. ASSUME NEW m \in S, Cardinality(Before(m)) = i - 1 PROVE m = t[i]
    <3>1. PICK j \in 1..n : m = t[j]
      OBVIOUS
    <3>2. j - 1 = i - 1
      BY <1>3, <2>3, <3>1
    <3> QED
      BY <3>1, <3>2
  <2> HIDE DEF S, Before
  <2> QED
    BY <2>1, <2>2, <2>3
<1>7. t = [i \in 1..n |-> t[i]]
  OBVIOUS
<1> HIDE DEF S
<1>8. /\ DOMAIN Ascending(S) = 1..Cardinality(S)
      /\ Ascending(S) = [i \in 1..Cardinality(S) |-> Ascending(S)[i]]
  BY AscendingFills
<1>9. Ascending(S) = t
  BY <1>5, <1>6, <1>7, <1>8
<1> QED
  BY <1>5, <1>9 DEF S

\* A member that is larger than all comes last.
LEMMA AscendingAdd ==
    ASSUME NEW S \in SUBSET Int, IsFiniteSet(S), NEW m \in Int, \A x \in S : x < m
    PROVE  /\ Cardinality(S \cup {m}) = Cardinality(S) + 1
           /\ Ascending(S \cup {m})[Cardinality(S) + 1] = m
           /\ \A i \in 1..Cardinality(S) : Ascending(S \cup {m})[i] = Ascending(S)[i]
<1> DEFINE n == Cardinality(S)
           t == [i \in 1..n + 1 |-> IF i = n + 1 THEN m ELSE Ascending(S)[i]]
<1>1. /\ n \in Nat /\ \A i \in 1..n : Ascending(S)[i] \in S
      /\ \A i, j \in 1..n : i < j => Ascending(S)[i] < Ascending(S)[j]
      /\ \A x \in S : \E i \in 1..n : Ascending(S)[i] = x
  BY AscendingLists
<1> HIDE DEF n
<1>2. n + 1 \in Nat /\ t[n + 1] = m /\ \A i \in 1..n : t[i] = Ascending(S)[i]
  BY <1>1
<1>3. t \in [1..n + 1 -> Int]
  <2>1. \A i \in 1..n + 1 : i # n + 1 => i \in 1..n
    BY <1>1
  <2>2. \A i \in 1..n + 1 : (IF i = n + 1 THEN m ELSE Ascending(S)[i]) \in Int
    BY <1>1, <2>1
  <2> QED
    BY <2>2
<1>4. \A i, j \in 1..n + 1 : i < j => t[i] < t[j]
  <2> SUFFICES ASSUME NEW i \in 1..n + 1, NEW j \in 1..n + 1, i < j PROVE t[i] < t[j]
    OBVIOUS
  <2>1. i \in 1..n
    BY <1>1
  <2>2. CASE j = n + 1
    BY <1>1, <1>2, <2>1, <2>2
  <2>3. CASE j # n + 1
    BY <1>1, <1>2, <2>1, <2>3
  <2> QED
    BY <2>2, <2>3
<1>5. {t[i] : i \in 1..n + 1} = S \cup {m}
  <2>1. \A i \in 1..n + 1 : t[i] \in S \cup {m}
    BY <1>1
  <2>2. \A x \in S \cup {m} : \E i \in 1..n + 1 : t[i] = x
    <3> SUFFICES ASSUME NEW x \in S \cup {m} PROVE \E i \in 1..n + 1 : t[i] = x
      OBVIOUS
    <3>1. CASE x = m
      BY <1>1, <1>2, <3>1
    <3>2. CASE x \in S
      <4>1. PICK i \in 1..n : Ascending(S)[i] = x
        BY <1>1, <3>2
      <4>2. i \in 1..n + 1 /\ t[i] = x
        BY <1>1, <1>2, <4>1
      <4> QED
        BY <4>2
    <3> QED
      BY <3>1, <3>2
  <2> HIDE DEF t
  <2> QED
    BY <2>1, <2>2
<1> HIDE DEF t
<1>6. Ascending(S \cup {m}) = t /\ Cardinality(S \cup {m}) = n + 1
  BY <1>2, <1>3, <1>4, <1>5, AscendingIs
<1> QED
  BY <1>2, <1>6 DEF n

-------------------------------------------------------------------------
(* The rows of a sequence at some of its positions.                        *)

\* The rows at a set of positions are rows of the sequence, in the same order.
LEMMA AtIs ==
    ASSUME NEW R, NEW s \in Seq(R), NEW K \in SUBSET (1..Len(s))
    PROVE  /\ IsFiniteSet(K) /\ Cardinality(K) \in Nat
           /\ At(s, K) \in Seq(R) /\ Len(At(s, K)) = Cardinality(K)
           /\ \A i \in 1..Cardinality(K) : /\ Ascending(K)[i] \in K
                                           /\ At(s, K)[i] = s[Ascending(K)[i]]
           /\ \A k \in K : \E i \in 1..Cardinality(K) : Ascending(K)[i] = k
<1>1. IsFiniteSet(K) /\ K \in SUBSET Int
  <2>1. Len(s) \in Nat
    OBVIOUS
  <2>2. IsFiniteSet(1..Len(s)) /\ 1..Len(s) \in SUBSET Int
    BY <2>1, FS_Interval
  <2>3. IsFiniteSet(K)
    BY <2>2, FS_Subset
  <2> QED
    BY <2>2, <2>3
<1>2. /\ Cardinality(K) \in Nat
      /\ \A i \in 1..Cardinality(K) : Ascending(K)[i] \in K
      /\ \A k \in K : \E i \in 1..Cardinality(K) : Ascending(K)[i] = k
  BY <1>1, AscendingLists
<1>3. \A k \in K : s[k] \in R
  BY MembersOf
<1>4. At(s, K) \in [1..Cardinality(K) -> R]
  BY <1>2, <1>3 DEF At
<1>5. At(s, K) \in Seq(R) /\ Len(At(s, K)) = Cardinality(K)
  BY <1>2, <1>4, FunctionIsSeq
<1>6. \A i \in 1..Cardinality(K) : At(s, K)[i] = s[Ascending(K)[i]]
  BY DEF At
<1> QED
  BY <1>1, <1>2, <1>5, <1>6

\* A row that is appended is the last of those it is among.
LEMMA AtAppend ==
    ASSUME NEW R, NEW s \in Seq(R), NEW e \in R, NEW K \in SUBSET (1..Len(s))
    PROVE  /\ At(Append(s, e), K) = At(s, K)
           /\ At(Append(s, e), K \cup {Len(s) + 1}) = Append(At(s, K), e)
<1> DEFINE n == Len(s)
           t == Append(s, e)
           L == K \cup {n + 1}
           c == Cardinality(K)
<1>1. n \in Nat /\ t \in Seq(R) /\ Len(t) = n + 1 /\ t[n + 1] = e
      /\ \A i \in 1..n : t[i] = s[i]
  OBVIOUS
<1>2. /\ IsFiniteSet(K) /\ c \in Nat /\ At(s, K) \in Seq(R) /\ Len(At(s, K)) = c
      /\ \A i \in 1..c : Ascending(K)[i] \in K /\ At(s, K)[i] = s[Ascending(K)[i]]
  BY AtIs
<1>3. K \in SUBSET (1..n) /\ K \in SUBSET Int /\ \A k \in K : k < n + 1
  OBVIOUS
<1> HIDE DEF n, t
<1>4. At(t, K) = At(s, K)
  <2>1. \A i \in 1..c : t[Ascending(K)[i]] = s[Ascending(K)[i]]
    BY <1>1, <1>2, <1>3
  <2> QED
    BY <2>1 DEF At
<1>5. /\ Cardinality(L) = c + 1 /\ Ascending(L)[c + 1] = n + 1
      /\ \A i \in 1..c : Ascending(L)[i] = Ascending(K)[i]
  <2>1. n + 1 \in Int
    BY <1>1
  <2> QED
    BY <1>2, <1>3, <2>1, AscendingAdd
<1>6. At(t, L) = [i \in 1..c + 1 |-> t[Ascending(L)[i]]]
  <2> HIDE DEF L, c
  <2> QED
    BY <1>5 DEF At
<1> HIDE DEF L, c
<1>7. Append(At(s, K), e) = [i \in 1..c + 1 |-> IF i = c + 1 THEN e ELSE At(s, K)[i]]
  <2>1. PICK u \in Seq(R) : u = At(s, K) /\ Len(u) = c
    BY <1>2
  <2>2. /\ Append(u, e) \in Seq(R) /\ Len(Append(u, e)) = c + 1
        /\ \A i \in 1..c + 1 : Append(u, e)[i] = IF i = c + 1 THEN e ELSE u[i]
    BY <1>2, <2>1
  <2> DEFINE v == Append(u, e)
  <2> HIDE DEF v
  <2>3. v = [i \in 1..c + 1 |-> v[i]]
    <3>1. v \in Seq(R) /\ Len(v) = c + 1
      BY <2>2 DEF v
    <3> QED
      BY <1>2, <3>1
  <2>4. Append(u, e) = [i \in 1..c + 1 |-> IF i = c + 1 THEN e ELSE u[i]]
    <3>1. \A i \in 1..c + 1 : v[i] = IF i = c + 1 THEN e ELSE u[i]
      BY <2>2 DEF v
    <3>2. v = [i \in 1..c + 1 |-> IF i = c + 1 THEN e ELSE u[i]]
      BY <2>3, <3>1
    <3> QED
      BY <3>2 DEF v
  <2> QED
    BY <2>1, <2>4, Zenon
<1>8. \A i \in 1..c + 1 : t[Ascending(L)[i]] = IF i = c + 1 THEN e ELSE At(s, K)[i]
  <2> SUFFICES ASSUME NEW i \in 1..c + 1
               PROVE  t[Ascending(L)[i]] = IF i = c + 1 THEN e ELSE At(s, K)[i]
    OBVIOUS
  <2>1. CASE i = c + 1
    BY <1>1, <1>5, <2>1
  <2>2. CASE i # c + 1
    <3>1. i \in 1..c
      BY <1>2, <2>2
    <3> QED
      BY <1>1, <1>2, <1>3, <1>5, <2>2, <3>1
  <2> QED
    BY <2>1, <2>2
<1>9. At(t, L) = Append(At(s, K), e)
  BY <1>6, <1>7, <1>8
<1> QED
  BY <1>4, <1>9 DEF t, L, n

-------------------------------------------------------------------------
(* The drawdowns of a sequence of results.                                 *)

\* Finitely many numbers lie between two bounds.
LEMMA PrefixBounded ==
    ASSUME NEW n \in Nat, NEW f \in [1..n -> Int]
    PROVE  \E lo, hi \in Int : \A j \in 1..n : lo <= f[j] /\ f[j] <= hi
<1> DEFINE T == {i \in 0..n : \E lo, hi \in Int : \A j \in 1..i : lo <= f[j] /\ f[j] <= hi}
<1>1. 0 \in T
  <2>1. \A j \in 1..0 : 0 <= f[j] /\ f[j] <= 0
    OBVIOUS
  <2>2. 0 \in 0..n /\ 0 \in Int
    OBVIOUS
  <2> QED
    BY <2>1, <2>2
<1>2. ASSUME NEW i \in 1..n, i - 1 \in T PROVE i \in T
  <2>1. PICK lo \in Int, hi \in Int : \A j \in 1..i - 1 : lo <= f[j] /\ f[j] <= hi
    BY <1>2
  <2>2. PICK x \in Int : x = f[i]
    OBVIOUS
  <2>3. PICK l \in Int, h \in Int : l <= lo /\ l <= x /\ hi <= h /\ x <= h
    <3>1. \A p, q \in Int : \E r \in Int : r <= p /\ r <= q
      <4> SUFFICES ASSUME NEW p \in Int, NEW q \in Int
                   PROVE  \E r \in Int : r <= p /\ r <= q
        OBVIOUS
      <4>1. p <= q \/ q <= p
        OBVIOUS
      <4> QED
        BY <4>1
    <3>2. \A p, q \in Int : \E r \in Int : p <= r /\ q <= r
      <4> SUFFICES ASSUME NEW p \in Int, NEW q \in Int
                   PROVE  \E r \in Int : p <= r /\ q <= r
        OBVIOUS
      <4>1. p <= q \/ q <= p
        OBVIOUS
      <4> QED
        BY <4>1
    <3> QED
      BY <3>1, <3>2
  <2>4. \A j \in 1..i : f[j] \in Int /\ (j = i \/ j \in 1..i - 1)
    OBVIOUS
  <2>5. \A j \in 1..i : l <= f[j] /\ f[j] <= h
    BY <2>1, <2>2, <2>3, <2>4
  <2>6. i \in 0..n
    OBVIOUS
  <2> QED
    BY <2>5, <2>6
<1>3. \A i \in 0..n : i \in T
  <2> HIDE DEF T
  <2>1. \A i \in 1..n : i - 1 \in T => i \in T
    BY <1>2
  <2> QED
    BY <1>1, <2>1, EveryPrefix
<1>4. n \in 0..n
  OBVIOUS
<1> QED
  BY <1>3, <1>4

\* The peak is the largest of the running sums so far.
LEMMA PeakIs ==
    ASSUME NEW s \in Seq(Int), NEW i \in 1..Len(s)
    PROVE  /\ PeakUpTo(s, i) \in Int
           /\ \E j \in 1..i : PeakUpTo(s, i) = UpTo(s, j)
           /\ \A j \in 1..i : UpTo(s, j) \in Int /\ UpTo(s, j) <= PeakUpTo(s, i)
<1> DEFINE U == {UpTo(s, j) : j \in 1..i}
           f == [j \in 1..i |-> UpTo(s, j)]
<1>1. i \in Nat /\ i \in 1..i /\ \A j \in 1..i : j \in 0..Len(s)
  OBVIOUS
<1>2. \A j \in 1..i : UpTo(s, j) \in Int
  BY <1>1, UpToAre
<1>3. f \in [1..i -> Int]
  BY <1>2
<1>4. PICK lo \in Int, hi \in Int : \A j \in 1..i : lo <= f[j] /\ f[j] <= hi
  <2> HIDE DEF f
  <2> QED
    BY <1>1, <1>3, PrefixBounded
<1>5. U \in SUBSET Int /\ U # {} /\ \A x \in U : x <= hi
  BY <1>1, <1>2, <1>4
<1> HIDE DEF U
<1>6. Max(U) \in U /\ \A x \in U : x <= Max(U)
  BY <1>5, MaxIn
<1>7. PeakUpTo(s, i) = Max(U)
  BY DEF PeakUpTo, U
<1>8. \E j \in 1..i : PeakUpTo(s, i) = UpTo(s, j)
  BY <1>6, <1>7 DEF U
<1>9. \A j \in 1..i : UpTo(s, j) <= PeakUpTo(s, i)
  BY <1>6, <1>7 DEF U
<1> QED
  BY <1>2, <1>5, <1>6, <1>7, <1>8, <1>9

\* A drawdown is what the running sum is below its peak.
LEMMA DrawdownsAre ==
    ASSUME NEW s \in Seq(Int)
    PROVE  /\ Drawdowns(s) \in Seq(Int) /\ Len(Drawdowns(s)) = Len(s)
           /\ \A i \in 1..Len(s) : /\ Drawdowns(s)[i] = UpTo(s, i) - PeakUpTo(s, i)
                                   /\ Drawdowns(s)[i] \in Int /\ Drawdowns(s)[i] <= 0
<1>1. Len(s) \in Nat /\ DOMAIN s = 1..Len(s)
  OBVIOUS
<1>2. ASSUME NEW i \in 1..Len(s)
      PROVE  /\ Drawdowns(s)[i] = UpTo(s, i) - PeakUpTo(s, i)
             /\ Drawdowns(s)[i] \in Int /\ Drawdowns(s)[i] <= 0
  <2>1. i \in 1..i
    OBVIOUS
  <2>2. /\ PeakUpTo(s, i) \in Int /\ UpTo(s, i) \in Int
        /\ UpTo(s, i) <= PeakUpTo(s, i)
    BY <2>1, PeakIs
  <2>3. Drawdowns(s)[i] = UpTo(s, i) - PeakUpTo(s, i)
    BY <1>1 DEF Drawdowns
  <2> QED
    BY <2>2, <2>3
<1>3. Drawdowns(s) \in [1..Len(s) -> Int]
  <2>1. Drawdowns(s) = [i \in 1..Len(s) |-> Drawdowns(s)[i]]
    BY <1>1 DEF Drawdowns
  <2> QED
    BY <1>2, <2>1
<1>4. Drawdowns(s) \in Seq(Int) /\ Len(Drawdowns(s)) = Len(s)
  BY <1>1, <1>3, FunctionIsSeq
<1> QED
  BY <1>2, <1>4

\* The deepest drawdown is one of them, or none at all.
LEMMA DeepestIs ==
    ASSUME NEW s \in Seq(Int)
    PROVE  /\ DeepestDrawdown(s) \in Int /\ DeepestDrawdown(s) <= 0
           /\ \/ DeepestDrawdown(s) = 0
              \/ \E i \in 1..Len(s) : DeepestDrawdown(s) = Drawdowns(s)[i]
           /\ \A i \in 1..Len(s) : DeepestDrawdown(s) <= Drawdowns(s)[i]
<1> DEFINE D == Drawdowns(s)
           S == {0} \cup ToSet(D)
<1>1. /\ D \in Seq(Int) /\ Len(D) = Len(s) /\ Len(s) \in Nat
      /\ \A i \in 1..Len(s) : D[i] \in Int
  BY DrawdownsAre
<1> HIDE DEF D
<1>2. D \in [1..Len(s) -> Int]
  BY <1>1
<1>3. PICK lo \in Int, hi \in Int : \A j \in 1..Len(s) : lo <= D[j] /\ D[j] <= hi
  BY <1>1, <1>2, PrefixBounded
<1>4. ToSet(D) = {D[i] : i \in 1..Len(s)}
  BY <1>2 DEF ToSet
<1>5. PICK b \in Int : b <= lo /\ b <= 0
  <2>1. lo <= 0 \/ 0 <= lo
    OBVIOUS
  <2> QED
    BY <2>1
<1>6. S \in SUBSET Int /\ S # {} /\ \A x \in S : b <= x
  BY <1>1, <1>3, <1>4, <1>5
<1>7. Min(S) \in S /\ \A x \in S : Min(S) <= x
  <2> HIDE DEF S
  <2> QED
    BY <1>6, MinIn
<1>8. DeepestDrawdown(s) = Min(S)
  BY DEF DeepestDrawdown, D
<1>9. 0 \in S /\ \A i \in 1..Len(s) : D[i] \in S
  BY <1>4
<1>10. \A x \in S : x = 0 \/ \E i \in 1..Len(s) : x = D[i]
  BY <1>4
<1> HIDE DEF S
<1> QED
  BY <1>6, <1>7, <1>8, <1>9, <1>10 DEF D

\* The running sums of a curve that starts at zero.
LEMMA ZeroFirst ==
    ASSUME NEW s \in Seq(Int), NEW t, t = << 0 >> \o s
    PROVE  /\ t \in Seq(Int) /\ Len(t) = Len(s) + 1 /\ Len(s) \in Nat
           /\ \A i \in 0..Len(s) : UpTo(t, i + 1) = UpTo(s, i)
<1> DEFINE n == Len(s)
           Same == {i \in 0..n : UpTo(t, i + 1) = UpTo(s, i)}
<1>1. /\ t \in Seq(Int) /\ Len(t) = n + 1 /\ n \in Nat /\ t[1] = 0
      /\ \A i \in 1..n : t[i + 1] = s[i]
  OBVIOUS
<1>2. /\ UpTo(s, 0) = 0 /\ \A i \in 0..n : UpTo(s, i) \in Int
      /\ \A i \in 1..n : s[i] \in Int /\ UpTo(s, i) = UpTo(s, i - 1) + s[i]
  BY UpToAre
<1>3. /\ UpTo(t, 0) = 0
      /\ \A i \in 1..Len(t) : t[i] \in Int /\ UpTo(t, i) = UpTo(t, i - 1) + t[i]
  BY <1>1, UpToAre
<1> HIDE DEF n
<1>4. 0 \in Same
  <2>1. 1 \in 1..Len(t) /\ 1 - 1 = 0 /\ 0 + 1 = 1 /\ 0 \in 0..n
    BY <1>1
  <2>2. UpTo(t, 1) = 0
    BY <1>1, <1>3, <2>1
  <2> QED
    BY <1>2, <2>1, <2>2
<1>5. ASSUME NEW i \in 1..n, i - 1 \in Same PROVE i \in Same
  <2>1. i \in 0..n /\ i - 1 \in 0..n /\ (i - 1) + 1 = i /\ (i + 1) - 1 = i /\ i + 1 \in 1..Len(t)
    BY <1>1
  <2>2. UpTo(t, i) = UpTo(s, i - 1)
    BY <1>5, <2>1
  <2>3. UpTo(t, i + 1) = UpTo(t, i) + t[i + 1]
    BY <1>3, <2>1
  <2>4. UpTo(s, i) = UpTo(s, i - 1) + s[i] /\ t[i + 1] = s[i]
    BY <1>1, <1>2
  <2> QED
    BY <2>1, <2>2, <2>3, <2>4
<1>6. \A i \in 0..n : i \in Same
  <2> HIDE DEF Same
  <2>1. \A i \in 1..n : i - 1 \in Same => i \in Same
    BY <1>5
  <2> QED
    BY <1>1, <1>4, <2>1, EveryPrefix
<1> QED
  BY <1>1, <1>6 DEF n

\* A curve that starts at zero and not after its first result falls as deep or deeper, by
\* no more than the first result lost.
LEMMA ZeroDeepens ==
    ASSUME NEW s \in Seq(Int), NEW t, t = << 0 >> \o s
    PROVE  /\ DeepestDrawdown(t) <= DeepestDrawdown(s)
           /\ Len(s) > 0 => /\ s[1] \in Int
                            /\ \/ DeepestDrawdown(s) <= DeepestDrawdown(t)
                               \/ s[1] <= 0 /\ DeepestDrawdown(s) <= DeepestDrawdown(t) - s[1]
<1> DEFINE n == Len(s)
<1>1. /\ t \in Seq(Int) /\ Len(t) = n + 1 /\ n \in Nat
      /\ \A i \in 0..n : UpTo(t, i + 1) = UpTo(s, i)
  BY ZeroFirst
<1>2. /\ UpTo(s, 0) = 0 /\ \A i \in 0..n : UpTo(s, i) \in Int
      /\ \A i \in 1..n : s[i] \in Int /\ UpTo(s, i) = UpTo(s, i - 1) + s[i]
  BY UpToAre
<1>3. \A i \in 1..n : /\ PeakUpTo(s, i) \in Int
                      /\ \E j \in 1..i : PeakUpTo(s, i) = UpTo(s, j)
                      /\ \A j \in 1..i : UpTo(s, j) <= PeakUpTo(s, i)
  BY PeakIs
<1>4. \A i \in 1..n + 1 : /\ PeakUpTo(t, i) \in Int
                          /\ \E j \in 1..i : PeakUpTo(t, i) = UpTo(t, j)
                          /\ \A j \in 1..i : UpTo(t, j) <= PeakUpTo(t, i)
  BY <1>1, PeakIs
<1>5. \A i \in 1..n : Drawdowns(s)[i] = UpTo(s, i) - PeakUpTo(s, i)
  BY DrawdownsAre
<1>6. \A i \in 1..n + 1 : Drawdowns(t)[i] = UpTo(t, i) - PeakUpTo(t, i)
  BY <1>1, DrawdownsAre
<1>7. /\ DeepestDrawdown(s) \in Int /\ DeepestDrawdown(s) <= 0
      /\ \/ DeepestDrawdown(s) = 0
         \/ \E i \in 1..n : DeepestDrawdown(s) = Drawdowns(s)[i]
      /\ \A i \in 1..n : DeepestDrawdown(s) <= Drawdowns(s)[i]
  BY DeepestIs
<1>8. /\ DeepestDrawdown(t) \in Int /\ DeepestDrawdown(t) <= 0
      /\ \/ DeepestDrawdown(t) = 0
         \/ \E i \in 1..n + 1 : DeepestDrawdown(t) = Drawdowns(t)[i]
      /\ \A i \in 1..n + 1 : DeepestDrawdown(t) <= Drawdowns(t)[i]
  BY <1>1, DeepestIs
<1> HIDE DEF n
<1>9. UpTo(t, 1) = 0
  <2>1. 0 \in 0..n /\ 0 + 1 = 1
    BY <1>1
  <2> QED
    BY <1>1, <1>2, <2>1
<1>10. ASSUME NEW i \in 1..n
       PROVE  /\ UpTo(t, i + 1) = UpTo(s, i) /\ i + 1 \in 1..n + 1 /\ UpTo(s, i) \in Int
              /\ PeakUpTo(t, i + 1) \in Int /\ PeakUpTo(s, i) \in Int
              /\ PeakUpTo(s, i) <= PeakUpTo(t, i + 1)
              /\ PeakUpTo(t, i + 1) = 0 \/ PeakUpTo(t, i + 1) = PeakUpTo(s, i)
  <2>1. i \in 0..n /\ i + 1 \in 1..n + 1
    BY <1>1
  <2>2. PICK j \in 1..i : PeakUpTo(s, i) = UpTo(s, j)
    BY <1>3
  <2>3. j \in 0..n /\ j + 1 \in 1..i + 1
    BY <1>1
  <2>4. PeakUpTo(s, i) <= PeakUpTo(t, i + 1)
    BY <1>1, <1>4, <2>1, <2>2, <2>3
  <2>5. PICK k \in 1..i + 1 : PeakUpTo(t, i + 1) = UpTo(t, k)
    BY <1>4, <2>1
  <2>6. k = 1 \/ (k - 1 \in 1..i /\ k - 1 \in 0..n /\ (k - 1) + 1 = k)
    BY <1>1
  <2>7. CASE k = 1
    BY <1>1, <1>2, <1>3, <1>4, <1>9, <2>1, <2>4, <2>5, <2>7
  <2>8. CASE k - 1 \in 1..i /\ k - 1 \in 0..n /\ (k - 1) + 1 = k
    <3>1. UpTo(t, k) = UpTo(s, k - 1) /\ UpTo(s, k - 1) <= PeakUpTo(s, i)
      BY <1>1, <1>3, <2>8
    <3>2. PeakUpTo(s, i) \in Int /\ PeakUpTo(t, i + 1) \in Int
      BY <1>3, <1>4, <2>1
    <3>3. PeakUpTo(t, i + 1) = PeakUpTo(s, i)
      BY <2>4, <2>5, <3>1, <3>2
    <3> QED
      BY <1>1, <1>2, <2>1, <2>4, <3>2, <3>3
  <2> QED
    BY <2>6, <2>7, <2>8
<1>11. DeepestDrawdown(t) <= DeepestDrawdown(s)
  <2>1. CASE DeepestDrawdown(s) = 0
    BY <1>7, <1>8, <2>1
  <2>2. ASSUME NEW i \in 1..n, DeepestDrawdown(s) = Drawdowns(s)[i]
        PROVE  DeepestDrawdown(t) <= DeepestDrawdown(s)
    <3>1. DeepestDrawdown(t) <= UpTo(s, i) - PeakUpTo(t, i + 1)
      BY <1>6, <1>8, <1>10
    <3> QED
      BY <1>5, <1>7, <1>8, <1>10, <2>2, <3>1
  <2> QED
    BY <1>7, <2>1, <2>2
<1>12. ASSUME n > 0
       PROVE  /\ s[1] \in Int
              /\ \/ DeepestDrawdown(s) <= DeepestDrawdown(t)
                 \/ s[1] <= 0 /\ DeepestDrawdown(s) <= DeepestDrawdown(t) - s[1]
  <2>1. 1 \in 1..n /\ 1 - 1 = 0
    BY <1>1, <1>12
  <2>2. s[1] \in Int /\ UpTo(s, 1) = s[1]
    BY <1>2, <2>1
  <2>3. CASE DeepestDrawdown(t) = 0
    BY <1>7, <2>2, <2>3
  <2>4. ASSUME NEW k \in 1..n + 1, DeepestDrawdown(t) = Drawdowns(t)[k], DeepestDrawdown(t) # 0
        PROVE  \/ DeepestDrawdown(s) <= DeepestDrawdown(t)
               \/ s[1] <= 0 /\ DeepestDrawdown(s) <= DeepestDrawdown(t) - s[1]
    <3>1. k # 1
      <4> SUFFICES ASSUME k = 1 PROVE FALSE
        OBVIOUS
      <4>1. PICK j \in 1..1 : PeakUpTo(t, 1) = UpTo(t, j)
        BY <1>4
      <4>2. j = 1
        OBVIOUS
      <4> QED
        BY <1>6, <1>9, <2>4, <4>1, <4>2
    <3>2. PICK i \in 1..n : k = i + 1
      <4>1. k - 1 \in 1..n /\ k = (k - 1) + 1
        BY <1>1, <3>1
      <4> QED
        BY <4>1
    <3>3. DeepestDrawdown(t) = UpTo(s, i) - PeakUpTo(t, i + 1)
      BY <1>6, <1>10, <2>4, <3>2
    <3>4. DeepestDrawdown(s) <= UpTo(s, i) - PeakUpTo(s, i)
      BY <1>5, <1>7
    <3>5. CASE PeakUpTo(t, i + 1) = PeakUpTo(s, i)
      BY <3>3, <3>4, <3>5
    <3>6. CASE PeakUpTo(t, i + 1) = 0
      <4>1. 1 \in 1..i
        OBVIOUS
      <4>2. s[1] <= PeakUpTo(s, i)
        BY <1>3, <2>2, <4>1
      <4> QED
        BY <1>7, <1>8, <1>10, <2>2, <3>3, <3>4, <3>6, <4>2
    <3> QED
      BY <1>10, <3>5, <3>6
  <2> QED
    BY <1>8, <2>2, <2>3, <2>4
<1> QED
  BY <1>11, <1>12 DEF n

-------------------------------------------------------------------------
(* A fold from the left, with a step that depends on the order.            *)

\* The largest of the first numbers, and of a set of them.
LEMMA MaxOfFirst ==
    ASSUME NEW n \in Nat
    PROVE  /\ \A T \in SUBSET (1..n) : T # {} => Max(T) \in T /\ \A x \in T : x <= Max(T)
           /\ \A k \in 1..n : Max(1..k) = k /\ 1..k # {} /\ 1..k \in SUBSET (1..n)
                              /\ (1..k) \ {k} = 1..k - 1
<1>1. ASSUME NEW T \in SUBSET (1..n), T # {}
      PROVE  Max(T) \in T /\ \A x \in T : x <= Max(T)
  <2>1. T \in SUBSET Int /\ n \in Int /\ \A x \in T : x <= n
    OBVIOUS
  <2> QED
    BY <1>1, <2>1, MaxIn
<1>2. ASSUME NEW k \in 1..n
      PROVE  Max(1..k) = k /\ 1..k # {} /\ 1..k \in SUBSET (1..n) /\ (1..k) \ {k} = 1..k - 1
  <2>1. 1..k # {} /\ 1..k \in SUBSET (1..n) /\ (1..k) \ {k} = 1..k - 1 /\ k \in 1..k
    OBVIOUS
  <2>2. Max(1..k) \in 1..k /\ \A x \in 1..k : x <= Max(1..k)
    BY <1>1, <2>1
  <2>3. PICK m \in 1..k : m = Max(1..k)
    BY <2>2
  <2>4. m = k
    BY <2>1, <2>2, <2>3
  <2> QED
    BY <2>1, <2>3, <2>4
<1> QED
  BY <1>1, <1>2

\* The functions that fold s from the left over every set of its positions.
FoldsOf(A, n, s, base, step) ==
    {f \in [SUBSET (1..n) -> A] :
        \A T \in SUBSET (1..n) :
           f[T] = IF T = {} THEN base ELSE step[<<f[T \ {Max(T)}], s[Max(T)]>>]}

\* The recursive definition of a fold has a solution, whatever the step.
LEMMA FoldExists ==
    ASSUME NEW A, NEW E, NEW n \in Nat, NEW s \in [1..n -> E], NEW base \in A,
           NEW step \in [A \X E -> A]
    PROVE  FoldsOf(A, n, s, base, step) # {}
<1> DEFINE Solves(f, m) ==
               \A T \in SUBSET (1..m) :
                  f[T] = IF T = {} THEN base ELSE step[<<f[T \ {Max(T)}], s[Max(T)]>>]
           Solved == {m \in 0..n : \E f \in [SUBSET (1..m) -> A] : Solves(f, m)}
<1>1. 0 \in Solved
  <2> DEFINE f == [T \in SUBSET (1..0) |-> base]
  <2>1. \A T \in SUBSET (1..0) : T = {}
    OBVIOUS
  <2>2. f \in [SUBSET (1..0) -> A] /\ Solves(f, 0)
    BY <2>1
  <2>3. 0 \in 0..n
    OBVIOUS
  <2> HIDE DEF f, Solves
  <2> QED
    BY <2>2, <2>3
<1>2. ASSUME NEW m \in 1..n, m - 1 \in Solved PROVE m \in Solved
  <2>1. PICK f \in [SUBSET (1..m - 1) -> A] : Solves(f, m - 1)
    BY <1>2
  <2>2. m \in Nat /\ m - 1 \in Nat /\ 1..m - 1 \subseteq 1..m /\ m \notin 1..m - 1
    OBVIOUS
  <2>3. \A T \in SUBSET (1..m) : T \ {m} \in SUBSET (1..m - 1)
    OBVIOUS
  <2>4. s[m] \in E
    OBVIOUS
  <2> DEFINE g == [T \in SUBSET (1..m) |-> IF m \in T THEN step[<<f[T \ {m}], s[m]>>] ELSE f[T]]
  <2>5. \A T \in SUBSET (1..m) : m \notin T => T \in SUBSET (1..m - 1)
    OBVIOUS
  <2>6. g \in [SUBSET (1..m) -> A]
    <3>1. ASSUME NEW T \in SUBSET (1..m)
          PROVE  (IF m \in T THEN step[<<f[T \ {m}], s[m]>>] ELSE f[T]) \in A
      <4>1. CASE m \in T
        <5>1. <<f[T \ {m}], s[m]>> \in A \X E
          BY <2>3, <2>4
        <5>2. step[<<f[T \ {m}], s[m]>>] \in A
          BY <5>1
        <5> QED
          BY <4>1, <5>2
      <4>2. CASE m \notin T
        BY <2>5, <4>2
      <4> QED
        BY <4>1, <4>2
    <3> QED
      BY <3>1
  <2>7. \A T \in SUBSET (1..m - 1) : g[T] = f[T]
    BY <2>2
  <2>8. ASSUME NEW T \in SUBSET (1..m)
        PROVE  g[T] = IF T = {} THEN base ELSE step[<<g[T \ {Max(T)}], s[Max(T)]>>]
    <3>1. CASE m \in T
      <4>1. Max(T) \in T /\ \A x \in T : x <= Max(T)
        BY <2>2, <3>1, MaxOfFirst
      <4>2. PICK k \in 1..m : k = Max(T)
        BY <4>1
      <4>3. k = m
        BY <3>1, <4>1, <4>2
      <4>4. g[T] = step[<<f[T \ {m}], s[m]>>] /\ g[T \ {m}] = f[T \ {m}] /\ T # {}
        BY <2>3, <2>7, <3>1
      <4> HIDE DEF g
      <4> QED
        BY <4>2, <4>3, <4>4, Zenon
    <3>2. CASE m \notin T
      <4>1. T \in SUBSET (1..m - 1)
        BY <2>5, <3>2
      <4>2. f[T] = IF T = {} THEN base ELSE step[<<f[T \ {Max(T)}], s[Max(T)]>>]
        BY <2>1, <4>1
      <4>3. T \ {Max(T)} \in SUBSET (1..m - 1)
        BY <4>1
      <4>4. g[T] = f[T] /\ g[T \ {Max(T)}] = f[T \ {Max(T)}]
        BY <2>7, <4>1, <4>3
      <4> HIDE DEF g
      <4> QED
        BY <4>2, <4>4, Zenon
    <3> QED
      BY <3>1, <3>2
  <2>9. Solves(g, m)
    <3> HIDE DEF g
    <3> QED
      BY <2>8
  <2> HIDE DEF g, Solves
  <2>10. m \in 0..n
    OBVIOUS
  <2> QED
    BY <2>6, <2>9, <2>10
<1>3. \A m \in 1..n : m - 1 \in Solved => m \in Solved
  BY <1>2
<1> HIDE DEF Solved
<1>4. \A m \in 0..n : m \in Solved
  BY <1>1, <1>3, EveryPrefix
<1>5. n \in Solved
  BY <1>4
<1> QED
  BY <1>5 DEF Solved, FoldsOf

\* The sums over two sequences in a row.
LEMMA SumConcat ==
    ASSUME NEW s \in Seq(Int), NEW t \in Seq(Int)
    PROVE  SumSeq(s \o t) = SumSeq(s) + SumSeq(t)
<1> DEFINE Good == {i \in 0..Len(t) : SumSeq(s \o SubSeq(t, 1, i)) = SumSeq(s) + UpTo(t, i)}
<1>1. /\ UpTo(t, 0) = 0 /\ UpTo(t, Len(t)) = SumSeq(t) /\ Len(t) \in Nat
      /\ \A i \in 0..Len(t) : UpTo(t, i) \in Int
      /\ \A i \in 1..Len(t) : t[i] \in Int /\ UpTo(t, i) = UpTo(t, i - 1) + t[i]
  BY UpToAre
<1>2. SumSeq(s) \in Int
  BY SumType
<1>3. 0 \in Good
  <2>1. s \o SubSeq(t, 1, 0) = s
    OBVIOUS
  <2>2. SumSeq(s \o SubSeq(t, 1, 0)) = SumSeq(s) + UpTo(t, 0)
    <3>1. \A x \in Int : x + 0 = x
      OBVIOUS
    <3> QED
      BY <1>1, <1>2, <2>1, <3>1, Zenon
  <2>3. 0 \in 0..Len(t)
    OBVIOUS
  <2> QED
    BY <2>2, <2>3, Zenon
<1>4. ASSUME NEW i \in 1..Len(t), i - 1 \in Good PROVE i \in Good
  <2>1. /\ SubSeq(t, 1, i - 1) \in Seq(Int) /\ s \o SubSeq(t, 1, i - 1) \in Seq(Int)
        /\ i \in 0..Len(t) /\ i - 1 \in 0..Len(t) /\ t[i] \in Int
    OBVIOUS
  <2>2. s \o SubSeq(t, 1, i) = Append(s \o SubSeq(t, 1, i - 1), t[i])
    <3>1. SubSeq(t, 1, i) = Append(SubSeq(t, 1, i - 1), t[i])
      OBVIOUS
    <3> QED
      BY <2>1, <3>1
  <2>3. SumSeq(s \o SubSeq(t, 1, i)) = SumSeq(s \o SubSeq(t, 1, i - 1)) + t[i]
    BY <2>1, <2>2, SumAppend
  <2>4. SumSeq(s \o SubSeq(t, 1, i - 1)) = SumSeq(s) + UpTo(t, i - 1)
    BY <1>4
  <2>5. \A x, y, z \in Int : (x + y) + z = x + (y + z)
    OBVIOUS
  <2>6. (SumSeq(s) + UpTo(t, i - 1)) + t[i] = SumSeq(s) + (UpTo(t, i - 1) + t[i])
    BY <1>1, <1>2, <2>1, <2>5, Zenon
  <2>7. UpTo(t, i) = UpTo(t, i - 1) + t[i]
    BY <1>1, Zenon
  <2> QED
    BY <2>1, <2>3, <2>4, <2>6, <2>7, Zenon
<1>5. \A i \in 0..Len(t) : i \in Good
  <2> HIDE DEF Good
  <2>1. \A i \in 1..Len(t) : i - 1 \in Good => i \in Good
    BY <1>4
  <2> QED
    BY <1>1, <1>3, <2>1, EveryPrefix
<1>6. Len(t) \in 0..Len(t) /\ SubSeq(t, 1, Len(t)) = t
  OBVIOUS
<1> QED
  BY <1>1, <1>5, <1>6

\* What lies between two running sums.
LEMMA SumBetween ==
    ASSUME NEW s \in Seq(Int), NEW i \in 0..Len(s), NEW j \in i..Len(s)
    PROVE  SumSeq(SubSeq(s, i + 1, j)) = UpTo(s, j) - UpTo(s, i)
<1>1. /\ Len(s) \in Nat /\ i \in Nat /\ j \in Nat
      /\ \A k \in 0..Len(s) : UpTo(s, k) \in Int
      /\ \A k \in 1..Len(s) : s[k] \in Int /\ UpTo(s, k) = UpTo(s, k - 1) + s[k]
  BY UpToAre
<1>2. SubSeq(s, 1, j) = SubSeq(s, 1, i) \o SubSeq(s, i + 1, j)
  OBVIOUS
<1>3. SubSeq(s, 1, i) \in Seq(Int) /\ SubSeq(s, i + 1, j) \in Seq(Int)
  OBVIOUS
<1>4. UpTo(s, j) = UpTo(s, i) + SumSeq(SubSeq(s, i + 1, j))
  BY <1>2, <1>3, SumConcat DEF UpTo
<1>5. \A x, y, z \in Int : x = y + z => z = x - y
  OBVIOUS
<1>6. UpTo(s, j) \in Int /\ UpTo(s, i) \in Int /\ SumSeq(SubSeq(s, i + 1, j)) \in Int
  <2>1. j \in 0..Len(s)
    BY <1>1
  <2> QED
    BY <1>1, <1>3, <2>1, SumType
<1> QED
  BY <1>4, <1>5, <1>6, Zenon

\* Two and three sequences in a row.
LEMMA FlattenIs ==
    ASSUME NEW r
    PROVE  /\ Len(r) = 0 => FlattenSeq(r) = r
           /\ Len(r) = 1 => FlattenSeq(r) = r[1]
           /\ Len(r) = 2 => FlattenSeq(r) = r[1] \o r[2]
           /\ Len(r) = 3 => FlattenSeq(r) = (r[1] \o r[2]) \o r[3]
<1> DEFINE flat == CHOOSE f : f = [i \in 1..Len(r) |->
                                      IF i = 1 THEN r[i] ELSE f[i - 1] \o r[i]]
<1>1. FlattenSeq(r) = IF Len(r) = 0 THEN r ELSE flat[Len(r)]
  BY DEF FlattenSeq
<1>2. ASSUME Len(r) \in 1..3
      PROVE  flat = [i \in 1..Len(r) |-> IF i = 1 THEN r[i] ELSE flat[i - 1] \o r[i]]
  <2> DEFINE g == [i \in 1..Len(r) |-> IF i = 1 THEN r[1]
                                       ELSE IF i = 2 THEN r[1] \o r[2]
                                       ELSE (r[1] \o r[2]) \o r[3]]
  <2>1. PICK n \in 1..3 : n = Len(r)
    BY <1>2
  <2>2. ASSUME NEW i \in 1..Len(r)
        PROVE  g[i] = IF i = 1 THEN r[i] ELSE g[i - 1] \o r[i]
    <3>1. i = 1 \/ (i = 2 /\ 1 \in 1..Len(r)) \/ (i = 3 /\ 2 \in 1..Len(r))
      BY <2>1
    <3>2. i # 1 => i - 1 \in 1..Len(r)
      BY <2>1
    <3> QED
      BY <3>1, <3>2
  <2>3. g = [i \in 1..Len(r) |-> IF i = 1 THEN r[i] ELSE g[i - 1] \o r[i]]
    <3>1. g = [i \in 1..Len(r) |-> g[i]]
      OBVIOUS
    <3> HIDE DEF g
    <3> QED
      BY <2>2, <3>1
  <2> HIDE DEF g
  <2> QED
    BY <2>3, Zenon
<1> HIDE DEF flat
<1>3. ASSUME Len(r) = 1 PROVE flat[1] = r[1]
  <2>1. 1 \in 1..Len(r) /\ Len(r) \in 1..3
    BY <1>3
  <2> QED
    BY <1>2, <2>1
<1>4. ASSUME Len(r) = 2 PROVE flat[2] = r[1] \o r[2]
  <2>1. 1 \in 1..Len(r) /\ 2 \in 1..Len(r) /\ 2 # 1 /\ 2 - 1 = 1 /\ Len(r) \in 1..3
    BY <1>4
  <2> QED
    BY <1>2, <2>1
<1>5. ASSUME Len(r) = 3 PROVE flat[3] = (r[1] \o r[2]) \o r[3]
  <2>1. /\ 1 \in 1..Len(r) /\ 2 \in 1..Len(r) /\ 3 \in 1..Len(r) /\ Len(r) \in 1..3
        /\ 2 # 1 /\ 2 - 1 = 1 /\ 3 # 1 /\ 3 - 1 = 2
    BY <1>5
  <2>2. \A i \in 1..Len(r) : flat[i] = IF i = 1 THEN r[i] ELSE flat[i - 1] \o r[i]
    BY <1>2, <2>1
  <2>3. flat[1] = r[1] /\ flat[2] = flat[1] \o r[2] /\ flat[3] = flat[2] \o r[3]
    BY <2>1, <2>2
  <2> QED
    BY <2>3, Zenon
<1>6. Len(r) \in {1, 2, 3} => Len(r) # 0
  OBVIOUS
<1> QED
  BY <1>1, <1>3, <1>4, <1>5, <1>6, Zenon

\* Between any two rows the curve falls by no more than the deepest drawdown.
LEMMA FallsNoDeeper ==
    ASSUME NEW s \in Seq(Int), NEW i \in 1..Len(s), NEW j \in 1..Len(s), i < j
    PROVE  /\ DeepestDrawdown(s) \in Int /\ SumSeq(SubSeq(s, i + 1, j)) \in Int
           /\ DeepestDrawdown(s) <= SumSeq(SubSeq(s, i + 1, j))
<1>1. i \in 0..Len(s) /\ j \in i..Len(s) /\ i \in 1..j
  OBVIOUS
<1>2. SumSeq(SubSeq(s, i + 1, j)) = UpTo(s, j) - UpTo(s, i)
  BY <1>1, SumBetween
<1>3. PeakUpTo(s, j) \in Int /\ UpTo(s, i) \in Int /\ UpTo(s, i) <= PeakUpTo(s, j)
  BY <1>1, PeakIs
<1>4. UpTo(s, j) \in Int
  BY UpToAre
<1>5. Drawdowns(s)[j] = UpTo(s, j) - PeakUpTo(s, j)
  BY DrawdownsAre
<1>6. DeepestDrawdown(s) \in Int /\ DeepestDrawdown(s) <= Drawdowns(s)[j]
  BY DeepestIs
<1>7. \A d, u, v, p \in Int : d <= u - p /\ v <= p => d <= u - v
  OBVIOUS
<1>8. DeepestDrawdown(s) <= UpTo(s, j) - UpTo(s, i)
  BY <1>3, <1>4, <1>5, <1>6, <1>7
<1>9. UpTo(s, j) - UpTo(s, i) \in Int
  BY <1>3, <1>4
<1> QED
  BY <1>2, <1>6, <1>8, <1>9, Zenon

TakenApart(f, g, h, D) == \A x \in D : f[x] = g[x] + h[x]

\* Sums that are taken apart, argument by argument.
LEMMA SetSumsPlus ==
    ASSUME NEW D, IsFiniteSet(D), NEW f \in [D -> Int], NEW g \in [D -> Int],
           NEW h \in [D -> Int], TakenApart(f, g, h, D)
    PROVE  \A S \in SUBSET D : /\ SetSums(f)[S] = SetSums(g)[S] + SetSums(h)[S]
                               /\ SetSums(g)[S] \in Int /\ SetSums(h)[S] \in Int
<1> DEFINE F == SetSums(f)
           G == SetSums(g)
           H == SetSums(h)
           Apart == {n \in Nat : \A S \in SUBSET D : Cardinality(S) = n => F[S] = G[S] + H[S]}
<1>1. \A S \in SUBSET D : S # {} => F[S] = f[Picked(S)] + F[S \ {Picked(S)}]
  BY SetSumsAre
<1>2. \A S \in SUBSET D : S # {} => G[S] = g[Picked(S)] + G[S \ {Picked(S)}]
  BY SetSumsAre
<1>3. \A S \in SUBSET D : S # {} => H[S] = h[Picked(S)] + H[S \ {Picked(S)}]
  BY SetSumsAre
<1>4. F[{}] = 0 /\ G[{}] = 0 /\ H[{}] = 0
  BY SetSumsAre
<1>5. \A S \in SUBSET D : F[S] \in Int
  BY SetSumsAre
<1>6. \A S \in SUBSET D : G[S] \in Int
  BY SetSumsAre
<1>7. \A S \in SUBSET D : H[S] \in Int
  BY SetSumsAre
<1> HIDE DEF F, G, H
<1>8. \A S \in SUBSET D : IsFiniteSet(S) /\ Cardinality(S) \in Nat
  BY FS_Subset, FS_CardinalityType
<1>9. \A S \in SUBSET D : S # {} => /\ Picked(S) \in D /\ S \ {Picked(S)} \in SUBSET D
                                    /\ Cardinality(S \ {Picked(S)}) = Cardinality(S) - 1
  BY <1>8, FS_RemoveElement DEF Picked
<1>10. 0 \in Apart
  <2>1. \A S \in SUBSET D : Cardinality(S) = 0 => S = {}
    BY <1>8, FS_EmptySet
  <2>2. F[{}] = G[{}] + H[{}]
    BY <1>4
  <2> QED
    BY <2>1, <2>2
<1>11. ASSUME NEW n \in Nat, n \in Apart PROVE n + 1 \in Apart
  <2> SUFFICES ASSUME NEW S \in SUBSET D, Cardinality(S) = n + 1 PROVE F[S] = G[S] + H[S]
    OBVIOUS
  <2>1. S # {}
    <3>1. Cardinality(S) # 0 /\ Cardinality({}) = 0
      BY FS_EmptySet
    <3> QED
      BY <3>1
  <2>2. PICK x \in D, R \in SUBSET D : x = Picked(S) /\ R = S \ {Picked(S)} /\ Cardinality(R) = n
    <3>1. Cardinality(S) - 1 = n
      OBVIOUS
    <3> QED
      BY <1>9, <2>1, <3>1, Zenon
  <2>3. F[R] = G[R] + H[R]
    BY <1>11, <2>2
  <2>4. F[S] = f[x] + F[R] /\ G[S] = g[x] + G[R] /\ H[S] = h[x] + H[R]
    BY <1>1, <1>2, <1>3, <2>1, <2>2
  <2>5. f[x] = g[x] + h[x] /\ g[x] \in Int /\ h[x] \in Int
    BY DEF TakenApart
  <2>6. G[R] \in Int /\ H[R] \in Int
    BY <1>6, <1>7
  <2> QED
    BY <2>3, <2>4, <2>5, <2>6
<1>12. Nat \subseteq Apart
  <2> HIDE DEF Apart
  <2> QED
    BY <1>10, <1>11, Inductive
<1>13. \A S \in SUBSET D : F[S] = G[S] + H[S]
  BY <1>8, <1>12
<1> QED
  BY <1>6, <1>7, <1>13 DEF F, G, H

LabelCounts(label, n, D) == [x \in D |-> Cardinality({i \in 1..n : label[i] = x})]

\* The positions of a sequence, counted by what they are labelled.
LEMMA CountedByLabel ==
    ASSUME NEW n \in Nat, NEW D, IsFiniteSet(D), NEW label \in [1..n -> D]
    PROVE  /\ LabelCounts(label, n, D) \in [D -> Int]
           /\ SetSums(LabelCounts(label, n, D))[D] = n
<1>0. PICK f : f = LabelCounts(label, n, D)
  OBVIOUS
<1> DEFINE Of(S) == {i \in 1..n : label[i] \in S}
           Fits == {k \in Nat : \A S \in SUBSET D : Cardinality(S) = k =>
                                    SetSums(f)[S] = Cardinality(Of(S))}
<1>1. \A S : IsFiniteSet(Of(S)) /\ Cardinality(Of(S)) \in Nat
  <2>1. IsFiniteSet(1..n)
    BY FS_Interval
  <2>2. \A S : Of(S) \in SUBSET (1..n)
    OBVIOUS
  <2> HIDE DEF Of
  <2> QED
    BY <2>1, <2>2, FS_Subset, FS_CardinalityType
<1>2. \A x \in D : {i \in 1..n : label[i] = x} = Of({x})
  OBVIOUS
<1>3. f \in [D -> Int] /\ \A x \in D : f[x] = Cardinality(Of({x}))
  <2> HIDE DEF Of
  <2>1. \A x \in D : Cardinality({i \in 1..n : label[i] = x}) \in Int
    <3>1. \A x \in D : Cardinality(Of({x})) \in Int
      BY <1>1
    <3> QED
      BY <1>2, <3>1, Zenon
  <2>2. \A x \in D : f[x] = Cardinality({i \in 1..n : label[i] = x})
    BY <1>0 DEF LabelCounts
  <2>3. f \in [D -> Int]
    BY <1>0, <2>1 DEF LabelCounts
  <2> QED
    BY <1>2, <2>2, <2>3, Zenon
<1>4. /\ SetSums(f)[{}] = 0
      /\ \A S \in SUBSET D : S # {} => SetSums(f)[S] = f[Picked(S)] + SetSums(f)[S \ {Picked(S)}]
  BY <1>3, SetSumsAre
<1>5. \A S \in SUBSET D : IsFiniteSet(S) /\ Cardinality(S) \in Nat
  BY FS_Subset, FS_CardinalityType
<1>6. \A S \in SUBSET D : S # {} => /\ Picked(S) \in S /\ Picked(S) \in D
                                    /\ S \ {Picked(S)} \in SUBSET D
                                    /\ Cardinality(S \ {Picked(S)}) = Cardinality(S) - 1
  BY <1>5, FS_RemoveElement DEF Picked
<1>7. 0 \in Fits
  <2>1. Of({}) = {} /\ Cardinality({}) = 0
    BY FS_EmptySet
  <2> QED
    BY <1>4, <1>5, <2>1, FS_EmptySet
<1>8. ASSUME NEW k \in Nat, k \in Fits PROVE k + 1 \in Fits
  <2> HIDE DEF Of
  <2> SUFFICES ASSUME NEW S \in SUBSET D, Cardinality(S) = k + 1
               PROVE  SetSums(f)[S] = Cardinality(Of(S))
    OBVIOUS
  <2>1. S # {}
    <3>1. Cardinality(S) # 0 /\ Cardinality({}) = 0
      BY FS_EmptySet
    <3> QED
      BY <3>1
  <2>2. PICK x \in D, R \in SUBSET D : /\ x = Picked(S) /\ R = S \ {x} /\ Cardinality(R) = k
                                       /\ x \in S
    <3>1. Cardinality(S) - 1 = k
      OBVIOUS
    <3> QED
      BY <1>6, <2>1, <3>1, Zenon
  <2>3. SetSums(f)[S] = f[x] + SetSums(f)[R]
    BY <1>4, <2>1, <2>2
  <2>4. SetSums(f)[R] = Cardinality(Of(R)) /\ f[x] = Cardinality(Of({x}))
    BY <1>3, <1>8, <2>2
  <2>5. Of(S) = Of({x}) \cup Of(R) /\ Of({x}) \cap Of(R) = {}
    BY <2>2 DEF Of
  <2>6. Cardinality(Of(S)) = Cardinality(Of({x})) + Cardinality(Of(R))
    <3>1. PICK P, Q : P = Of({x}) /\ Q = Of(R)
      OBVIOUS
    <3>2. Cardinality(P \cup Q) = Cardinality(P) + Cardinality(Q) - Cardinality(P \cap Q)
      BY <1>1, <3>1, FS_Union
    <3>3. Cardinality(P \cap Q) = 0
      BY <2>5, <3>1, FS_EmptySet
    <3> QED
      BY <1>1, <2>5, <3>1, <3>2, <3>3
  <2> QED
    BY <2>3, <2>4, <2>6
<1>9. Nat \subseteq Fits
  <2> HIDE DEF Fits
  <2> QED
    BY <1>7, <1>8, Inductive
<1>10. SetSums(f)[D] = Cardinality(Of(D))
  <2>1. D \in SUBSET D /\ Cardinality(D) \in Nat
    BY <1>5
  <2>2. Cardinality(D) \in Fits
    BY <1>9, <2>1
  <2> QED
    BY <2>1, <2>2
<1>11. Of(D) = 1..n /\ Cardinality(1..n) = n
  BY FS_Interval
<1> QED
  BY <1>0, <1>3, <1>10, <1>11
=======================================================================
