--------------------------------- MODULE Sums ---------------------------------
(***************************************************************************)
(* Sums of naturals over finite sets, as the byte counts of the spool and  *)
(* of the mailboxes are: SumFunctionOnSet of module Functions adds the     *)
(* elements one by one in an order it chooses.  Here: that it is defined,  *)
(* and that the order does not matter.                                     *)
(***************************************************************************)
EXTENDS Functions, FiniteSetTheorems, WellFoundedInduction, TLAPS

------------------------------------------------------------------------------
(***************************************************************************)
(* Numbers.                                                                *)
(***************************************************************************)

\* A set of numbers that is not empty has a least.
LEMMA Least ==
  ASSUME NEW S \in SUBSET Nat, S # {}
  PROVE  \E i \in S : \A j \in S : i <= j
  <1> DEFINE Below == {p \in Nat \X Nat : p[1] < p[2]}
  <1>1. OpToRel(<, Nat) = Below
    BY DEF OpToRel
  <1>2. PICK i \in S : \A j \in S : ~ (<<j, i>> \in Below)
    BY <1>1, NatLessThanWellFounded, WFMin
  <1>3. ASSUME NEW j \in S
        PROVE  i <= j
    <2>1. i \in Nat /\ j \in Nat /\ ~ (<<j, i>> \in Below)
      BY <1>2
    <2>2. j < i => <<j, i>> \in Below
      BY <2>1
    <2> QED
      BY <2>1, <2>2
  <1> QED
    BY <1>2, <1>3

\* Induction, as a fact about sets of numbers.
LEMMA Induction ==
  ASSUME NEW S \in SUBSET Nat, 0 \in S, \A n \in S : n + 1 \in S
  PROVE  S = Nat
  <1> SUFFICES ASSUME Nat \ S # {} PROVE FALSE
    OBVIOUS
  <1>1. PICK i \in Nat \ S : \A j \in Nat \ S : i <= j
    BY Least
  <1>2. i # 0 /\ i - 1 \in Nat /\ i - 1 < i
    OBVIOUS
  <1>3. i - 1 \in S
    BY <1>1, <1>2
  <1> QED
    BY <1>2, <1>3

------------------------------------------------------------------------------
(***************************************************************************)
(* The recursion behind SumFunctionOnSet.                                  *)
(***************************************************************************)

Chosen(s) == CHOOSE x \in s : TRUE

\* h[s] is the sum of f over s, for the subsets s of S.
IsSum(h, f, S) ==
  h = [s \in SUBSET S |-> IF s = {} THEN 0 ELSE f[Chosen(s)] + h[s \ {Chosen(s)}]]

LEMMA SumIs ==
  ASSUME NEW f, NEW S
  PROVE  SumFunctionOnSet(f, S) = (CHOOSE h : IsSum(h, f, S))[S]
  BY DEF SumFunctionOnSet, FoldFunctionOnSet, MapThenFoldSet, IsSum, Chosen

\* The subsets of a finite set, by size.
LEMMA Smaller ==
  ASSUME NEW S, IsFiniteSet(S), NEW s \in SUBSET S
  PROVE  /\ IsFiniteSet(s) /\ Cardinality(s) \in Nat /\ Cardinality(s) <= Cardinality(S)
         /\ Cardinality(s) = 0 <=> s = {}
         /\ \A x \in s : s \ {x} \in SUBSET S /\ Cardinality(s \ {x}) = Cardinality(s) - 1
         /\ s # {} => Chosen(s) \in s
  <1>1. IsFiniteSet(s) /\ Cardinality(s) <= Cardinality(S)
    BY FS_Subset
  <1>2. Cardinality(s) \in Nat
    BY <1>1, FS_CardinalityType
  <1>3. Cardinality(s) = 0 <=> s = {}
    BY <1>1, FS_EmptySet
  <1>4. \A x \in s : Cardinality(s \ {x}) = Cardinality(s) - 1
    BY <1>1, FS_RemoveElement
  <1>5. s # {} => Chosen(s) \in s
    BY DEF Chosen
  <1> QED
    BY <1>1, <1>2, <1>3, <1>4, <1>5

Sized(S, n) == {s \in SUBSET S : Cardinality(s) <= n}

LEMMA SumExists ==
  ASSUME NEW f, NEW S, IsFiniteSet(S)
  PROVE  \E h : IsSum(h, f, S)
  <1> DEFINE Eq(h, n) == h = [s \in Sized(S, n) |-> IF s = {} THEN 0
                                                   ELSE f[Chosen(s)] + h[s \ {Chosen(s)}]]
             N == {n \in Nat : \E h : Eq(h, n)}
  <1>1. 0 \in N
    <2> DEFINE h == [s \in Sized(S, 0) |-> 0]
    <2>1. \A s \in Sized(S, 0) : s = {}
      BY Smaller DEF Sized
    <2>2. Eq(h, 0)
      BY <2>1
    <2> QED
      BY <2>2
  <1>2. ASSUME NEW n \in N PROVE n + 1 \in N
    <2>0. n \in Nat
      OBVIOUS
    <2>1. PICK h : Eq(h, n)
      OBVIOUS
    <2> DEFINE g == [s \in Sized(S, n + 1) |-> IF s = {} THEN 0
                                              ELSE f[Chosen(s)] + h[s \ {Chosen(s)}]]
    <2>2. ASSUME NEW s \in Sized(S, n) PROVE g[s] = h[s]
      <3>1. s \in Sized(S, n + 1)
        BY <2>0, Smaller DEF Sized
      <3>2. h[s] = IF s = {} THEN 0 ELSE f[Chosen(s)] + h[s \ {Chosen(s)}]
        BY <2>1
      <3>3. g[s] = IF s = {} THEN 0 ELSE f[Chosen(s)] + h[s \ {Chosen(s)}]
        BY <3>1
      <3> QED
        BY <3>2, <3>3
    <2>3. ASSUME NEW s \in Sized(S, n + 1), s # {}
          PROVE  s \ {Chosen(s)} \in Sized(S, n)
      BY <2>0, <2>3, Smaller DEF Sized
    <2>4. ASSUME NEW s \in Sized(S, n + 1)
          PROVE  g[s] = IF s = {} THEN 0 ELSE f[Chosen(s)] + g[s \ {Chosen(s)}]
      <3>1. g[s] = IF s = {} THEN 0 ELSE f[Chosen(s)] + h[s \ {Chosen(s)}]
        OBVIOUS
      <3> HIDE DEF g
      <3>2. s # {} => g[s \ {Chosen(s)}] = h[s \ {Chosen(s)}]
        BY <2>2, <2>3
      <3> QED
        BY <3>1, <3>2
    <2>5. g = [s \in Sized(S, n + 1) |-> g[s]]
      OBVIOUS
    <2> HIDE DEF g
    <2>6. Eq(g, n + 1)
      BY <2>4, <2>5
    <2> QED
      BY <2>0, <2>6
  <1> HIDE DEF N
  <1>3. N = Nat
    BY <1>1, <1>2, Induction DEF N
  <1>4. Cardinality(S) \in Nat /\ Sized(S, Cardinality(S)) = SUBSET S
    BY Smaller DEF Sized
  <1>5. PICK h : Eq(h, Cardinality(S))
    BY <1>3, <1>4 DEF N
  <1>6. IsSum(h, f, S)
    BY <1>4, <1>5 DEF IsSum
  <1> QED
    BY <1>6

\* The sum of f over the subsets of S, as a function of the subset.
Total(f, S) == CHOOSE h : IsSum(h, f, S)

LEMMA TotalIs ==
  ASSUME NEW f, NEW S, IsFiniteSet(S)
  PROVE  /\ SumFunctionOnSet(f, S) = Total(f, S)[S]
         /\ Total(f, S)[{}] = 0
         /\ \A s \in SUBSET S : s # {} =>
              Total(f, S)[s] = f[Chosen(s)] + Total(f, S)[s \ {Chosen(s)}]
  <1>1. IsSum(Total(f, S), f, S)
    BY SumExists DEF Total
  <1>2. SumFunctionOnSet(f, S) = Total(f, S)[S]
    BY SumIs DEF Total
  <1> DEFINE h == Total(f, S)
  <1>3. IsSum(h, f, S)
    BY <1>1
  <1> HIDE DEF h
  <1>4. \A s \in SUBSET S : h[s] = IF s = {} THEN 0 ELSE f[Chosen(s)] + h[s \ {Chosen(s)}]
    BY <1>3 DEF IsSum
  <1> QED
    BY <1>2, <1>4 DEF h

LEMMA TotalType ==
  ASSUME NEW f, NEW S, IsFiniteSet(S), \A x \in S : f[x] \in Nat
  PROVE  \A s \in SUBSET S : Total(f, S)[s] \in Nat
  <1> DEFINE h == Total(f, S)
             P(n) == \A s \in SUBSET S : Cardinality(s) <= n => h[s] \in Nat
             N == {n \in Nat : P(n)}
  <1>0. h[{}] = 0 /\ \A s \in SUBSET S : s # {} => h[s] = f[Chosen(s)] + h[s \ {Chosen(s)}]
    BY TotalIs
  <1> HIDE DEF h
  <1>s. \A s \in SUBSET S : Cardinality(s) \in Nat /\ (Cardinality(s) = 0 => s = {})
    BY Smaller
  <1>1. P(0)
    <2>1. \A s \in SUBSET S : Cardinality(s) <= 0 => s = {}
      BY <1>s
    <2>2. h[{}] \in Nat
      BY <1>0
    <2> QED
      BY <2>1, <2>2
  <1>2. ASSUME NEW n \in Nat, P(n) PROVE P(n + 1)
    <2> SUFFICES ASSUME NEW s \in SUBSET S, Cardinality(s) <= n + 1 PROVE h[s] \in Nat
      OBVIOUS
    <2>1. CASE s = {}
      BY <1>0, <2>1
    <2>2. CASE s # {}
      <3>1. Chosen(s) \in s /\ s \ {Chosen(s)} \in SUBSET S /\ Cardinality(s \ {Chosen(s)}) <= n
        BY <1>s, <2>2, Smaller
      <3>2. h[s \ {Chosen(s)}] \in Nat
        BY <1>2, <3>1
      <3>3. f[Chosen(s)] \in Nat
        BY <3>1
      <3>4. h[s] = f[Chosen(s)] + h[s \ {Chosen(s)}]
        BY <1>0, <2>2
      <3> QED
        BY <3>2, <3>3, <3>4
    <2> QED
      BY <2>1, <2>2
  <1>3. N = Nat
    <2> HIDE DEF P
    <2>1. N \in SUBSET Nat /\ 0 \in N /\ \A n \in N : n + 1 \in N
      BY <1>1, <1>2
    <2> HIDE DEF N
    <2> QED
      BY <2>1, Induction
  <1>4. ASSUME NEW s \in SUBSET S PROVE h[s] \in Nat
    <2>1. Cardinality(s) \in N /\ Cardinality(s) <= Cardinality(s)
      BY <1>s, <1>3
    <2> QED
      BY <2>1
  <1> QED
    BY <1>4 DEF h

\* Any element may be the first to be added.
LEMMA TotalSplit ==
  ASSUME NEW f, NEW S, IsFiniteSet(S), \A x \in S : f[x] \in Nat
  PROVE  \A s \in SUBSET S : \A x \in s : Total(f, S)[s] = f[x] + Total(f, S)[s \ {x}]
  <1> DEFINE h == Total(f, S)
             P(n) == \A s \in SUBSET S : Cardinality(s) <= n =>
                       \A x \in s : h[s] = f[x] + h[s \ {x}]
             N == {n \in Nat : P(n)}
  <1>0. /\ \A s \in SUBSET S : h[s] \in Nat
        /\ \A s \in SUBSET S : s # {} => h[s] = f[Chosen(s)] + h[s \ {Chosen(s)}]
    <2>1. \A s \in SUBSET S : h[s] \in Nat
      BY TotalType
    <2>2. \A s \in SUBSET S : s # {} => h[s] = f[Chosen(s)] + h[s \ {Chosen(s)}]
      BY TotalIs
    <2> QED
      BY <2>1, <2>2
  <1> HIDE DEF h
  <1>s. \A s \in SUBSET S : Cardinality(s) \in Nat /\ (Cardinality(s) = 0 => s = {})
    BY Smaller
  <1>1. P(0)
    BY <1>s
  <1>2. ASSUME NEW n \in Nat, P(n) PROVE P(n + 1)
    <2> SUFFICES ASSUME NEW s \in SUBSET S, Cardinality(s) <= n + 1, NEW x \in s
                 PROVE  h[s] = f[x] + h[s \ {x}]
      OBVIOUS
    <2> DEFINE c == Chosen(s)
               r == s \ {c}
               q == s \ {x}
    <2>1. c \in s /\ r \in SUBSET S /\ q \in SUBSET S
          /\ Cardinality(r) <= n /\ Cardinality(q) <= n
      BY <1>s, Smaller
    <2>2. h[s] = f[c] + h[r]
      BY <1>0
    <2> HIDE DEF c
    <2>3. CASE x = c
      BY <2>2, <2>3
    <2>4. CASE x # c
      <3> DEFINE u == s \ {x, c}
      <3>1. x \in r /\ c \in q /\ r \ {x} = u /\ q \ {c} = u /\ u \in SUBSET S
        BY <2>1, <2>4
      <3>2. h[r] = f[x] + h[r \ {x}]
        BY <1>2, <2>1, <3>1
      <3>3. h[q] = f[c] + h[q \ {c}]
        BY <1>2, <2>1, <3>1
      <3>4. h[u] \in Nat /\ f[x] \in Nat /\ f[c] \in Nat
        BY <1>0, <2>1, <3>1
      <3>5. h[r] = f[x] + h[u] /\ h[q] = f[c] + h[u]
        BY <3>1, <3>2, <3>3
      <3> HIDE DEF u, r, q
      <3>6. h[s] = f[x] + h[q]
        BY <2>2, <3>4, <3>5
      <3> QED
        BY <3>6 DEF q
    <2> QED
      BY <2>3, <2>4
  <1>3. N = Nat
    <2> HIDE DEF P
    <2>1. N \in SUBSET Nat /\ 0 \in N /\ \A n \in N : n + 1 \in N
      BY <1>1, <1>2
    <2> HIDE DEF N
    <2> QED
      BY <2>1, Induction
  <1>4. ASSUME NEW s \in SUBSET S PROVE \A x \in s : h[s] = f[x] + h[s \ {x}]
    <2>1. Cardinality(s) \in N /\ Cardinality(s) <= Cardinality(s)
      BY <1>s, <1>3
    <2> QED
      BY <2>1
  <1> QED
    BY <1>4 DEF h

\* Two functions that agree on T have the same sums there.
LEMMA TotalAgrees ==
  ASSUME NEW f, NEW g, NEW S, IsFiniteSet(S), NEW T \in SUBSET S, \A x \in T : f[x] = g[x]
  PROVE  \A s \in SUBSET T : Total(f, S)[s] = Total(g, T)[s]
  <1> DEFINE h == Total(f, S)
             k == Total(g, T)
             P(n) == \A s \in SUBSET T : Cardinality(s) <= n => h[s] = k[s]
             N == {n \in Nat : P(n)}
  <1>0. /\ IsFiniteSet(T)
        /\ h[{}] = k[{}]
        /\ \A s \in SUBSET T : s # {} => /\ h[s] = f[Chosen(s)] + h[s \ {Chosen(s)}]
                                        /\ k[s] = g[Chosen(s)] + k[s \ {Chosen(s)}]
    <2>1. IsFiniteSet(T)
      BY FS_Subset
    <2>2. SUBSET T \subseteq SUBSET S
      OBVIOUS
    <2> QED
      BY <2>1, <2>2, TotalIs
  <1> HIDE DEF h, k
  <1>s. \A s \in SUBSET T : Cardinality(s) \in Nat /\ (Cardinality(s) = 0 => s = {})
    BY <1>0, Smaller
  <1>1. P(0)
    <2>1. \A s \in SUBSET T : Cardinality(s) <= 0 => s = {}
      BY <1>s
    <2> QED
      BY <1>0, <2>1
  <1>2. ASSUME NEW n \in Nat, P(n) PROVE P(n + 1)
    <2> SUFFICES ASSUME NEW s \in SUBSET T, Cardinality(s) <= n + 1, s # {} PROVE h[s] = k[s]
      BY <1>0
    <2>1. Chosen(s) \in s /\ s \ {Chosen(s)} \in SUBSET T /\ Cardinality(s \ {Chosen(s)}) <= n
      BY <1>0, <1>s, Smaller
    <2>2. h[s \ {Chosen(s)}] = k[s \ {Chosen(s)}]
      BY <1>2, <2>1
    <2> QED
      BY <1>0, <2>1, <2>2
  <1>3. N = Nat
    <2> HIDE DEF P
    <2>1. N \in SUBSET Nat /\ 0 \in N /\ \A n \in N : n + 1 \in N
      BY <1>1, <1>2
    <2> HIDE DEF N
    <2> QED
      BY <2>1, Induction
  <1>4. ASSUME NEW s \in SUBSET T PROVE h[s] = k[s]
    <2>1. Cardinality(s) \in N /\ Cardinality(s) <= Cardinality(s)
      BY <1>s, <1>3
    <2> QED
      BY <2>1
  <1> QED
    BY <1>4 DEF h, k

------------------------------------------------------------------------------
(***************************************************************************)
(* What a sum is to those who use it.                                      *)
(***************************************************************************)

LEMMA SumType ==
  ASSUME NEW f, NEW S, IsFiniteSet(S), \A x \in S : f[x] \in Nat
  PROVE  SumFunctionOnSet(f, S) \in Nat
  <1>1. S \in SUBSET S
    OBVIOUS
  <1> QED
    BY <1>1, TotalIs, TotalType

LEMMA SumOfNone ==
  ASSUME NEW f
  PROVE  SumFunctionOnSet(f, {}) = 0
  BY FS_EmptySet, TotalIs

\* A sum over S sees nothing of a function but its values on S.
LEMMA SumAgrees ==
  ASSUME NEW f, NEW g, NEW S, IsFiniteSet(S), \A x \in S : f[x] = g[x]
  PROVE  SumFunctionOnSet(f, S) = SumFunctionOnSet(g, S)
  <1>1. S \in SUBSET S
    OBVIOUS
  <1>2. Total(f, S)[S] = Total(g, S)[S]
    BY <1>1, TotalAgrees
  <1> QED
    BY <1>2, TotalIs

LEMMA SumSplit ==
  ASSUME NEW f, NEW S, IsFiniteSet(S), \A x \in S : f[x] \in Nat, NEW x \in S
  PROVE  SumFunctionOnSet(f, S) = f[x] + SumFunctionOnSet(f, S \ {x})
  <1>1. S \in SUBSET S /\ S \ {x} \in SUBSET S /\ S \ {x} \in SUBSET (S \ {x})
        /\ IsFiniteSet(S \ {x})
    BY FS_RemoveElement
  <1>2. Total(f, S)[S] = f[x] + Total(f, S)[S \ {x}]
    BY <1>1, TotalSplit
  <1>3. Total(f, S)[S \ {x}] = Total(f, S \ {x})[S \ {x}]
    BY <1>1, TotalAgrees
  <1> QED
    BY <1>1, <1>2, <1>3, TotalIs

\* One value changes, and the sum by as much.
LEMMA SumChanges ==
  ASSUME NEW f, NEW g, NEW S, IsFiniteSet(S), NEW x \in S,
         \A y \in S : f[y] \in Nat /\ g[y] \in Nat,
         \A y \in S \ {x} : f[y] = g[y]
  PROVE  SumFunctionOnSet(f, S) + g[x] = SumFunctionOnSet(g, S) + f[x]
  <1>1. IsFiniteSet(S \ {x})
    BY FS_RemoveElement
  <1>2. SumFunctionOnSet(f, S \ {x}) = SumFunctionOnSet(g, S \ {x})
    BY <1>1, SumAgrees
  <1>3. /\ SumFunctionOnSet(f, S) = f[x] + SumFunctionOnSet(f, S \ {x})
        /\ SumFunctionOnSet(g, S) = g[x] + SumFunctionOnSet(g, S \ {x})
    BY SumSplit
  <1>4. SumFunctionOnSet(f, S \ {x}) \in Nat
    BY <1>1, SumType
  <1> QED
    BY <1>2, <1>3, <1>4

\* A part has no greater sum than the whole, and one element less than both.
LEMMA SumOfPart ==
  ASSUME NEW f, NEW S, IsFiniteSet(S), \A x \in S : f[x] \in Nat
  PROVE  \A T \in SUBSET S : SumFunctionOnSet(f, T) <= SumFunctionOnSet(f, S)
  <1> DEFINE N == {n \in Nat : \A T \in SUBSET S : Cardinality(S) - Cardinality(T) <= n =>
                                 SumFunctionOnSet(f, T) <= SumFunctionOnSet(f, S)}
  <1>0. /\ Cardinality(S) \in Nat
        /\ \A T \in SUBSET S : IsFiniteSet(T) /\ Cardinality(T) \in Nat
                               /\ Cardinality(T) <= Cardinality(S)
                               /\ SumFunctionOnSet(f, T) \in Nat
    BY Smaller, SumType
  <1>1. 0 \in N
    <2> SUFFICES ASSUME NEW T \in SUBSET S, Cardinality(S) - Cardinality(T) <= 0
                 PROVE  T = S
      BY <1>0
    <2>1. Cardinality(T) = Cardinality(S)
      BY <1>0
    <2> QED
      BY <2>1, FS_Subset
  <1>2. ASSUME NEW n \in N PROVE n + 1 \in N
    <2> SUFFICES ASSUME NEW T \in SUBSET S, Cardinality(S) - Cardinality(T) <= n + 1, T # S
                 PROVE  SumFunctionOnSet(f, T) <= SumFunctionOnSet(f, S)
      BY <1>0
    <2>1. PICK x \in S : x \notin T
      OBVIOUS
    <2> DEFINE R == T \cup {x}
    <2>2. R \in SUBSET S /\ R \ {x} = T
      BY <2>1
    <2>3. Cardinality(R) = Cardinality(T) + 1
      BY <1>0, <2>1, FS_AddElement
    <2>4. SumFunctionOnSet(f, R) = f[x] + SumFunctionOnSet(f, T)
      <3> HIDE DEF R
      <3>1. x \in R /\ IsFiniteSet(R) /\ \A y \in R : f[y] \in Nat
        BY <1>0, <2>2 DEF R
      <3> QED
        BY <2>2, <3>1, SumSplit
    <2>5. n \in Nat /\ SumFunctionOnSet(f, R) <= SumFunctionOnSet(f, S)
      BY <1>0, <2>2, <2>3
    <2>6. f[x] \in Nat /\ SumFunctionOnSet(f, T) \in Nat /\ SumFunctionOnSet(f, S) \in Nat
      BY <1>0
    <2> QED
      BY <2>4, <2>5, <2>6
  <1> HIDE DEF N
  <1>3. N = Nat
    BY <1>1, <1>2, Induction DEF N
  <1>4. Cardinality(S) \in N
    BY <1>0, <1>3
  <1> QED
    BY <1>0, <1>4 DEF N

\* The sum over two sets without a common element is the sum of their sums.
LEMMA SumOfBoth ==
  ASSUME NEW f, NEW S, IsFiniteSet(S), \A x \in S : f[x] \in Nat, NEW A \in SUBSET S
  PROVE  \A T \in SUBSET S : A \cap T = {} =>
           SumFunctionOnSet(f, A \cup T) = SumFunctionOnSet(f, A) + SumFunctionOnSet(f, T)
  <1> DEFINE Sum(T) == SumFunctionOnSet(f, T)
             N == {n \in Nat : \A T \in SUBSET S : Cardinality(T) <= n /\ A \cap T = {} =>
                                 Sum(A \cup T) = Sum(A) + Sum(T)}
  <1>0. \A T \in SUBSET S : IsFiniteSet(T) /\ Cardinality(T) \in Nat /\ Sum(T) \in Nat
    BY Smaller, SumType
  <1>1. 0 \in N
    <2> SUFFICES ASSUME NEW T \in SUBSET S, Cardinality(T) <= 0
                 PROVE  Sum(A \cup T) = Sum(A) + Sum(T)
      OBVIOUS
    <2>1. T = {} /\ A \cup T = A
      BY <1>0, Smaller
    <2>2. Sum(T) = 0 /\ Sum(A) \in Nat
      BY <1>0, <2>1, SumOfNone
    <2> QED
      BY <2>1, <2>2
  <1>2. ASSUME NEW n \in N PROVE n + 1 \in N
    <2> SUFFICES ASSUME NEW T \in SUBSET S, Cardinality(T) <= n + 1, A \cap T = {}, T # {}
                 PROVE  Sum(A \cup T) = Sum(A) + Sum(T)
      <3>1. Sum({}) = 0 /\ Sum(A) \in Nat /\ A \cup {} = A
        BY <1>0, SumOfNone
      <3> QED
        BY <3>1
    <2>1. PICK x \in T : TRUE
      OBVIOUS
    <2> DEFINE R == T \ {x}
               U == A \cup T
    <2>2. R \in SUBSET S /\ Cardinality(R) = Cardinality(T) - 1
      BY Smaller
    <2>3. U \in SUBSET S /\ x \in U /\ U \ {x} = A \cup R /\ A \cap R = {}
      BY <2>1
    <2>4. Sum(T) = f[x] + Sum(R)
      BY <1>0, SumSplit
    <2>5. Sum(U) = f[x] + Sum(A \cup R)
      <3> HIDE DEF U, R
      <3>1. IsFiniteSet(U) /\ \A y \in U : f[y] \in Nat
        BY <1>0, <2>3
      <3> QED
        BY <2>3, <3>1, SumSplit
    <2>6. Sum(A \cup R) = Sum(A) + Sum(R)
      BY <1>0, <2>2, <2>3
    <2>7. f[x] \in Nat /\ Sum(A) \in Nat /\ Sum(R) \in Nat
      BY <1>0, <2>2
    <2> HIDE DEF Sum, U, R
    <2>8. Sum(U) = Sum(A) + Sum(T)
      BY <2>4, <2>5, <2>6, <2>7
    <2> QED
      BY <2>8 DEF U
  <1> HIDE DEF N
  <1>3. N = Nat
    BY <1>1, <1>2, Induction DEF N
  <1>4. \A T \in SUBSET S : Cardinality(T) \in N /\ Cardinality(T) <= Cardinality(T)
    BY <1>0, <1>3
  <1> QED
    BY <1>4 DEF N

\* If no value is above L, the sum is at most L for each element.
LEMMA SumBounded ==
  ASSUME NEW f, NEW S, IsFiniteSet(S), NEW L \in Nat, \A x \in S : f[x] \in 0 .. L
  PROVE  \A T \in SUBSET S : SumFunctionOnSet(f, T) <= Cardinality(T) * L
  <1> DEFINE N == {n \in Nat : \A T \in SUBSET S : Cardinality(T) <= n =>
                                 SumFunctionOnSet(f, T) <= Cardinality(T) * L}
  <1>0. \A T \in SUBSET S : IsFiniteSet(T) /\ Cardinality(T) \in Nat
                           /\ SumFunctionOnSet(f, T) \in Nat
    BY Smaller, SumType
  <1>1. 0 \in N
    <2> SUFFICES ASSUME NEW T \in SUBSET S, Cardinality(T) <= 0
                 PROVE  SumFunctionOnSet(f, T) <= Cardinality(T) * L
      OBVIOUS
    <2>1. T = {} /\ Cardinality(T) = 0
      BY <1>0, Smaller
    <2>2. SumFunctionOnSet(f, T) = 0
      BY <2>1, SumOfNone
    <2> QED
      BY <2>1, <2>2
  <1>2. ASSUME NEW n \in N PROVE n + 1 \in N
    <2> SUFFICES ASSUME NEW T \in SUBSET S, Cardinality(T) <= n + 1, T # {}
                 PROVE  SumFunctionOnSet(f, T) <= Cardinality(T) * L
      BY <1>0, Smaller, SumOfNone
    <2>1. PICK x \in T : TRUE
      OBVIOUS
    <2>2. T \ {x} \in SUBSET S /\ Cardinality(T \ {x}) = Cardinality(T) - 1
      BY Smaller
    <2>3. SumFunctionOnSet(f, T) = f[x] + SumFunctionOnSet(f, T \ {x})
      BY <1>0, SumSplit
    <2>4. SumFunctionOnSet(f, T \ {x}) <= (Cardinality(T) - 1) * L
      BY <1>0, <2>2
    <2>5. f[x] \in Nat /\ f[x] <= L /\ SumFunctionOnSet(f, T \ {x}) \in Nat
      BY <1>0, <2>2
    <2>6. (Cardinality(T) - 1) * L + L = Cardinality(T) * L
      BY <1>0
    <2>7. (Cardinality(T) - 1) * L \in Int /\ Cardinality(T) * L \in Int
      BY <1>0
    <2> QED
      BY <2>3, <2>4, <2>5, <2>6, <2>7
  <1> HIDE DEF N
  <1>3. N = Nat
    BY <1>1, <1>2, Induction DEF N
  <1>4. \A T \in SUBSET S : Cardinality(T) \in N
    BY <1>0, <1>3
  <1>5. \A T \in SUBSET S : Cardinality(T) <= Cardinality(T)
    BY <1>0
  <1> QED
    BY <1>4, <1>5 DEF N
===============================================================================
