----------------------------- MODULE HeapProofs -----------------------------
(***************************************************************************)
(* Theorems about the three allocators (Heaps), for any arena, sizes and   *)
(* threads.                                                                *)
(*                                                                         *)
(* mem.c.  The headers are a chain that splitting and joining keep; a call *)
(* of plug_holes repairs the one place where two free blocks may lie side  *)
(* by side and touches no used block.  With that, every used block has one *)
(* owner as long as a block that rt_realloc moves is in no other hands     *)
(* (HeapInv).                                                              *)
(*                                                                         *)
(* memheap.c.  The headers are a ring that the tailer closes, no two       *)
(* neighbours are free, the free list has every free item once, and        *)
(* `available` is the sum of their rooms.  Splitting, joining, unlinking   *)
(* and inserting keep this wherever in the list an item is put, and a call *)
(* gives or takes one used item (ItemInv).                                 *)
(*                                                                         *)
(* slab.c.  Every page belongs to one share: a run of free pages, a zone   *)
(* in use or a spare one, a large block, or what a thread has in hand in   *)
(* the middle of a call.  Shares do not overlap (Divided), each zone's     *)
(* free chunks and given chunks are complementary (Zoned), and each        *)
(* pointer that a caller has is a large block or a chunk of a zone         *)
(* (Owners).  A step swaps one share for others of the same pages          *)
(* (SlabInv).                                                              *)
(***************************************************************************)
EXTENDS Heaps, SequenceTheorems, FiniteSetTheorems, WellFoundedInduction, TLAPS

\* A set of offsets has a first one.
LEMMA FirstLemma ==
    ASSUME NEW S \in SUBSET Nat, S # {}
    PROVE  Min(S) \in S /\ \A y \in S : Min(S) =< y
<1> DEFINE R == {ss \in Nat \X Nat : ss[1] < ss[2]}
<1>1. IsWellFoundedOn(R, Nat)
  BY NatLessThanWellFounded DEF OpToRel
<1>2. \A m, n \in Nat : m < n => <<m, n>> \in R
  OBVIOUS
<1> HIDE DEF R
<1>3. PICK x \in S : \A y \in S : <<y, x>> \notin R
  BY <1>1, WFMin
<1>4. \A y \in S : x =< y
  <2> TAKE y \in S
  <2>1. ~(y < x) /\ x \in Nat /\ y \in Nat
    BY <1>2, <1>3
  <2> QED BY <2>1
<1> QED BY <1>3, <1>4 DEF Min

-----------------------------------------------------------------------------
(* Sums                                                                     *)

\* The element that is added last.
Some(s) == CHOOSE x \in s : TRUE

\* g has the sum of w over each set in D.
Sums(w, D, g) ==
    g = [s \in D |-> IF s = {} THEN 0 ELSE w[Some(s)] + g[s \ {Some(s)}]]

\* The subsets of S with n elements at most.
UpTo(S, n) == {s \in SUBSET S : Cardinality(s) =< n}

LEMMA SomeLemma ==
    ASSUME NEW S, IsFiniteSet(S), NEW s \in SUBSET S, s # {}
    PROVE  /\ Some(s) \in s /\ s \ {Some(s)} \in SUBSET S
           /\ Cardinality(s) \in Nat
           /\ Cardinality(s \ {Some(s)}) \in Nat
           /\ Cardinality(s) = Cardinality(s \ {Some(s)}) + 1
<1>1. Some(s) \in s
  BY DEF Some
<1>2. IsFiniteSet(s)
  BY FS_Subset
<1>3. Cardinality(s) \in Nat /\ Cardinality(s \ {Some(s)}) = Cardinality(s) - 1
      /\ IsFiniteSet(s \ {Some(s)})
  BY <1>1, <1>2, FS_RemoveElement, FS_CardinalityType
<1>4. Cardinality(s \ {Some(s)}) \in Nat
  BY <1>3, FS_CardinalityType
<1> QED BY <1>1, <1>3, <1>4

\* Such a function there is, however many elements its sets may have.
LEMMA SumsUpTo ==
    ASSUME NEW w, NEW S, IsFiniteSet(S), NEW n \in Nat
    PROVE  \E g : Sums(w, UpTo(S, n), g)
<1> DEFINE Bad == {k \in Nat : ~\E g : Sums(w, UpTo(S, k), g)}
<1> SUFFICES ASSUME Bad # {} PROVE FALSE
  OBVIOUS
<1> DEFINE k == Min(Bad)
<1>1. k \in Nat /\ (~\E g : Sums(w, UpTo(S, k), g)) /\ \A y \in Bad : k =< y
  <2>1. k \in Bad /\ \A y \in Bad : k =< y
    BY FirstLemma
  <2> QED BY <2>1
<1>g. k # 0 => k - 1 \in Nat /\ \E g : Sums(w, UpTo(S, k - 1), g)
  <2> SUFFICES ASSUME k # 0 PROVE k - 1 \in Nat /\ k - 1 \notin Bad
    OBVIOUS
  <2> HIDE DEF k
  <2> QED BY <1>1
<1> HIDE DEF k, Bad
<1>2. CASE k = 0
  <2>1. \A s \in UpTo(S, k) : s = {}
    <3> SUFFICES ASSUME NEW s \in SUBSET S, Cardinality(s) =< 0, s # {} PROVE FALSE
      BY <1>2 DEF UpTo
    <3>1. /\ Cardinality(s \ {Some(s)}) \in Nat
          /\ Cardinality(s) = Cardinality(s \ {Some(s)}) + 1
      BY SomeLemma
    <3> QED BY <3>1
  <2> DEFINE g == [s \in UpTo(S, k) |-> 0]
  <2>2. g = [s \in UpTo(S, k) |-> 0]
    OBVIOUS
  <2> HIDE DEF g
  <2>3. [s \in UpTo(S, k) |-> 0]
        = [s \in UpTo(S, k) |-> IF s = {} THEN 0 ELSE w[Some(s)] + g[s \ {Some(s)}]]
    BY <2>1
  <2> QED BY <1>1, <2>2, <2>3 DEF Sums
<1>3. CASE k # 0
  <2>1. k - 1 \in Nat
    BY <1>g, <1>3
  <2>2. PICK h : Sums(w, UpTo(S, k - 1), h)
    BY <1>g, <1>3
  <2>3. ASSUME NEW s \in UpTo(S, k), s # {} PROVE s \ {Some(s)} \in UpTo(S, k - 1)
    <3>1. s \in SUBSET S /\ Cardinality(s) =< k
      BY DEF UpTo
    <3> QED BY <3>1, <2>3, <1>1, <1>3, SomeLemma DEF UpTo
  <2>4. ASSUME NEW u \in UpTo(S, k - 1) PROVE u \in UpTo(S, k)
    <3>1. u \in SUBSET S /\ Cardinality(u) =< k - 1
      BY DEF UpTo
    <3>2. Cardinality(u) \in Nat
      BY <3>1, FS_Subset, FS_CardinalityType
    <3> QED BY <3>1, <3>2, <1>1 DEF UpTo
  <2> DEFINE g == [s \in UpTo(S, k) |-> IF s = {} THEN 0 ELSE w[Some(s)] + h[s \ {Some(s)}]]
  <2>5. \A u \in UpTo(S, k - 1) : h[u] = IF u = {} THEN 0 ELSE w[Some(u)] + h[u \ {Some(u)}]
    BY <2>2 DEF Sums
  <2>6. \A u \in UpTo(S, k) : g[u] = IF u = {} THEN 0 ELSE w[Some(u)] + h[u \ {Some(u)}]
    OBVIOUS
  <2>7. \A u \in UpTo(S, k - 1) : h[u] = g[u]
    BY <2>4, <2>5, <2>6
  <2>8. \A s \in UpTo(S, k) : s # {} => h[s \ {Some(s)}] = g[s \ {Some(s)}]
    BY <2>3, <2>7
  <2>9. g = [s \in UpTo(S, k) |-> IF s = {} THEN 0 ELSE w[Some(s)] + h[s \ {Some(s)}]]
    OBVIOUS
  <2> HIDE DEF g
  <2>10. [s \in UpTo(S, k) |-> IF s = {} THEN 0 ELSE w[Some(s)] + h[s \ {Some(s)}]]
         = [s \in UpTo(S, k) |-> IF s = {} THEN 0 ELSE w[Some(s)] + g[s \ {Some(s)}]]
    BY <2>8
  <2> QED BY <1>1, <2>9, <2>10 DEF Sums
<1> QED BY <1>2, <1>3

\* What SumFunctionOnSet chooses is such a function.
LEMMA SumsLemma ==
    ASSUME NEW w, NEW S, IsFiniteSet(S)
    PROVE  \E g : Sums(w, SUBSET S, g) /\ SumFunctionOnSet(w, S) = g[S]
<1>1. Cardinality(S) \in Nat
  BY FS_CardinalityType
<1>2. UpTo(S, Cardinality(S)) = SUBSET S
  BY <1>1, FS_Subset DEF UpTo
<1>3. \E g : Sums(w, SUBSET S, g)
  <2>1. \E g : Sums(w, UpTo(S, Cardinality(S)), g)
    BY <1>1, SumsUpTo
  <2> QED BY <1>2, <2>1
<1> DEFINE iter == CHOOSE g : Sums(w, SUBSET S, g)
<1>4. Sums(w, SUBSET S, iter)
  BY <1>3
<1>5. SumFunctionOnSet(w, S) = iter[S]
  BY DEF SumFunctionOnSet, FoldFunctionOnSet, MapThenFoldSet, Sums, Some
<1> QED BY <1>4, <1>5

\* g of s is what an element, whichever, adds to the others.
Adds(w, g, s) == g[s] \in Int /\ \A x \in s : g[s] = w[x] + g[s \ {x}]

LEMMA SumsAdd ==
    ASSUME NEW S, IsFiniteSet(S), NEW w, \A x \in S : w[x] \in Int,
           NEW g, Sums(w, SUBSET S, g), NEW s \in SUBSET S,
           \A u \in SUBSET S : Cardinality(u) < Cardinality(s) => Adds(w, g, u)
    PROVE  Adds(w, g, s)
<1>1. \A u \in SUBSET S : g[u] = IF u = {} THEN 0 ELSE w[Some(u)] + g[u \ {Some(u)}]
  BY DEF Sums
<1>2. CASE s = {}
  <2>1. g[s] = 0
    BY <1>1, <1>2
  <2> QED BY <1>2, <2>1 DEF Adds
<1>3. CASE s # {}
  <2>1. \A u \in SUBSET S : IsFiniteSet(u) /\ Cardinality(u) \in Nat
    BY FS_Subset, FS_CardinalityType
  <2>2. \A u \in SUBSET S : \A x \in u : u \ {x} \in SUBSET S
                                         /\ Cardinality(u \ {x}) = Cardinality(u) - 1
    BY <2>1, FS_RemoveElement
  <2>3. ASSUME NEW x \in s PROVE s \ {x} \in SUBSET S /\ Adds(w, g, s \ {x})
    <3>1. s \ {x} \in SUBSET S /\ Cardinality(s \ {x}) < Cardinality(s)
      BY <2>1, <2>2
    <3> QED BY <3>1
  <2> DEFINE c == Some(s)
  <2>4. c \in s /\ g[s] = w[c] + g[s \ {c}]
    BY <1>1, <1>3, SomeLemma
  <2> HIDE DEF c
  <2>5. g[s] \in Int
    <3>1. g[s \ {c}] \in Int /\ w[c] \in Int
      BY <2>3, <2>4 DEF Adds
    <3> QED BY <3>1, <2>4
  <2>6. ASSUME NEW x \in s PROVE g[s] = w[x] + g[s \ {x}]
    <3>1. CASE x = c
      BY <2>4, <3>1
    <3>2. CASE x # c
      <4> DEFINE r == (s \ {c}) \ {x}
      <4>1. g[s \ {c}] = w[x] + g[r]
        BY <2>3, <2>4, <3>2 DEF Adds
      <4>2. g[s \ {x}] = w[c] + g[(s \ {x}) \ {c}]
        BY <2>3, <2>4, <3>2 DEF Adds
      <4>3. (s \ {x}) \ {c} = r
        OBVIOUS
      <4>4. g[r] \in Int
        <5>1. s \ {c} \in SUBSET S /\ x \in s \ {c}
          BY <2>4, <3>2
        <5>2. r \in SUBSET S /\ Cardinality(r) = Cardinality(s \ {c}) - 1
          BY <5>1, <2>2
        <5>3. Cardinality(s \ {c}) = Cardinality(s) - 1 /\ Cardinality(s) \in Nat
          BY <2>1, <2>2, <2>4
        <5>4. Cardinality(r) < Cardinality(s)
          BY <5>2, <5>3
        <5> HIDE DEF r
        <5> QED BY <5>2, <5>4 DEF Adds
      <4> HIDE DEF r
      <4>5. w[x] \in Int /\ w[c] \in Int
        BY <2>4
      <4>6. g[s] = w[c] + (w[x] + g[r]) /\ g[s \ {x}] = w[c] + g[r]
        BY <4>1, <4>2, <4>3, <2>4
      <4> QED BY <4>4, <4>5, <4>6
    <3> QED BY <3>1, <3>2
  <2> QED BY <2>5, <2>6 DEF Adds
<1> QED BY <1>2, <1>3

LEMMA SumsAddAll ==
    ASSUME NEW S, IsFiniteSet(S), NEW w, \A x \in S : w[x] \in Int,
           NEW g, Sums(w, SUBSET S, g)
    PROVE  \A s \in SUBSET S : Adds(w, g, s)
<1> DEFINE Bad == {k \in Nat : \E s \in SUBSET S : Cardinality(s) = k /\ ~Adds(w, g, s)}
<1>1. \A u \in SUBSET S : Cardinality(u) \in Nat
  BY FS_Subset, FS_CardinalityType
<1> SUFFICES ASSUME Bad # {} PROVE FALSE
  BY <1>1
<1> DEFINE k == Min(Bad)
<1>2. k \in Bad /\ \A y \in Bad : k =< y
  BY FirstLemma
<1> HIDE DEF k
<1>3. PICK s \in SUBSET S : Cardinality(s) = k /\ ~Adds(w, g, s)
  BY <1>2
<1>4. ASSUME NEW u \in SUBSET S, Cardinality(u) < Cardinality(s) PROVE Adds(w, g, u)
  <2> SUFFICES ASSUME ~Adds(w, g, u) PROVE FALSE
    OBVIOUS
  <2>1. Cardinality(u) \in Bad
    BY <1>1
  <2>2. k =< Cardinality(u)
    BY <1>2, <2>1
  <2> HIDE DEF Bad
  <2> QED BY <2>2, <1>1, <1>3, <1>4
<1> QED BY <1>3, <1>4, SumsAdd

AllSums(w, S, g) == Sums(w, SUBSET S, g)

\* v is w over P.
Same(v, w, P) == \A x \in P : v[x] = w[x]

\* The sums over a part of S are the same, also of a function that has the same
\* values there.
LEMMA SumsSame ==
    ASSUME NEW S, IsFiniteSet(S), NEW P \in SUBSET S, NEW w, NEW v, Same(v, w, P),
           NEW g, AllSums(w, S, g), NEW h, AllSums(v, P, h)
    PROVE  \A s \in SUBSET P : h[s] = g[s]
<1> DEFINE Bad == {k \in Nat : \E s \in SUBSET P : Cardinality(s) = k /\ h[s] # g[s]}
<1>1. \A u \in SUBSET S : Cardinality(u) \in Nat
  BY FS_Subset, FS_CardinalityType
<1> SUFFICES ASSUME Bad # {} PROVE FALSE
  BY <1>1
<1> DEFINE k == Min(Bad)
<1>2. k \in Bad /\ \A y \in Bad : k =< y
  BY FirstLemma
<1> HIDE DEF k
<1>3. PICK s \in SUBSET P : Cardinality(s) = k /\ h[s] # g[s]
  BY <1>2
<1>4. h[s] = IF s = {} THEN 0 ELSE v[Some(s)] + h[s \ {Some(s)}]
  BY DEF AllSums, Sums
<1>5. g[s] = IF s = {} THEN 0 ELSE w[Some(s)] + g[s \ {Some(s)}]
  BY DEF AllSums, Sums
<1>6. s # {}
  BY <1>3, <1>4, <1>5
<1> DEFINE r == s \ {Some(s)}
<1>7. /\ Some(s) \in s /\ r \in SUBSET P /\ Cardinality(s) \in Nat /\ Cardinality(r) \in Nat
      /\ Cardinality(s) = Cardinality(r) + 1
  BY <1>6, SomeLemma
<1>8. h[s] = v[Some(s)] + h[r] /\ g[s] = w[Some(s)] + g[r] /\ v[Some(s)] = w[Some(s)]
  BY <1>4, <1>5, <1>6, <1>7 DEF Same
<1> HIDE DEF r
<1>9. h[r] # g[r]
  BY <1>3, <1>7, <1>8
<1>10. Cardinality(r) \in Bad
  BY <1>7, <1>9
<1>11. k =< Cardinality(r)
  BY <1>2, <1>10
<1> HIDE DEF Bad
<1> QED BY <1>3, <1>7, <1>11

\* A sum is one of its elements and the sum of the others.
LEMMA SumLemma ==
    ASSUME NEW S, IsFiniteSet(S), NEW w, \A x \in S : w[x] \in Int
    PROVE  /\ SumFunctionOnSet(w, S) \in Int
           /\ S = {} => SumFunctionOnSet(w, S) = 0
           /\ \A x \in S : SumFunctionOnSet(w, S) = w[x] + SumFunctionOnSet(w, S \ {x})
<1>1. PICK g : AllSums(w, S, g) /\ SumFunctionOnSet(w, S) = g[S]
  BY SumsLemma DEF AllSums
<1>2. Adds(w, g, S)
  BY <1>1, SumsAddAll DEF AllSums
<1>3. S = {} => g[S] = 0
  BY <1>1 DEF AllSums, Sums
<1>4. ASSUME NEW x \in S PROVE SumFunctionOnSet(w, S \ {x}) = g[S \ {x}]
  <2> DEFINE P == S \ {x}
  <2>1. P \in SUBSET S /\ IsFiniteSet(P)
    BY FS_Subset
  <2> HIDE DEF P
  <2>2. PICK h : AllSums(w, P, h) /\ SumFunctionOnSet(w, P) = h[P]
    BY <2>1, SumsLemma DEF AllSums
  <2>3. AllSums(w, S, g)
    BY <1>1
  <2>s. Same(w, w, P)
    BY DEF Same
  <2>4. \A s \in SUBSET P : h[s] = g[s]
    BY <2>1, <2>2, <2>3, <2>s, SumsSame
  <2>5. SumFunctionOnSet(w, P) = g[P]
    BY <2>2, <2>4
  <2> QED BY <2>5 DEF P
<1> QED BY <1>1, <1>2, <1>3, <1>4 DEF Adds

LEMMA SumSame ==
    ASSUME NEW S, IsFiniteSet(S), NEW w, NEW v, Same(v, w, S)
    PROVE  SumFunctionOnSet(v, S) = SumFunctionOnSet(w, S)
<1>1. PICK g : AllSums(w, S, g) /\ SumFunctionOnSet(w, S) = g[S]
  BY SumsLemma DEF AllSums
<1>2. PICK h : AllSums(v, S, h) /\ SumFunctionOnSet(v, S) = h[S]
  BY SumsLemma DEF AllSums
<1>3. S \in SUBSET S /\ AllSums(w, S, g) /\ AllSums(v, S, h)
  BY <1>1, <1>2
<1>4. \A s \in SUBSET S : h[s] = g[s]
  BY <1>3, SumsSame
<1> QED BY <1>1, <1>2, <1>4

-----------------------------------------------------------------------------
(* Lists of a set                                                           *)

\* The list has every element of F once.
Enumerates(list, F) == list \in Seq(F) /\ IsInjective(list) /\ Range(list) = F

\* r is l without entry k: those behind it moved up.
Shorter(r, l, k, S) ==
    /\ r \in Seq(S) /\ Len(r) = Len(l) - 1 /\ k \in 1..Len(l)
    /\ \A i \in 1..Len(l) - 1 : r[i] = IF i < k THEN l[i] ELSE l[i+1]

LEMMA RemoveAtShorter ==
    ASSUME NEW S, NEW l \in Seq(S), NEW k \in 1..Len(l)
    PROVE  Shorter(RemoveAt(l, k), l, k, S)
<1> DEFINE u == SubSeq(l, 1, k-1)
           v == SubSeq(l, k+1, Len(l))
           r == u \o v
<1>1. RemoveAt(l, k) = r
  BY DEF RemoveAt
<1>2. /\ u \in Seq(S) /\ Len(u) = k - 1
      /\ v \in Seq(S) /\ Len(v) = Len(l) - k
      /\ \A i \in 1..(k-1) : u[i] = l[i]
      /\ \A i \in 1..(Len(l) - k) : v[i] = l[i+k]
  BY SubSeqProperties
<1> HIDE DEF u, v
<1>3. /\ r \in Seq(S) /\ Len(r) = Len(l) - 1
      /\ \A i \in 1..Len(l) - 1 : r[i] = IF i <= Len(u) THEN u[i] ELSE v[i - Len(u)]
  <2>1. /\ r \in Seq(S) /\ Len(r) = Len(u) + Len(v)
        /\ \A i \in 1..Len(u) + Len(v) : r[i] = IF i <= Len(u) THEN u[i] ELSE v[i - Len(u)]
    BY <1>2, ConcatProperties
  <2>2. Len(u) + Len(v) = Len(l) - 1
    BY <1>2
  <2> QED BY <2>1, <2>2
<1> HIDE DEF r
<1>4. \A i \in 1..Len(l) - 1 : r[i] = IF i < k THEN l[i] ELSE l[i+1]
  <2> TAKE i \in 1..Len(l) - 1
  <2>1. CASE i < k
    <3>1. i \in 1..(k-1) /\ i =< Len(u)
      BY <2>1, <1>2
    <3>2. r[i] = u[i]
      BY <1>3, <3>1
    <3> QED BY <1>2, <2>1, <3>1, <3>2
  <2>2. CASE ~(i < k)
    <3>1. i - (k-1) \in 1..(Len(l) - k) /\ (i - (k-1)) + k = i + 1 /\ ~(i =< Len(u))
      BY <2>2, <1>2
    <3>2. r[i] = v[i - (k-1)]
      BY <1>2, <1>3, <3>1
    <3> QED BY <1>2, <2>2, <3>1, <3>2
  <2> QED BY <2>1, <2>2
<1> QED BY <1>1, <1>3, <1>4 DEF Shorter

LEMMA RemoveFirstLemma ==
    ASSUME NEW list, NEW F, Enumerates(list, F), NEW x
    PROVE  Enumerates(RemoveFirst(list, x), F \ {x})
<1> DEFINE r == RemoveFirst(list, x)
<1>1. list \in Seq(F) /\ Range(list) = F /\ Len(list) \in Nat /\ DOMAIN list = 1..Len(list)
      /\ \A i, j \in 1..Len(list) : list[i] = list[j] => i = j
  BY DEF Enumerates, IsInjective
<1>2. CASE ~\E i \in 1..Len(list) : list[i] = x
  <2>1. r = list
    BY <1>2 DEF RemoveFirst
  <2>2. F \ {x} = F
    BY <1>1, <1>2 DEF Range
  <2> QED BY <2>1, <2>2
<1>3. CASE \E i \in 1..Len(list) : list[i] = x
  <2> DEFINE I == {i \in 1..Len(list) : list[i] = x}
             k == Min(I)
  <2>1. r = RemoveAt(list, k)
    BY <1>3 DEF RemoveFirst, SelectInSeq
  <2>2. k \in I
    <3>1. I \in SUBSET Nat /\ I # {}
      BY <1>3
    <3> HIDE DEF I
    <3> QED BY <3>1, FirstLemma
  <2> HIDE DEF k
  <2>3. k \in 1..Len(list) /\ list[k] = x
    BY <2>2
  <2> HIDE DEF r
  <2>5. /\ r \in Seq(F) /\ Len(r) = Len(list) - 1
        /\ \A i \in 1..Len(r) : r[i] = IF i < k THEN list[i] ELSE list[i + 1]
    <3>1. list \in Seq(F) /\ r = RemoveAt(list, k)
      BY <1>1, <2>1
    <3>2. Shorter(r, list, k, F)
      BY <3>1, <2>3, RemoveAtShorter
    <3> QED BY <3>2 DEF Shorter
  <2>6. DOMAIN r = 1..Len(r)
    BY <2>5
  <2>7. IsInjective(r)
    <3> SUFFICES ASSUME NEW i \in 1..Len(r), NEW j \in 1..Len(r), r[i] = r[j] PROVE i = j
      BY <2>6 DEF IsInjective
    <3> QED BY <1>1, <2>3, <2>5
  <2>8. Range(r) = F \ {x}
    <3>1. ASSUME NEW i \in 1..Len(r) PROVE r[i] \in F \ {x}
      BY <1>1, <2>3, <2>5, SMTT(30) DEF Range
    <3>2. ASSUME NEW y \in F, y # x PROVE \E i \in 1..Len(r) : r[i] = y
      <4>1. PICK j \in 1..Len(list) : list[j] = y
        BY <1>1 DEF Range
      <4>2. CASE j < k
        <5>1. j \in 1..Len(r) /\ r[j] = y
          BY <4>1, <4>2, <2>3, <2>5, <1>1
        <5> QED BY <5>1
      <4>3. CASE j > k
        <5>1. j - 1 \in 1..Len(r) /\ r[j - 1] = y
          BY <4>1, <4>3, <2>3, <2>5, <1>1
        <5> QED BY <5>1
      <4> QED BY <4>1, <4>2, <4>3, <2>3, <3>2
    <3> QED BY <3>1, <3>2, <2>6 DEF Range
  <2>9. r \in Seq(F \ {x})
    BY <2>5, <2>6, <2>8 DEF Range
  <2> QED BY <2>7, <2>8, <2>9 DEF Enumerates, r
<1> QED BY <1>2, <1>3

LEMMA PrependLemma ==
    ASSUME NEW list, NEW F, Enumerates(list, F), NEW x, x \notin F
    PROVE  Enumerates(<<x>> \o list, F \union {x})
<1> DEFINE r == <<x>> \o list
<1>1. list \in Seq(F) /\ Range(list) = F /\ Len(list) \in Nat /\ DOMAIN list = 1..Len(list)
      /\ \A i, j \in 1..Len(list) : list[i] = list[j] => i = j
  BY DEF Enumerates, IsInjective
<1>2. \A i \in 1..Len(list) : list[i] \in F
  BY <1>1
<1>3. /\ r \in Seq(F \union {x}) /\ Len(r) = Len(list) + 1
      /\ \A i \in 1..Len(r) : r[i] = IF i = 1 THEN x ELSE list[i - 1]
  <2>1. list \in Seq(F \union {x}) /\ <<x>> \in Seq(F \union {x})
    BY <1>1, <1>2
  <2> QED BY <1>1, <2>1
<1> HIDE DEF r
<1>4. DOMAIN r = 1..Len(r)
  BY <1>3
<1>5. IsInjective(r)
  <2> SUFFICES ASSUME NEW i \in 1..Len(r), NEW j \in 1..Len(r), r[i] = r[j] PROVE i = j
    BY <1>4 DEF IsInjective
  <2>1. CASE i = 1 /\ j = 1
    BY <2>1
  <2>2. CASE i # 1 /\ j # 1
    BY <2>2, <1>1, <1>3
  <2>3. CASE i # 1 /\ j = 1
    BY <2>3, <1>1, <1>2, <1>3
  <2>4. CASE i = 1 /\ j # 1
    BY <2>4, <1>1, <1>2, <1>3
  <2> QED BY <2>1, <2>2, <2>3, <2>4
<1>6. Range(r) = F \union {x}
  <2>1. \A i \in 1..Len(r) : r[i] \in F \union {x}
    BY <1>3
  <2>2. 1 \in 1..Len(r) /\ r[1] = x
    BY <1>1, <1>3
  <2>3. ASSUME NEW y \in F PROVE \E i \in 1..Len(r) : r[i] = y
    <3>1. PICK j \in 1..Len(list) : list[j] = y
      BY <1>1 DEF Range
    <3>2. j + 1 \in 1..Len(r) /\ r[j + 1] = y
      BY <3>1, <1>1, <1>3
    <3> QED BY <3>2
  <2> QED BY <2>1, <2>2, <2>3, <1>4 DEF Range
<1> QED BY <1>3, <1>5, <1>6 DEF Enumerates, r

LEMMA BehindHead ==
    ASSUME NEW list, NEW F, Enumerates(list, F), list # << >>
    PROVE  Head(list) \in F /\ Enumerates(Tail(list), F \ {Head(list)})
<1> DEFINE x == list[1]
           r == Tail(list)
<1>1. list \in Seq(F) /\ Range(list) = F /\ Len(list) \in Nat /\ DOMAIN list = 1..Len(list)
      /\ \A i, j \in 1..Len(list) : list[i] = list[j] => i = j
  BY DEF Enumerates, IsInjective
<1>2. Len(list) > 0 /\ Head(list) = x /\ x \in F
  BY <1>1
<1>3. /\ r \in Seq(F) /\ Len(r) = Len(list) - 1
      /\ \A i \in 1..Len(r) : r[i] = list[i + 1]
  BY <1>1, <1>2
<1> HIDE DEF r, x
<1>4. DOMAIN r = 1..Len(r)
  BY <1>3
<1>5. IsInjective(r)
  <2> SUFFICES ASSUME NEW i \in 1..Len(r), NEW j \in 1..Len(r), r[i] = r[j] PROVE i = j
    BY <1>4 DEF IsInjective
  <2> QED BY <1>1, <1>3
<1>6. Range(r) = F \ {x}
  <2>1. ASSUME NEW i \in 1..Len(r) PROVE r[i] \in F \ {x}
    BY <1>1, <1>2, <1>3 DEF x
  <2>2. ASSUME NEW y \in F, y # x PROVE \E i \in 1..Len(r) : r[i] = y
    <3>1. PICK j \in 1..Len(list) : list[j] = y
      BY <1>1 DEF Range
    <3>2. j - 1 \in 1..Len(r) /\ r[j - 1] = y
      BY <2>2, <3>1, <1>1, <1>3 DEF x
    <3> QED BY <3>2
  <2> QED BY <2>1, <2>2, <1>4 DEF Range
<1>7. r \in Seq(F \ {x})
  BY <1>3, <1>4, <1>6 DEF Range
<1> QED BY <1>2, <1>5, <1>6, <1>7 DEF Enumerates, r

-----------------------------------------------------------------------------
(* What Heap, MemHeap and Slab take from the community modules is the same  *)
(* as here.                                                                 *)

LEMMA SmallWords ==
    /\ \A S : Small!Min(S) = Min(S) /\ Small!Max(S) = Max(S)
    /\ \A f, S : Small!Restrict(f, S) = Restrict(f, S)
BY DEF Small!Min, Min, Small!Max, Max, Small!Restrict, Restrict

LEMMA LargeWords ==
    /\ \A S : Large!Min(S) = Min(S)
    /\ \A f, S : Large!Restrict(f, S) = Restrict(f, S)
    /\ \A f : Large!IsInjective(f) = IsInjective(f) /\ Large!Range(f) = Range(f)
    /\ \A s, x : Large!RemoveFirst(s, x) = RemoveFirst(s, x)
    /\ \A f, S : Large!SumFunctionOnSet(f, S) = SumFunctionOnSet(f, S)
<1>1. \A S : Large!Min(S) = Min(S)
  BY DEF Large!Min, Min
<1>2. \A f, S : Large!Restrict(f, S) = Restrict(f, S)
  BY DEF Large!Restrict, Restrict
<1>3. \A f : Large!IsInjective(f) = IsInjective(f) /\ Large!Range(f) = Range(f)
  BY DEF Large!IsInjective, IsInjective, Large!Range, Range
<1>4. \A s, x : Large!RemoveFirst(s, x) = RemoveFirst(s, x)
  BY <1>1 DEF Large!RemoveFirst, RemoveFirst, Large!RemoveAt, RemoveAt, Large!SelectInSeq,
     SelectInSeq
<1>5. \A f, S : Large!SumFunctionOnSet(f, S) = SumFunctionOnSet(f, S)
  BY DEF Large!SumFunctionOnSet, SumFunctionOnSet, Large!FoldFunctionOnSet, FoldFunctionOnSet,
         Large!MapThenFoldSet, MapThenFoldSet
<1> QED BY <1>1, <1>2, <1>3, <1>4, <1>5

LEMMA PagedWords ==
    /\ \A S : Paged!Min(S) = Min(S) /\ Paged!Max(S) = Max(S)
    /\ \A f : Paged!IsInjective(f) = IsInjective(f) /\ Paged!Range(f) = Range(f)
    /\ \A s, x : Paged!RemoveFirst(s, x) = RemoveFirst(s, x)
    /\ \A s, i : Paged!RemoveAt(s, i) = RemoveAt(s, i)
    /\ \A S : Paged!Cardinality(S) = Cardinality(S)
<1>1. \A S : Paged!Min(S) = Min(S) /\ Paged!Max(S) = Max(S)
  BY DEF Paged!Min, Min, Paged!Max, Max
<1>2. \A f : Paged!IsInjective(f) = IsInjective(f) /\ Paged!Range(f) = Range(f)
  BY DEF Paged!IsInjective, IsInjective, Paged!Range, Range
<1>3. \A s, i : Paged!RemoveAt(s, i) = RemoveAt(s, i)
  BY DEF Paged!RemoveAt, RemoveAt
<1>4. \A s, x : Paged!RemoveFirst(s, x) = RemoveFirst(s, x)
  BY <1>1, <1>3 DEF Paged!RemoveFirst, RemoveFirst, Paged!SelectInSeq, SelectInSeq
<1>5. \A S : Paged!Cardinality(S) = Cardinality(S)
  BY DEF Paged!Cardinality, Cardinality
<1> QED BY <1>1, <1>2, <1>3, <1>4, <1>5

-----------------------------------------------------------------------------
(* The heap of mem.c                                                        *)

\* The headers h tile the arena.
Chain(h) ==
    /\ DOMAIN h \subseteq 0..Small!End /\ 0 \in DOMAIN h /\ Small!End \in DOMAIN h
    /\ \A b \in DOMAIN h : h[b] \in Small!Blocks
    /\ \A b \in DOMAIN h \ {Small!End} :
          /\ h[b].next \in DOMAIN h /\ b + Header < h[b].next
          /\ \A c \in DOMAIN h : b < c => h[b].next =< c
          /\ h[b].prev \in DOMAIN h
          /\ b = 0 => h[b].prev = 0
          /\ b # 0 => h[b].prev < b /\ h[h[b].prev].next = b
    /\ h[Small!End].used

\* No two neighbours are free, ...
Apart(h) == \A x \in DOMAIN h : ~h[x].used => h[h[x].next].used

\* ... except perhaps the block b and the one before it, ...
ApartBehind(h, b) ==
    \A x \in DOMAIN h : ~h[x].used /\ h[x].next # b => h[h[x].next].used

\* ... or b and either of its neighbours.
ApartBut(h, b) ==
    \A x \in DOMAIN h : ~h[x].used /\ x # b /\ h[x].next # b => h[h[x].next].used

FreeOf(h) == {b \in DOMAIN h : ~h[b].used}
UsedOf(h) == {b \in DOMAIN h : h[b].used} \ {Small!End}

\* What plug_holes does with b and the block behind it.
Joined(h, b) ==
    Small!Without(Small!WithPrev(Small!WithNext(h, b, h[h[b].next].next), h[h[b].next].next, b), h[b].next)

\* Every used block of h is there in m, with its end where it was.
Keeps(h, m) ==
    /\ DOMAIN m \subseteq DOMAIN h
    /\ \A x \in DOMAIN m : m[x].used = h[x].used
    /\ \A x \in DOMAIN h : h[x].used => x \in DOMAIN m /\ m[x].next = h[x].next

\* A heap g, as the operators have it.
Sound(g) == Chain(g.mem) /\ g.lfree \in FreeOf(g.mem) \union {Small!End}
Lowest(g) == \A x \in FreeOf(g.mem) : g.lfree =< x

-----------------------------------------------------------------------------
(* The headers                                                              *)

LEMMA EndLemma ==
    ASSUME Small!HeapAssumption
    PROVE  /\ Header \in Nat /\ Header > 0 /\ MinSize \in Nat /\ MinSize > 0 /\ MemSize \in Nat
           /\ Small!End \in Nat /\ Small!End = MemSize + Header /\ Header < Small!End
           /\ MinSize =< MemSize
           /\ \A n \in Sizes : n \in Nat /\ n > 0 /\ n =< MemSize
BY DEF Small!HeapAssumption, Small!End

LEMMA WithNextLemma ==
    ASSUME NEW h, \A c \in DOMAIN h : h[c] \in Small!Blocks, NEW b \in DOMAIN h,
           NEW n \in 0..Small!End
    PROVE  /\ DOMAIN Small!WithNext(h, b, n) = DOMAIN h
           /\ \A c \in DOMAIN h : /\ Small!WithNext(h, b, n)[c] \in Small!Blocks
                                  /\ Small!WithNext(h, b, n)[c].used = h[c].used
                                  /\ Small!WithNext(h, b, n)[c].prev = h[c].prev
                                  /\ Small!WithNext(h, b, n)[c].next = IF c = b THEN n ELSE h[c].next
BY DEF Small!WithNext, Small!Blocks

LEMMA WithPrevLemma ==
    ASSUME NEW h, \A c \in DOMAIN h : h[c] \in Small!Blocks, NEW b \in DOMAIN h,
           NEW n \in 0..Small!End
    PROVE  /\ DOMAIN Small!WithPrev(h, b, n) = DOMAIN h
           /\ \A c \in DOMAIN h : /\ Small!WithPrev(h, b, n)[c] \in Small!Blocks
                                  /\ Small!WithPrev(h, b, n)[c].used = h[c].used
                                  /\ Small!WithPrev(h, b, n)[c].next = h[c].next
                                  /\ Small!WithPrev(h, b, n)[c].prev = IF c = b THEN n ELSE h[c].prev
BY DEF Small!WithPrev, Small!Blocks

LEMMA BlockLemma ==
    ASSUME Small!HeapAssumption, NEW h, Chain(h), NEW b \in DOMAIN h \ {Small!End}
    PROVE  /\ b \in Nat /\ h[b].next \in Nat /\ h[b].prev \in Nat
           /\ h[b].next \in DOMAIN h /\ b + Header < h[b].next /\ b < h[b].next
           /\ h[b].next =< Small!End
           /\ \A c \in DOMAIN h : c \in Nat /\ c =< Small!End /\ (b < c => h[b].next =< c)
<1>1. DOMAIN h \subseteq 0..Small!End /\ h[b].next \in DOMAIN h /\ b + Header < h[b].next
      /\ h[b].prev \in DOMAIN h /\ \A c \in DOMAIN h : b < c => h[b].next =< c
  BY DEF Chain
<1>2. Header \in Nat /\ Small!End \in Nat
  BY EndLemma
<1> QED BY <1>1, <1>2

\* Joining takes one header away and keeps the tiling.
LEMMA JoinedLemma ==
    ASSUME Small!HeapAssumption, NEW h, Chain(h), NEW b \in DOMAIN h \ {Small!End},
           h[b].next # Small!End
    PROVE  /\ Chain(Joined(h, b))
           /\ DOMAIN Joined(h, b) = DOMAIN h \ {h[b].next}
           /\ \A c \in DOMAIN Joined(h, b) :
                 /\ Joined(h, b)[c].used = h[c].used
                 /\ Joined(h, b)[c].next = IF c = b THEN h[h[b].next].next ELSE h[c].next
<1> DEFINE n == h[b].next
           nn == h[n].next
           h1 == Small!WithNext(h, b, nn)
           h2 == Small!WithPrev(h1, nn, b)
           m == Joined(h, b)
<1>0. Small!End \in Nat /\ Header \in Nat /\ Header > 0
  BY EndLemma
<1>1. \A c \in DOMAIN h : c \in Nat /\ c =< Small!End /\ h[c] \in Small!Blocks
  BY <1>0 DEF Chain
<1>2. n \in DOMAIN h /\ n # Small!End /\ b < n /\ b \in Nat /\ n \in Nat
  BY BlockLemma
<1>3. nn \in DOMAIN h /\ n < nn /\ nn \in Nat /\ nn =< Small!End /\ nn \in 0..Small!End
      /\ b \in 0..Small!End
      /\ nn # b /\ n # nn
  <2>1. nn \in DOMAIN h /\ n < nn /\ nn \in Nat /\ nn =< Small!End
    BY <1>2, BlockLemma
  <2> QED BY <2>1, <1>1, <1>2, <1>0
<1>4. DOMAIN h1 = DOMAIN h
      /\ \A c \in DOMAIN h : /\ h1[c] \in Small!Blocks
                             /\ h1[c].used = h[c].used
                             /\ h1[c].prev = h[c].prev
                             /\ h1[c].next = IF c = b THEN nn ELSE h[c].next
  BY <1>1, <1>3, WithNextLemma
<1>5. DOMAIN h2 = DOMAIN h1
      /\ \A c \in DOMAIN h1 : /\ h2[c] \in Small!Blocks
                              /\ h2[c].used = h1[c].used
                              /\ h2[c].next = h1[c].next
                              /\ h2[c].prev = IF c = nn THEN b ELSE h1[c].prev
  BY <1>3, <1>4, WithPrevLemma
<1>6. m = [c \in DOMAIN h2 \ {n} |-> h2[c]]
  BY DEF Joined, Small!Without
<1>7. DOMAIN m = DOMAIN h \ {n}
      /\ \A c \in DOMAIN m : /\ m[c] \in Small!Blocks
                             /\ m[c].used = h[c].used
                             /\ m[c].next = IF c = b THEN nn ELSE h[c].next
                             /\ m[c].prev = IF c = nn THEN b ELSE h[c].prev
  BY <1>4, <1>5, <1>6
<1> HIDE DEF m, h1, h2
<1>8. Chain(m)
  <2>1. DOMAIN m \subseteq 0..Small!End /\ 0 \in DOMAIN m /\ Small!End \in DOMAIN m
        /\ m[Small!End].used
    BY <1>0, <1>1, <1>2, <1>7 DEF Chain
  <2>2. ASSUME NEW x \in DOMAIN m \ {Small!End}
        PROVE  /\ m[x].next \in DOMAIN m /\ x + Header < m[x].next
               /\ \A c \in DOMAIN m : x < c => m[x].next =< c
               /\ m[x].prev \in DOMAIN m
               /\ x = 0 => m[x].prev = 0
               /\ x # 0 => m[x].prev < x /\ m[m[x].prev].next = x
    <3>0. x \in DOMAIN h \ {Small!End} /\ x # n /\ x \in Nat
      BY <1>1, <1>7
    <3>1. /\ h[x].next \in DOMAIN h /\ x + Header < h[x].next
          /\ \A c \in DOMAIN h : x < c => h[x].next =< c
          /\ h[x].prev \in DOMAIN h
          /\ x = 0 => h[x].prev = 0
          /\ x # 0 => h[x].prev < x /\ h[h[x].prev].next = x
      BY <3>0 DEF Chain
    <3>n. /\ \A c \in DOMAIN h : n < c => nn =< c
          /\ \A c \in DOMAIN h : b < c => n =< c
      BY <1>2 DEF Chain
    <3>2. m[x].next \in DOMAIN m /\ x + Header < m[x].next
      <4>1. CASE x = b
        <5>1. b + Header < n
          BY <3>1, <4>1
        <5> QED BY <4>1, <5>1, <1>0, <1>1, <1>2, <1>3, <1>7
      <4>2. CASE x # b
        <5>1. m[x].next = h[x].next
          BY <4>2, <1>7
        <5>2. h[x].next # n
          <6>1. CASE x < b
            BY <6>1, <3>1, <1>2, <1>1
          <6>2. CASE b < x
            BY <6>2, <3>0, <3>1, <3>n, <1>2, <1>1, <1>0
          <6> QED BY <6>1, <6>2, <4>2, <3>0, <1>2
        <5> QED BY <5>1, <5>2, <3>1, <1>7
      <4> QED BY <4>1, <4>2
    <3>3. \A c \in DOMAIN m : x < c => m[x].next =< c
      <4> SUFFICES ASSUME NEW c \in DOMAIN m, x < c PROVE m[x].next =< c
        OBVIOUS
      <4>1. c \in DOMAIN h /\ c # n /\ c \in Nat
        BY <1>1, <1>7
      <4>2. CASE x = b
        <5>1. n =< c
          BY <4>1, <4>2, <3>n
        <5> QED BY <5>1, <4>1, <4>2, <3>n, <1>2, <1>7
      <4>3. CASE x # b
        BY <4>1, <4>3, <3>1, <1>7
      <4> QED BY <4>2, <4>3
    <3>4. m[x].prev \in DOMAIN m /\ (x = 0 => m[x].prev = 0)
          /\ (x # 0 => m[x].prev < x /\ m[m[x].prev].next = x)
      <4>1. CASE x = nn
        BY <4>1, <1>2, <1>3, <1>7
      <4>2. CASE x # nn
        <5>1. m[x].prev = h[x].prev
          BY <4>2, <1>7
        <5>2. CASE x = 0
          BY <5>1, <5>2, <3>1, <2>1
        <5>3. CASE x # 0
          <6>1. h[x].prev < x /\ h[h[x].prev].next = x
            BY <5>3, <3>1
          <6>2. h[x].prev # n
            BY <4>2, <6>1
          <6>3. h[x].prev # b
            BY <3>0, <6>1
          <6> QED BY <5>1, <5>3, <6>1, <6>2, <6>3, <3>1, <1>7
        <5> QED BY <5>2, <5>3
      <4> QED BY <4>1, <4>2
    <3> QED BY <3>2, <3>3, <3>4
  <2> QED BY <1>7, <2>1, <2>2 DEF Chain
<1> QED BY <1>7, <1>8 DEF m

\* A header lies behind only one other.
LEMMA BeforeLemma ==
    ASSUME Small!HeapAssumption, NEW h, Chain(h), NEW x \in DOMAIN h \ {Small!End},
           NEW y \in DOMAIN h \ {Small!End},
           h[x].next = h[y].next
    PROVE  x = y
<1>1. x \in Nat /\ y \in Nat /\ x < h[x].next /\ y < h[y].next /\ h[x].next \in Nat
  BY BlockLemma
<1>2. x < y => h[x].next =< y
  BY BlockLemma
<1>3. y < x => h[y].next =< x
  BY BlockLemma
<1> QED BY <1>1, <1>2, <1>3

\* What is cut off is a free block of its own.
SplitBehind(h, b, c, m) ==
    /\ c \in 0..Small!End /\ c # Small!End /\ c \notin DOMAIN h /\ b < c
    /\ Chain(m)
    /\ DOMAIN m = DOMAIN h \union {c}
    /\ ~m[c].used /\ m[c].next = h[b].next
    /\ \A x \in DOMAIN h : /\ m[x].used = h[x].used
                           /\ m[x].next = IF x = b THEN c ELSE h[x].next

LEMMA SplitLemma ==
    ASSUME Small!HeapAssumption, NEW h, Chain(h), NEW b \in DOMAIN h \ {Small!End},
           NEW n \in Nat, n > 0, b + Header + n + Header < h[b].next
    PROVE  SplitBehind(h, b, b + Header + n, Small!Split(h, b, n))
<1> DEFINE c == b + Header + n
           behind == h[b].next
           new == [used |-> FALSE, next |-> behind, prev |-> b]
           w == Small!WithNext(h, b, c)
           cut == [x \in DOMAIN h \union {c} |-> IF x = c THEN new ELSE w[x]]
           m == Small!Split(h, b, n)
<1>0. Small!End \in Nat /\ Header \in Nat /\ Header > 0
  BY EndLemma
<1>1. \A x \in DOMAIN h : x \in Nat /\ x =< Small!End /\ h[x] \in Small!Blocks
  BY <1>0 DEF Chain
<1>2. /\ b \in Nat /\ behind \in Nat /\ behind \in DOMAIN h /\ b < behind /\ behind =< Small!End
      /\ \A x \in DOMAIN h : b < x => behind =< x
  BY BlockLemma
<1>3. c \in Nat /\ b < c /\ c + Header < behind /\ c < behind /\ c \in 0..Small!End
      /\ c # Small!End
  BY <1>0, <1>2
<1>4. c \notin DOMAIN h
  BY <1>1, <1>2, <1>3
<1>5. new \in Small!Blocks /\ new.used = FALSE /\ new.next = behind /\ new.prev = b
  BY <1>0, <1>2 DEF Small!Blocks
<1>6. DOMAIN w = DOMAIN h
      /\ \A x \in DOMAIN h : /\ w[x] \in Small!Blocks
                             /\ w[x].used = h[x].used
                             /\ w[x].prev = h[x].prev
                             /\ w[x].next = IF x = b THEN c ELSE h[x].next
  BY <1>1, <1>3, WithNextLemma
<1> HIDE DEF w, new, c, behind
<1>7. DOMAIN cut = DOMAIN h \union {c} /\ cut[c] = new
      /\ \A x \in DOMAIN h : cut[x] = w[x]
  BY <1>4
<1>8. m = IF behind = Small!End THEN cut ELSE Small!WithPrev(cut, behind, c)
  BY DEF Small!Split, c, behind, new, w
<1> HIDE DEF cut, m
<1>9. \A x \in DOMAIN cut : cut[x] \in Small!Blocks
  BY <1>5, <1>6, <1>7
<1>10. /\ DOMAIN m = DOMAIN h \union {c}
       /\ \A x \in DOMAIN m : m[x] \in Small!Blocks
       /\ \A x \in DOMAIN m : m[x].used = cut[x].used /\ m[x].next = cut[x].next
       /\ \A x \in DOMAIN m : x # Small!End =>
             m[x].prev = IF x = behind THEN c ELSE cut[x].prev
  <2>1. CASE behind = Small!End
    <3>1. m = cut
      BY <2>1, <1>8
    <3> QED BY <3>1, <2>1, <1>7, <1>9
  <2>2. CASE behind # Small!End
    <3>1. m = Small!WithPrev(cut, behind, c)
      BY <2>2, <1>8
    <3>2. behind \in DOMAIN cut
      BY <1>2, <1>7
    <3>3. DOMAIN Small!WithPrev(cut, behind, c) = DOMAIN cut
          /\ \A x \in DOMAIN cut :
                /\ Small!WithPrev(cut, behind, c)[x] \in Small!Blocks
                /\ Small!WithPrev(cut, behind, c)[x].used = cut[x].used
                /\ Small!WithPrev(cut, behind, c)[x].next = cut[x].next
                /\ Small!WithPrev(cut, behind, c)[x].prev = IF x = behind THEN c ELSE cut[x].prev
      BY <3>2, <1>3, <1>9, WithPrevLemma
    <3> QED BY <3>1, <3>3, <1>7
  <2> QED BY <2>1, <2>2
<1>11. /\ m[c].used = FALSE /\ m[c].next = behind /\ m[c].prev = b
       /\ \A x \in DOMAIN h : /\ m[x].used = h[x].used
                              /\ m[x].next = IF x = b THEN c ELSE h[x].next
                              /\ x # Small!End => m[x].prev = IF x = behind THEN c ELSE h[x].prev
  BY <1>3, <1>5, <1>6, <1>7, <1>10
<1>12. Chain(m)
  <2>1. DOMAIN m \subseteq 0..Small!End /\ 0 \in DOMAIN m /\ Small!End \in DOMAIN m
        /\ m[Small!End].used
    BY <1>3, <1>10, <1>11 DEF Chain
  <2>2. ASSUME NEW x \in DOMAIN m \ {Small!End}
        PROVE  /\ m[x].next \in DOMAIN m /\ x + Header < m[x].next
               /\ \A y \in DOMAIN m : x < y => m[x].next =< y
               /\ m[x].prev \in DOMAIN m
               /\ x = 0 => m[x].prev = 0
               /\ x # 0 => m[x].prev < x /\ m[m[x].prev].next = x
    <3>1. CASE x = c
      <4>1. \A y \in DOMAIN m : x < y => m[x].next =< y
        BY <3>1, <1>1, <1>2, <1>3, <1>10, <1>11
      <4> QED BY <3>1, <4>1, <1>2, <1>3, <1>4, <1>10, <1>11
    <3>2. CASE x # c
      <4>0. x \in DOMAIN h \ {Small!End} /\ x \in Nat
        BY <3>2, <1>1, <1>10
      <4>1. /\ h[x].next \in DOMAIN h /\ x + Header < h[x].next
            /\ \A y \in DOMAIN h : x < y => h[x].next =< y
            /\ h[x].prev \in DOMAIN h
            /\ x = 0 => h[x].prev = 0
            /\ x # 0 => h[x].prev < x /\ h[h[x].prev].next = x
        BY <4>0 DEF Chain
      <4>2. m[x].next \in DOMAIN m /\ x + Header < m[x].next
        <5>1. CASE x = b
          <6>1. m[x].next = c
            BY <4>0, <5>1, <1>11
          <6>2. b + Header < c
            BY <1>0, <1>2 DEF c
          <6> QED BY <5>1, <6>1, <6>2, <1>10
        <5>2. CASE x # b
          BY <4>0, <4>1, <5>2, <1>10, <1>11
        <5> QED BY <5>1, <5>2
      <4>3. \A y \in DOMAIN m : x < y => m[x].next =< y
        <5> SUFFICES ASSUME NEW y \in DOMAIN m, x < y PROVE m[x].next =< y
          OBVIOUS
        <5>1. CASE x = b
          <6>1. m[x].next = c
            BY <4>0, <5>1, <1>11
          <6>2. CASE y = c
            BY <6>1, <6>2, <1>3
          <6>3. CASE y # c
            <7>1. y \in DOMAIN h /\ y \in Nat
              BY <6>3, <1>1, <1>10
            <7>2. behind =< y
              BY <5>1, <7>1, <1>2
            <7> QED BY <6>1, <7>1, <7>2, <1>2, <1>3
          <6> QED BY <6>2, <6>3
        <5>2. CASE x # b
          <6>1. m[x].next = h[x].next
            BY <4>0, <5>2, <1>11
          <6>2. CASE y = c
            <7>1. x < b
              <8>1. ~(b < x)
                BY <4>0, <6>2, <1>2, <1>3
              <8> QED BY <8>1, <4>0, <5>2, <1>2
            <7>2. h[x].next =< b
              BY <7>1, <4>1
            <7>3. h[x].next \in Nat
              BY <4>1, <1>1
            <7> QED BY <6>1, <6>2, <7>2, <7>3, <1>2, <1>3
          <6>3. CASE y # c
            <7>1. y \in DOMAIN h
              BY <6>3, <1>10
            <7> QED BY <6>1, <7>1, <4>1
          <6> QED BY <6>2, <6>3
        <5> QED BY <5>1, <5>2
      <4>4. m[x].prev \in DOMAIN m /\ (x = 0 => m[x].prev = 0)
            /\ (x # 0 => m[x].prev < x /\ m[m[x].prev].next = x)
        <5>1. CASE x = behind
          <6>1. m[x].prev = c
            BY <4>0, <5>1, <1>11
          <6> QED BY <5>1, <6>1, <1>2, <1>3, <1>10, <1>11
        <5>2. CASE x # behind
          <6>1. m[x].prev = h[x].prev /\ h[x].prev \in DOMAIN h
            BY <4>0, <4>1, <5>2, <1>11
          <6>2. CASE x = 0
            BY <6>1, <6>2, <4>1, <1>10
          <6>3. CASE x # 0
            <7>1. h[x].prev < x /\ h[h[x].prev].next = x
              BY <6>3, <4>1
            <7>2. h[x].prev # b
              BY <7>1, <5>2 DEF behind
            <7>3. m[h[x].prev].next = h[h[x].prev].next
              BY <7>2, <6>1, <1>11
            <7> QED BY <6>1, <6>3, <7>1, <7>3, <1>10
          <6> QED BY <6>2, <6>3
        <5> QED BY <5>1, <5>2
      <4> QED BY <4>2, <4>3, <4>4
    <3> QED BY <3>1, <3>2
  <2> QED BY <1>10, <2>1, <2>2 DEF Chain
<1> QED BY <1>3, <1>4, <1>10, <1>11, <1>12 DEF c, m, behind, SplitBehind

-----------------------------------------------------------------------------
(* plug_holes                                                               *)

LEMMA KeepsTrans ==
    ASSUME NEW h, NEW m, NEW r, Keeps(h, m), Keeps(m, r)
    PROVE  Keeps(h, r)
BY DEF Keeps

\* Joining a free block with a free one behind it keeps the used ones.
LEMMA JoinKeeps ==
    ASSUME Small!HeapAssumption, NEW h, Chain(h), NEW b \in DOMAIN h \ {Small!End}, ~h[b].used,
           h[b].next # Small!End, ~h[h[b].next].used
    PROVE  Keeps(h, Joined(h, b))
<1>1. /\ DOMAIN Joined(h, b) = DOMAIN h \ {h[b].next}
      /\ \A c \in DOMAIN Joined(h, b) :
            /\ Joined(h, b)[c].used = h[c].used
            /\ Joined(h, b)[c].next = IF c = b THEN h[h[b].next].next ELSE h[c].next
  BY JoinedLemma
<1> QED BY <1>1 DEF Keeps

LEMMA PlugForwardLemma ==
    ASSUME Small!HeapAssumption, NEW g, Sound(g), NEW b \in FreeOf(g.mem), ApartBut(g.mem, b)
    PROVE  LET r == Small!PlugForward(g, b)
           IN  /\ Sound(r) /\ b \in FreeOf(r.mem)
               /\ Keeps(g.mem, r.mem)
               /\ ApartBehind(r.mem, b)
               /\ Lowest(g) => Lowest(r)
               /\ g.lfree # Small!End => r.lfree # Small!End
<1> DEFINE h == g.mem
           n == h[b].next
           nn == h[n].next
           m == Joined(h, b)
           r == Small!PlugForward(g, b)
<1>0. Chain(h) /\ g.lfree \in FreeOf(h) \union {Small!End} /\ b \in DOMAIN h /\ ~h[b].used
  BY DEF Sound, FreeOf
<1>1. b # Small!End
  BY <1>0 DEF Chain
<1>2. /\ b \in Nat /\ n \in Nat /\ n \in DOMAIN h /\ b < n /\ n # b
      /\ \A x \in DOMAIN h : x \in Nat
  BY <1>0, <1>1, BlockLemma
<1>3. Small!End \in Nat
  BY EndLemma
<1>4. CASE h[n].used \/ n = Small!End
  <2>1. r = g
    BY <1>4 DEF Small!PlugForward
  <2>2. h[n].used
    BY <1>0, <1>4 DEF Chain
  <2>3. ApartBehind(h, b)
    BY <2>2, <1>0 DEF ApartBehind, ApartBut
  <2>4. Keeps(h, h)
    BY DEF Keeps
  <2> QED BY <2>1, <2>3, <2>4, <1>0 DEF FreeOf
<1>5. CASE ~h[n].used /\ n # Small!End
  <2>1. r = [lfree |-> IF g.lfree = n THEN b ELSE g.lfree, mem |-> m]
    BY <1>2, <1>5 DEF Small!PlugForward, Joined
  <2>2. r.mem = m /\ r.lfree = IF g.lfree = n THEN b ELSE g.lfree
    BY <2>1
  <2>3. /\ Chain(m)
        /\ DOMAIN m = DOMAIN h \ {n}
        /\ \A c \in DOMAIN m : /\ m[c].used = h[c].used
                               /\ m[c].next = IF c = b THEN nn ELSE h[c].next
    BY <1>0, <1>1, <1>5, JoinedLemma
  <2>4. Keeps(h, m)
    BY <1>0, <1>1, <1>5, JoinKeeps
  <2>5. nn \in DOMAIN h /\ n < nn /\ nn \in Nat
    BY <1>0, <1>2, <1>5, BlockLemma
  <2> HIDE DEF m, h, r
  <2>6. h[nn].used /\ nn \in DOMAIN m
    <3>1. nn # b /\ nn # n
      BY <2>5, <1>2
    <3> QED BY <3>1, <2>3, <2>5, <1>2, <1>5 DEF ApartBut, h
  <2>7. ApartBehind(m, b)
    <3> SUFFICES ASSUME NEW x \in DOMAIN m, ~m[x].used, m[x].next # b
                 PROVE  m[m[x].next].used
      BY DEF ApartBehind
    <3>1. CASE x = b
      BY <3>1, <2>3, <2>6
    <3>2. CASE x # b
      <4>1. x \in DOMAIN h /\ ~h[x].used /\ m[x].next = h[x].next /\ x # Small!End
        BY <3>2, <2>3, <1>0 DEF Chain
      <4>2. h[x].next # n
        BY <3>2, <4>1, <1>0, <1>1, BeforeLemma DEF h
      <4>3. h[h[x].next].used
        BY <3>2, <4>1 DEF ApartBut, h
      <4>4. h[x].next \in DOMAIN h
        BY <4>1, <1>0 DEF Chain
      <4> QED BY <4>1, <4>2, <4>3, <4>4, <2>3
    <3> QED BY <3>1, <3>2
  <2>8. FreeOf(m) = FreeOf(h) \ {n} /\ b \in FreeOf(m)
    BY <2>3, <1>0, <1>2, <1>5 DEF FreeOf
  <2>9. r.lfree \in FreeOf(m) \union {Small!End}
    BY <2>2, <2>8, <1>0
  <2>10. Lowest(g) => Lowest(r)
    <3> SUFFICES ASSUME Lowest(g), NEW x \in FreeOf(m) PROVE r.lfree =< x
      BY <2>2 DEF Lowest
    <3>1. \A y \in FreeOf(h) : g.lfree =< y
      BY DEF Lowest, h
    <3>2. n \in FreeOf(h) /\ b \in FreeOf(h)
      BY <1>0, <1>2, <1>5 DEF FreeOf
    <3>3. g.lfree # n
      <4>1. g.lfree =< b
        BY <3>1, <3>2
      <4> QED BY <4>1, <1>2
    <3> QED BY <3>1, <3>3, <2>2, <2>8
  <2>11. g.lfree # Small!End => r.lfree # Small!End
    BY <2>2, <1>1
  <2> QED BY <2>2, <2>3, <2>4, <2>7, <2>8, <2>9, <2>10, <2>11 DEF Sound, h, r
<1> QED BY <1>4, <1>5

LEMMA PlugBackwardLemma ==
    ASSUME Small!HeapAssumption, NEW g, Sound(g), NEW b \in FreeOf(g.mem), ApartBehind(g.mem, b)
    PROVE  LET r == Small!PlugBackward(g, b)
           IN  /\ Sound(r)
               /\ Keeps(g.mem, r.mem)
               /\ Apart(r.mem)
               /\ Lowest(g) => Lowest(r)
               /\ g.lfree # Small!End => r.lfree # Small!End
<1> DEFINE h == g.mem
           p == h[b].prev
           n == h[b].next
           m == Joined(h, p)
           r == Small!PlugBackward(g, b)
<1>0. Chain(h) /\ g.lfree \in FreeOf(h) \union {Small!End} /\ b \in DOMAIN h /\ ~h[b].used
  BY DEF Sound, FreeOf
<1>1. b # Small!End
  BY <1>0 DEF Chain
<1>2. /\ b \in Nat /\ n \in Nat /\ n \in DOMAIN h /\ b < n /\ n # b
      /\ \A x \in DOMAIN h : x \in Nat
  BY <1>0, <1>1, BlockLemma
<1>3. p \in DOMAIN h /\ (b = 0 => p = 0) /\ (b # 0 => p < b /\ h[p].next = b)
  BY <1>0, <1>1 DEF Chain
<1>4. CASE b = p \/ h[p].used
  <2>1. r = g
    BY <1>4 DEF Small!PlugBackward
  <2>2. Apart(h)
    <3> SUFFICES ASSUME NEW x \in DOMAIN h, ~h[x].used PROVE h[h[x].next].used
      BY DEF Apart
    <3>0. x # Small!End
      BY <1>0 DEF Chain
    <3>1. h[x].next # b
      <4> SUFFICES ASSUME h[x].next = b PROVE FALSE
        OBVIOUS
      <4>1. b # 0
        BY <1>0, <3>0, <1>2, BlockLemma
      <4>2. h[p].next = b /\ p < b /\ p # b
        BY <4>1, <1>2, <1>3
      <4>3. p # Small!End
        BY <4>2, <1>2, <1>0, BlockLemma, <1>1
      <4>4. x = p
        BY <4>2, <4>3, <3>0, <1>0, <1>3, BeforeLemma
      <4> QED BY <4>2, <4>4, <1>4
    <3> QED BY <3>1 DEF ApartBehind
  <2>3. Keeps(h, h)
    BY DEF Keeps
  <2> QED BY <2>1, <2>2, <2>3
<1>5. CASE b # p /\ ~h[p].used
  <2>0. b # 0 /\ p < b /\ h[p].next = b /\ p \in Nat /\ p # Small!End
    BY <1>5, <1>3, <1>2, <1>0 DEF Chain
  <2>1. r = [lfree |-> IF g.lfree = b THEN p ELSE g.lfree, mem |-> m]
    BY <2>0, <1>5 DEF Small!PlugBackward, Joined
  <2>2. r.mem = m /\ r.lfree = IF g.lfree = b THEN p ELSE g.lfree
    BY <2>1
  <2>3. /\ Chain(m)
        /\ DOMAIN m = DOMAIN h \ {b}
        /\ \A c \in DOMAIN m : /\ m[c].used = h[c].used
                               /\ m[c].next = IF c = p THEN n ELSE h[c].next
    <3>1. /\ Chain(m)
          /\ DOMAIN m = DOMAIN h \ {h[p].next}
          /\ \A c \in DOMAIN m : /\ m[c].used = h[c].used
                                 /\ m[c].next = IF c = p THEN h[h[p].next].next ELSE h[c].next
      BY <2>0, <1>0, <1>1, <1>3, JoinedLemma
    <3> QED BY <3>1, <2>0
  <2>4. Keeps(h, m)
    BY <2>0, <1>0, <1>1, <1>3, <1>5, JoinKeeps
  <2>5. h[n].used /\ n \in DOMAIN m
    BY <2>3, <1>0, <1>2 DEF ApartBehind
  <2> HIDE DEF m, h, r
  <2>7. Apart(m)
    <3> SUFFICES ASSUME NEW x \in DOMAIN m, ~m[x].used PROVE m[m[x].next].used
      BY DEF Apart
    <3>1. CASE x = p
      BY <3>1, <2>3, <2>5
    <3>2. CASE x # p
      <4>1. x \in DOMAIN h /\ ~h[x].used /\ m[x].next = h[x].next /\ x # Small!End
        BY <3>2, <2>3, <1>0 DEF Chain
      <4>2. h[x].next # b
        BY <3>2, <4>1, <1>0, <1>3, <2>0, BeforeLemma
      <4>3. h[h[x].next].used
        BY <4>1, <4>2 DEF ApartBehind, h
      <4>4. h[x].next \in DOMAIN h
        BY <4>1, <1>0 DEF Chain
      <4> QED BY <4>1, <4>2, <4>3, <4>4, <2>3
    <3> QED BY <3>1, <3>2
  <2>8. FreeOf(m) = FreeOf(h) \ {b} /\ p \in FreeOf(m)
    BY <2>0, <2>3, <1>0, <1>3, <1>5 DEF FreeOf
  <2>9. r.lfree \in FreeOf(m) \union {Small!End}
    BY <2>2, <2>8, <1>0
  <2>10. Lowest(g) => Lowest(r)
    <3> SUFFICES ASSUME Lowest(g), NEW x \in FreeOf(m) PROVE r.lfree =< x
      BY <2>2 DEF Lowest
    <3>1. \A y \in FreeOf(h) : g.lfree =< y
      BY DEF Lowest, h
    <3>2. b \in FreeOf(h) /\ p \in FreeOf(h)
      BY <1>0, <1>3, <1>5 DEF FreeOf
    <3>3. g.lfree # b
      <4>1. g.lfree =< p
        BY <3>1, <3>2
      <4> QED BY <4>1, <1>2, <2>0
    <3> QED BY <3>1, <3>3, <2>2, <2>8
  <2>11. g.lfree # Small!End => r.lfree # Small!End
    BY <2>2, <2>0
  <2> QED BY <2>2, <2>3, <2>4, <2>7, <2>9, <2>10, <2>11 DEF Sound, h, r
<1> QED BY <1>4, <1>5

\* Whatever is free around b, nothing is after plug_holes, and no used block
\* is touched.
LEMMA PlugHolesLemma ==
    ASSUME Small!HeapAssumption, NEW g, Sound(g), NEW b \in FreeOf(g.mem), ApartBut(g.mem, b)
    PROVE  LET r == Small!PlugHoles(g, b)
           IN  /\ Sound(r) /\ Keeps(g.mem, r.mem) /\ Apart(r.mem)
               /\ Lowest(g) => Lowest(r)
               /\ g.lfree # Small!End => r.lfree # Small!End
<1> DEFINE f == Small!PlugForward(g, b)
<1>1. /\ Sound(f) /\ b \in FreeOf(f.mem) /\ Keeps(g.mem, f.mem) /\ ApartBehind(f.mem, b)
      /\ Lowest(g) => Lowest(f)
      /\ g.lfree # Small!End => f.lfree # Small!End
  BY PlugForwardLemma
<1> HIDE DEF f
<1>2. LET r == Small!PlugBackward(f, b)
      IN  /\ Sound(r) /\ Keeps(f.mem, r.mem) /\ Apart(r.mem)
          /\ Lowest(f) => Lowest(r)
          /\ f.lfree # Small!End => r.lfree # Small!End
  BY <1>1, PlugBackwardLemma
<1> QED BY <1>1, <1>2, KeepsTrans DEF Small!PlugHoles, f

-----------------------------------------------------------------------------
(* The calls                                                                *)

\* The pointers d that callers have are those of the used blocks of h, and
\* each of these has the room its caller counts on.
Owned(h, d) ==
    /\ \A p \in DOMAIN d : /\ p \in 0..Small!End /\ d[p] \in 1..MemSize
                           /\ Small!BlockOf(p) \in UsedOf(h)
                           /\ d[p] =< Small!Room(h, Small!BlockOf(p))
    /\ \A b \in UsedOf(h) : Small!Pointer(b) \in DOMAIN d

Now == [mem |-> mem, lfree |-> lfree]
HeapSound == Sound(Now) /\ Apart(mem) /\ Owned(mem, held)

With(p, n) == [x \in DOMAIN held \union {p} |-> IF x = p THEN n ELSE held[x]]

LEMMA PointerLemma ==
    ASSUME Small!HeapAssumption, NEW b \in Nat
    PROVE  Small!Pointer(b) \in Nat /\ Small!BlockOf(Small!Pointer(b)) = b /\ b < Small!Pointer(b)
BY EndLemma DEF Small!Pointer, Small!BlockOf

\* A pointer leads to one used block.
LEMMA OwnerLemma ==
    ASSUME Small!HeapAssumption, HeapSound, NEW p \in DOMAIN held
    PROVE  /\ Small!BlockOf(p) \in DOMAIN mem \ {Small!End} /\ mem[Small!BlockOf(p)].used
           /\ Small!BlockOf(p) \in UsedOf(mem) /\ Small!BlockOf(p) \in Nat /\ p \in Nat
           /\ Small!Pointer(Small!BlockOf(p)) = p
           /\ \A q \in DOMAIN held : q # p => Small!BlockOf(q) # Small!BlockOf(p)
<1>1. Header \in Nat /\ Small!End \in Nat
  BY EndLemma
<1>2. \A q \in DOMAIN held : q \in 0..Small!End /\ Small!BlockOf(q) \in UsedOf(mem)
  BY DEF HeapSound, Owned
<1>3. DOMAIN mem \subseteq 0..Small!End
  BY DEF HeapSound, Sound, Now, Chain
<1> QED BY <1>1, <1>2, <1>3 DEF UsedOf, Small!BlockOf, Small!Pointer

\* rt_free keeps the heap sound; its lfree is never heap_end.
LEMMA FreedLemma ==
    ASSUME Small!HeapAssumption, HeapSound, NEW p \in DOMAIN held
    PROVE  LET r == Small!Freed(Small!BlockOf(p))
           IN  /\ Sound(r) /\ Apart(r.mem)
               /\ Owned(r.mem, Restrict(held, DOMAIN held \ {p}))
               /\ Lowest(Now) => Lowest(r)
               /\ r.lfree # Small!End
<1> DEFINE b == Small!BlockOf(p)
           m == [mem EXCEPT ![b].used = FALSE]
           l == IF b < lfree THEN b ELSE lfree
           g == [mem |-> m, lfree |-> l]
           r == Small!PlugHoles(g, b)
           d == Restrict(held, DOMAIN held \ {p})
<1>1. /\ b \in DOMAIN mem /\ b # Small!End /\ mem[b].used /\ b \in UsedOf(mem) /\ b \in Nat
      /\ p \in Nat /\ Small!Pointer(b) = p
      /\ \A q \in DOMAIN held : q # p => Small!BlockOf(q) # b
  BY OwnerLemma
<1>2. Chain(mem) /\ lfree \in FreeOf(mem) \union {Small!End}
  BY DEF HeapSound, Sound, Now
<1>3. Small!End \in Nat /\ \A x \in DOMAIN mem : x \in Nat /\ x =< Small!End /\ mem[x] \in Small!Blocks
  BY <1>2, EndLemma DEF Chain
<1>4. /\ DOMAIN m = DOMAIN mem
      /\ \A x \in DOMAIN mem : /\ m[x] \in Small!Blocks
                               /\ m[x].next = mem[x].next /\ m[x].prev = mem[x].prev
                               /\ m[x].used = (mem[x].used /\ x # b)
  BY <1>1, <1>3 DEF Small!Blocks
<1> HIDE DEF m, b
<1>5. Chain(m)
  <2>1. m[Small!End].used
    BY <1>1, <1>2, <1>4 DEF Chain
  <2>2. \A x \in DOMAIN mem : m[x] \in Small!Blocks /\ m[x].next = mem[x].next /\ m[x].prev = mem[x].prev
    BY <1>4
  <2>3. DOMAIN m = DOMAIN mem
    BY <1>4
  <2> QED BY <2>1, <2>2, <2>3, <1>2 DEF Chain
<1>6. FreeOf(m) = FreeOf(mem) \union {b} /\ UsedOf(m) = UsedOf(mem) \ {b}
  BY <1>1, <1>4 DEF FreeOf, UsedOf
<1>7. lfree \in Nat /\ l \in FreeOf(m) \union {Small!End} /\ l # Small!End
  <2>1. lfree \in Nat /\ lfree =< Small!End
    BY <1>2, <1>3 DEF FreeOf
  <2>2. b < Small!End
    BY <1>1, <1>3
  <2>3. lfree = Small!End => l = b
    BY <2>2
  <2> QED BY <2>1, <2>3, <1>1, <1>2, <1>6
<1>8. g.mem = m /\ g.lfree = l
  OBVIOUS
<1>9. Small!Freed(b) = r
  BY DEF Small!Freed, m
<1> HIDE DEF g, l
<1>10. Sound(g) /\ b \in FreeOf(g.mem)
  BY <1>5, <1>6, <1>7, <1>8 DEF Sound
<1>11. ApartBut(g.mem, b)
  <2> SUFFICES ASSUME NEW x \in DOMAIN m, ~m[x].used, x # b, m[x].next # b
               PROVE  m[m[x].next].used
    BY <1>8 DEF ApartBut
  <2>1. mem[mem[x].next].used
    BY <1>4 DEF HeapSound, Apart
  <2>2. mem[x].next \in DOMAIN mem
    BY <1>2, <1>4 DEF Chain
  <2> QED BY <2>1, <2>2, <1>4
<1>12. /\ Sound(r) /\ Keeps(m, r.mem) /\ Apart(r.mem)
       /\ Lowest(g) => Lowest(r)
       /\ r.lfree # Small!End
  BY <1>7, <1>8, <1>10, <1>11, PlugHolesLemma
<1> HIDE DEF r
<1>13. Lowest(Now) => Lowest(g)
  <2> SUFFICES ASSUME \A x \in FreeOf(mem) : lfree =< x, NEW x \in FreeOf(m) PROVE l =< x
    BY <1>8 DEF Lowest, Now
  <2>1. x \in Nat
    BY <1>3, <1>4 DEF FreeOf
  <2> QED BY <2>1, <1>1, <1>6, <1>7 DEF l
<1>14. Owned(r.mem, d)
  <2>1. DOMAIN d = DOMAIN held \ {p} /\ \A q \in DOMAIN d : d[q] = held[q]
    BY DEF Restrict
  <2> HIDE DEF d
  <2>2. UsedOf(r.mem) = UsedOf(m) /\ \A x \in UsedOf(m) : r.mem[x].next = mem[x].next
    BY <1>4, <1>12 DEF Keeps, UsedOf
  <2>3. ASSUME NEW q \in DOMAIN d
        PROVE  /\ q \in 0..Small!End /\ d[q] \in 1..MemSize
               /\ Small!BlockOf(q) \in UsedOf(r.mem) /\ d[q] =< Small!Room(r.mem, Small!BlockOf(q))
    <3>1. q \in DOMAIN held /\ q # p /\ d[q] = held[q]
      BY <2>1
    <3>2. /\ q \in 0..Small!End /\ held[q] \in 1..MemSize
          /\ Small!BlockOf(q) \in UsedOf(mem) /\ held[q] =< Small!Room(mem, Small!BlockOf(q))
      BY <3>1 DEF HeapSound, Owned
    <3>3. Small!BlockOf(q) \in UsedOf(m)
      BY <3>1, <3>2, <1>1, <1>6
    <3> QED BY <3>1, <3>2, <3>3, <2>2 DEF Small!Room
  <2>4. ASSUME NEW x \in UsedOf(r.mem) PROVE Small!Pointer(x) \in DOMAIN d
    <3>1. x \in UsedOf(mem) /\ x # b
      BY <2>2, <1>6
    <3>2. Small!Pointer(x) \in DOMAIN held
      BY <3>1 DEF HeapSound, Owned
    <3>3. Small!Pointer(x) # p
      <4>1. x \in Nat
        BY <3>1, <1>3 DEF UsedOf
      <4> QED BY <4>1, <3>1, <1>1, PointerLemma
    <3> QED BY <3>2, <3>3, <2>1
  <2> QED BY <2>3, <2>4 DEF Owned
<1> QED BY <1>9, <1>12, <1>13, <1>14 DEF b

\* rt_realloc to less does, and with lfree at or below the block the free
\* blocks stay behind it.
LEMMA ShrunkLemma ==
    ASSUME Small!HeapAssumption, HeapSound, NEW p \in DOMAIN held, NEW n \in Sizes,
           n + Header + MinSize < Small!Room(mem, Small!BlockOf(p))
    PROVE  LET b == Small!BlockOf(p)
               r == Small!PlugHoles([mem |-> Small!Split(mem, b, n), lfree |-> lfree], b + Header + n)
           IN  /\ Sound(r) /\ Apart(r.mem) /\ Owned(r.mem, With(p, n))
               /\ lfree # Small!End => r.lfree # Small!End
               /\ Small!Room(r.mem, b) < Small!Room(mem, b)
               /\ Lowest(Now) /\ ~(p < lfree) => Lowest(r)
<1> DEFINE b == Small!BlockOf(p)
           c == b + Header + n
           m == Small!Split(mem, b, n)
           g == [mem |-> m, lfree |-> lfree]
           r == Small!PlugHoles(g, c)
           d == With(p, n)
<1>0. /\ Header \in Nat /\ MinSize \in Nat /\ Header > 0 /\ MinSize > 0 /\ MemSize \in Nat
      /\ n \in Nat /\ n > 0 /\ n =< MemSize /\ Small!End \in Nat
  BY EndLemma
<1>1. /\ b \in DOMAIN mem \ {Small!End} /\ mem[b].used /\ b \in UsedOf(mem) /\ b \in Nat
      /\ p \in Nat /\ Small!Pointer(b) = p
      /\ \A q \in DOMAIN held : q # p => Small!BlockOf(q) # b
  BY OwnerLemma
<1>2. Chain(mem) /\ lfree \in FreeOf(mem) \union {Small!End} /\ Apart(mem)
  BY DEF HeapSound, Sound, Now
<1>3. mem[b].next \in DOMAIN mem /\ mem[b].next \in Nat
  BY <1>1, <1>2, BlockLemma
<1>4. b + Header + n + Header < mem[b].next
  <2>1. n + Header + MinSize < mem[b].next - (b + Header)
    BY DEF Small!Room
  <2> QED BY <2>1, <1>0, <1>1, <1>3
<1> HIDE DEF b
<1>b. b \in DOMAIN mem \ {Small!End} /\ n \in Nat /\ n > 0
  BY <1>0, <1>1
<1>5. /\ c \in 0..Small!End /\ c # Small!End /\ c \notin DOMAIN mem /\ b < c
      /\ Chain(m)
      /\ DOMAIN m = DOMAIN mem \union {c}
      /\ ~m[c].used /\ m[c].next = mem[b].next
      /\ \A x \in DOMAIN mem : /\ m[x].used = mem[x].used
                               /\ m[x].next = IF x = b THEN c ELSE mem[x].next
  <2>1. SplitBehind(mem, b, c, m)
    BY <1>b, <1>2, <1>4, SplitLemma
  <2> QED BY <2>1 DEF SplitBehind
<1>6. g.mem = m /\ g.lfree = lfree
  OBVIOUS
<1>7. c = p + n
  BY <1>0, <1>1 DEF Small!Pointer
<1> HIDE DEF m, g, c
<1>8. FreeOf(m) = FreeOf(mem) \union {c} /\ UsedOf(m) = UsedOf(mem)
  BY <1>5 DEF FreeOf, UsedOf
<1>9. Sound(g) /\ c \in FreeOf(g.mem)
  BY <1>2, <1>5, <1>6, <1>8 DEF Sound
<1>10. ApartBut(g.mem, c)
  <2> SUFFICES ASSUME NEW x \in DOMAIN m, ~m[x].used, x # c, m[x].next # c
               PROVE  m[m[x].next].used
    BY <1>6 DEF ApartBut
  <2>1. x \in DOMAIN mem /\ ~mem[x].used /\ x # b /\ m[x].next = mem[x].next /\ x # Small!End
    BY <1>1, <1>2, <1>5 DEF Chain
  <2>2. mem[mem[x].next].used /\ mem[x].next \in DOMAIN mem
    BY <2>1, <1>2 DEF Apart, Chain
  <2> QED BY <2>1, <2>2, <1>5
<1>11. /\ Sound(r) /\ Keeps(m, r.mem) /\ Apart(r.mem)
       /\ Lowest(g) => Lowest(r)
       /\ lfree # Small!End => r.lfree # Small!End
  BY <1>6, <1>9, <1>10, PlugHolesLemma
<1> HIDE DEF r
<1>12. UsedOf(r.mem) = UsedOf(mem) /\ \A x \in UsedOf(mem) : r.mem[x].next = m[x].next
  BY <1>8, <1>11 DEF Keeps, UsedOf
<1>13. Small!Room(r.mem, b) = n
  <2>1. r.mem[b].next = c
    BY <1>1, <1>5, <1>12
  <2> QED BY <2>1, <1>0, <1>1 DEF Small!Room, c
<1>14. Owned(r.mem, d)
  <2>1. DOMAIN d = DOMAIN held /\ \A q \in DOMAIN held : d[q] = IF q = p THEN n ELSE held[q]
    BY DEF With
  <2> HIDE DEF d
  <2>2. ASSUME NEW q \in DOMAIN held
        PROVE  /\ q \in 0..Small!End /\ d[q] \in 1..MemSize
               /\ Small!BlockOf(q) \in UsedOf(r.mem) /\ d[q] =< Small!Room(r.mem, Small!BlockOf(q))
    <3>1. /\ q \in 0..Small!End /\ held[q] \in 1..MemSize
          /\ Small!BlockOf(q) \in UsedOf(mem) /\ held[q] =< Small!Room(mem, Small!BlockOf(q))
      BY DEF HeapSound, Owned
    <3>2. CASE q = p
      <4>1. Small!BlockOf(q) = b /\ d[q] = n
        BY <3>2, <2>1 DEF b
      <4> QED BY <4>1, <3>1, <1>0, <1>12, <1>13
    <3>3. CASE q # p
      <4>1. Small!BlockOf(q) # b /\ d[q] = held[q]
        BY <3>3, <2>1, <1>1
      <4>2. r.mem[Small!BlockOf(q)].next = mem[Small!BlockOf(q)].next
        BY <4>1, <3>1, <1>5, <1>12 DEF UsedOf
      <4> QED BY <4>1, <4>2, <3>1, <1>12 DEF Small!Room
    <3> QED BY <3>2, <3>3
  <2>3. \A x \in UsedOf(r.mem) : Small!Pointer(x) \in DOMAIN d
    BY <2>1, <1>12 DEF HeapSound, Owned
  <2> QED BY <2>1, <2>2, <2>3 DEF Owned
<1>15. Small!Room(r.mem, b) < Small!Room(mem, b)
  <2>1. n < mem[b].next - (b + Header)
    BY <1>0, <1>1, <1>3, <1>4
  <2> QED BY <2>1, <1>13 DEF Small!Room
<1>16. Lowest(Now) /\ ~(p < lfree) => Lowest(r)
  <2> SUFFICES ASSUME \A x \in FreeOf(mem) : lfree =< x, ~(p < lfree) PROVE Lowest(g)
    BY <1>11 DEF Lowest, Now
  <2>1. lfree \in Nat
    BY <1>0, <1>2 DEF FreeOf, Chain
  <2>2. lfree =< c
    BY <2>1, <1>0, <1>1, <1>7
  <2> QED BY <2>2, <1>6, <1>8 DEF Lowest
<1> QED BY <1>11, <1>14, <1>15, <1>16 DEF b, c, m, g, r, d

LEMMA AtLeastLemma ==
    ASSUME Small!HeapAssumption, NEW n \in Sizes
    PROVE  Small!AtLeast(n) \in Nat /\ Small!AtLeast(n) > 0 /\ n =< Small!AtLeast(n)
           /\ n \in 1..MemSize
BY EndLemma DEF Small!AtLeast

\* rt_malloc of a free block that fits does, whether it is cut or not.
LEMMA AllocatedLemma ==
    ASSUME Small!HeapAssumption, HeapSound, NEW n \in Sizes, Small!Fitting(Small!AtLeast(n)) # {}
    PROVE  LET b == Min(Small!Fitting(Small!AtLeast(n)))
               r == Small!Allocated(b, Small!AtLeast(n))
           IN  /\ Sound(r) /\ Apart(r.mem) /\ Owned(r.mem, With(Small!Pointer(b), n))
               /\ Small!Pointer(b) \notin DOMAIN held
               /\ Lowest(Now) => Lowest(r)
<1> DEFINE size == Small!AtLeast(n)
           b == Min(Small!Fitting(size))
           c == b + Header + size
           splits == Small!Room(mem, b) >= size + Header + MinSize
           whole == IF splits THEN Small!Split(mem, b, size) ELSE mem
           m == [whole EXCEPT ![b].used = TRUE]
           l == IF b = lfree THEN Small!NextFree(m, b) ELSE lfree
           r == Small!Allocated(b, size)
           p == Small!Pointer(b)
           d == With(p, n)
<1>0. /\ Header \in Nat /\ MinSize \in Nat /\ Header > 0 /\ MinSize > 0 /\ MemSize \in Nat
      /\ Small!End \in Nat /\ size \in Nat /\ size > 0 /\ n =< size /\ n \in 1..MemSize
  BY EndLemma, AtLeastLemma
<1>1. Chain(mem) /\ lfree \in FreeOf(mem) \union {Small!End} /\ Apart(mem)
  BY DEF HeapSound, Sound, Now
<1>2. \A x \in DOMAIN mem : x \in Nat /\ x =< Small!End /\ mem[x] \in Small!Blocks
  BY <1>0, <1>1 DEF Chain
<1> HIDE DEF size
<1>3. b \in Small!Fitting(size)
  <2>1. Small!Fitting(size) \in SUBSET Nat /\ Small!Fitting(size) # {}
    BY <1>2 DEF Small!Fitting, size
  <2> QED BY <2>1, FirstLemma
<1> HIDE DEF b
<1>4. /\ b \in DOMAIN mem \ {Small!End} /\ b \in Nat /\ b < Small!End /\ ~mem[b].used /\ lfree =< b
      /\ Small!Room(mem, b) >= size /\ b \in FreeOf(mem) /\ b # Small!End
  BY <1>0, <1>1, <1>2, <1>3 DEF Small!Fitting, Chain, FreeOf
<1>5. mem[b].next \in DOMAIN mem /\ mem[b].next \in Nat /\ b < mem[b].next
  BY <1>1, <1>4, BlockLemma
<1>6. /\ Chain(whole) /\ b \in DOMAIN whole
      /\ \A x \in DOMAIN mem : /\ x \in DOMAIN whole
                               /\ whole[x].used = mem[x].used
                               /\ x # b => whole[x].next = mem[x].next
      /\ \A x \in DOMAIN whole : x \notin DOMAIN mem =>
            ~whole[x].used /\ whole[x].next = mem[b].next /\ b < x
      /\ Small!Room(whole, b) >= size
  <2>1. CASE splits
    <3>1. b + Header + size + Header < mem[b].next
      <4>1. mem[b].next - (b + Header) >= size + Header + MinSize
        BY <2>1 DEF Small!Room
      <4> QED BY <4>1, <1>0, <1>4, <1>5
    <3>2. /\ c \in 0..Small!End /\ c # Small!End /\ c \notin DOMAIN mem /\ b < c
          /\ Chain(Small!Split(mem, b, size))
          /\ DOMAIN Small!Split(mem, b, size) = DOMAIN mem \union {c}
          /\ ~Small!Split(mem, b, size)[c].used /\ Small!Split(mem, b, size)[c].next = mem[b].next
          /\ \A x \in DOMAIN mem :
                /\ Small!Split(mem, b, size)[x].used = mem[x].used
                /\ Small!Split(mem, b, size)[x].next = IF x = b THEN c ELSE mem[x].next
      <4>1. b \in DOMAIN mem \ {Small!End} /\ size \in Nat /\ size > 0
        BY <1>0, <1>4
      <4>2. SplitBehind(mem, b, c, Small!Split(mem, b, size))
        BY <3>1, <4>1, <1>1, SplitLemma
      <4> QED BY <4>2 DEF SplitBehind
    <3>3. whole = Small!Split(mem, b, size)
      BY <2>1
    <3> HIDE DEF whole
    <3>4. Small!Room(whole, b) = c - (b + Header)
      BY <3>2, <3>3, <1>4 DEF Small!Room
    <3> QED BY <3>2, <3>3, <3>4, <1>0, <1>4
  <2>2. CASE ~splits
    BY <2>2, <1>1, <1>4
  <2> QED BY <2>1, <2>2
<1> HIDE DEF whole, c, splits
<1>7. \A x \in DOMAIN whole : whole[x] \in Small!Blocks /\ x \in Nat
  BY <1>0, <1>6 DEF Chain
<1>8. /\ DOMAIN m = DOMAIN whole
      /\ \A x \in DOMAIN whole : /\ m[x] \in Small!Blocks
                                 /\ m[x].next = whole[x].next /\ m[x].prev = whole[x].prev
                                 /\ x # b => m[x].used = whole[x].used
      /\ m[b].used
  BY <1>6, <1>7 DEF Small!Blocks
<1> HIDE DEF m
<1>9. r = [mem |-> m, lfree |-> l]
  BY DEF Small!Allocated, m, whole, splits
<1>10. r.mem = m /\ r.lfree = l
  BY <1>9
<1>11. Chain(m)
  <2>1. m[Small!End].used
    BY <1>4, <1>6, <1>8 DEF Chain
  <2>2. \A x \in DOMAIN whole : /\ m[x] \in Small!Blocks
                                /\ m[x].next = whole[x].next /\ m[x].prev = whole[x].prev
    BY <1>8
  <2>3. DOMAIN m = DOMAIN whole
    BY <1>8
  <2> QED BY <2>1, <2>2, <2>3, <1>6 DEF Chain
<1>12. UsedOf(m) = UsedOf(mem) \union {b}
  BY <1>4, <1>6, <1>8 DEF UsedOf
<1>13. \A x \in UsedOf(mem) : x # b /\ m[x].next = mem[x].next
  BY <1>4, <1>6, <1>8 DEF UsedOf
<1>14. /\ \A x \in FreeOf(m) : x # b /\ x \in Nat /\ (x \in FreeOf(mem) \/ b < x)
       /\ \A x \in FreeOf(mem) : x # b => x \in FreeOf(m)
  <2>1. ASSUME NEW x \in FreeOf(m) PROVE x # b /\ x \in Nat /\ (x \in FreeOf(mem) \/ b < x)
    <3>1. x \in DOMAIN whole /\ ~m[x].used
      BY <1>8 DEF FreeOf
    <3>2. x # b /\ ~whole[x].used /\ x \in Nat
      BY <3>1, <1>7, <1>8
    <3>3. CASE x \in DOMAIN mem
      BY <3>2, <3>3, <1>6 DEF FreeOf
    <3>4. CASE x \notin DOMAIN mem
      BY <3>1, <3>2, <3>4, <1>6
    <3> QED BY <3>2, <3>3, <3>4
  <2>2. ASSUME NEW x \in FreeOf(mem), x # b PROVE x \in FreeOf(m)
    BY <2>2, <1>6, <1>8 DEF FreeOf
  <2> QED BY <2>1, <2>2
<1>15. Apart(m)
  <2> SUFFICES ASSUME NEW x \in DOMAIN m, ~m[x].used PROVE m[m[x].next].used
    BY DEF Apart
  <2>1. x \in DOMAIN whole /\ x # b /\ ~whole[x].used /\ m[x].next = whole[x].next
    BY <1>8
  <2>2. \A y \in DOMAIN mem : mem[y].used => m[y].used
    BY <1>6, <1>8
  <2>3. CASE x \in DOMAIN mem
    <3>1. ~mem[x].used /\ m[x].next = mem[x].next /\ x # Small!End
      BY <2>1, <2>3, <1>1, <1>6 DEF Chain
    <3>2. mem[x].next \in DOMAIN mem /\ mem[mem[x].next].used
      BY <3>1, <2>3, <1>1 DEF Chain, Apart
    <3> QED BY <3>1, <3>2, <2>2
  <2>4. CASE x \notin DOMAIN mem
    <3>1. m[x].next = mem[b].next
      BY <2>1, <2>4, <1>6
    <3>2. mem[mem[b].next].used
      BY <1>1, <1>4 DEF Apart
    <3> QED BY <3>1, <3>2, <2>2, <1>5
  <2> QED BY <2>3, <2>4
<1>16. /\ l \in FreeOf(m) \union {Small!End}
       /\ Lowest(Now) => \A x \in FreeOf(m) : l =< x
  <2>1. CASE b # lfree
    <3>1. l = lfree
      BY <2>1
    <3>2. lfree \in Nat /\ lfree \in FreeOf(m) \union {Small!End}
      BY <2>1, <1>0, <1>1, <1>2, <1>14 DEF FreeOf
    <3>3. ASSUME \A x \in FreeOf(mem) : lfree =< x, NEW x \in FreeOf(m) PROVE lfree =< x
      BY <3>2, <3>3, <1>4, <1>14
    <3>4. Lowest(Now) => \A x \in FreeOf(mem) : lfree =< x
      BY DEF Lowest, Now
    <3> QED BY <3>1, <3>2, <3>3, <3>4
  <2>2. CASE b = lfree
    <3> DEFINE S == {Small!End} \union {x \in DOMAIN m : x >= b /\ ~m[x].used}
    <3>1. l = Min(S)
      BY <2>2, SmallWords DEF Small!NextFree
    <3>2. S \in SUBSET Nat /\ S # {}
      BY <1>0, <1>7, <1>8
    <3> HIDE DEF S
    <3>3. Min(S) \in S /\ \A y \in S : Min(S) =< y
      BY <3>2, FirstLemma
    <3>4. l \in FreeOf(m) \union {Small!End}
      BY <3>1, <3>3 DEF S, FreeOf
    <3>5. ASSUME \A x \in FreeOf(mem) : lfree =< x, NEW x \in FreeOf(m) PROVE l =< x
      <4>1. x \in Nat /\ x >= b
        BY <3>5, <2>2, <1>4, <1>14
      <4>2. x \in S
        BY <4>1 DEF S, FreeOf
      <4> QED BY <4>2, <3>1, <3>3
    <3>6. Lowest(Now) => \A x \in FreeOf(mem) : lfree =< x
      BY DEF Lowest, Now
    <3> QED BY <3>4, <3>5, <3>6
  <2> QED BY <2>1, <2>2
<1> HIDE DEF l, r
<1>17. p \notin DOMAIN held
  <2> SUFFICES ASSUME p \in DOMAIN held PROVE FALSE
    OBVIOUS
  <2>1. Small!BlockOf(p) \in UsedOf(mem)
    BY DEF HeapSound, Owned
  <2>2. Small!BlockOf(p) = b
    BY <1>4, PointerLemma
  <2> QED BY <2>1, <2>2, <1>4 DEF UsedOf
<1>18. Owned(m, d)
  <2>1. /\ DOMAIN d = DOMAIN held \union {p}
        /\ \A q \in DOMAIN d : d[q] = IF q = p THEN n ELSE held[q]
    BY DEF With
  <2> HIDE DEF d
  <2>2. ASSUME NEW q \in DOMAIN d
        PROVE  /\ q \in 0..Small!End /\ d[q] \in 1..MemSize
               /\ Small!BlockOf(q) \in UsedOf(m) /\ d[q] =< Small!Room(m, Small!BlockOf(q))
    <3>1. CASE q = p
      <4>1. d[q] = n /\ Small!BlockOf(q) = b
        BY <2>1, <3>1, <1>4, PointerLemma
      <4>2. Small!Room(m, b) = Small!Room(whole, b) /\ Small!Room(m, b) \in Int
        BY <1>0, <1>4, <1>6, <1>8 DEF Small!Room, Small!Blocks
      <4>3. p \in 0..Small!End
        <5>1. m[b].next \in 0..Small!End /\ m[b].next - (b + Header) >= size
          BY <4>2, <1>6, <1>8 DEF Small!Room, Small!Blocks
        <5> QED BY <5>1, <1>0, <1>4 DEF Small!Pointer
      <4> QED BY <3>1, <4>1, <4>2, <4>3, <1>0, <1>6, <1>12
    <3>2. CASE q # p
      <4>1. q \in DOMAIN held /\ d[q] = held[q]
        BY <2>1, <3>2
      <4>2. /\ q \in 0..Small!End /\ held[q] \in 1..MemSize
            /\ Small!BlockOf(q) \in UsedOf(mem) /\ held[q] =< Small!Room(mem, Small!BlockOf(q))
        BY <4>1 DEF HeapSound, Owned
      <4>3. Small!Room(m, Small!BlockOf(q)) = Small!Room(mem, Small!BlockOf(q))
        BY <4>2, <1>13 DEF Small!Room
      <4> QED BY <4>1, <4>2, <4>3, <1>12
    <3> QED BY <3>1, <3>2
  <2>3. ASSUME NEW x \in UsedOf(m) PROVE Small!Pointer(x) \in DOMAIN d
    <3>1. CASE x = b
      BY <3>1, <2>1
    <3>2. CASE x # b
      <4>1. x \in UsedOf(mem)
        BY <3>2, <1>12
      <4>2. Small!Pointer(x) \in DOMAIN held
        BY <4>1 DEF HeapSound, Owned
      <4> QED BY <4>2, <2>1
    <3> QED BY <3>1, <3>2
  <2> QED BY <2>2, <2>3 DEF Owned
<1>19. Sound(r) /\ Apart(r.mem) /\ Owned(r.mem, d)
  BY <1>10, <1>11, <1>15, <1>16, <1>18 DEF Sound
<1>20. Lowest(Now) => Lowest(r)
  BY <1>10, <1>16 DEF Lowest
<1> QED BY <1>17, <1>19, <1>20 DEF size, b, r, d, p

-----------------------------------------------------------------------------
(* The invariant                                                            *)

\* What rt_realloc moves is out of everybody's hands but the thread's.
Calls ==
    \A t \in Threads : moving[t] # NoCall =>
        /\ moving[t].old \in DOMAIN held
        /\ moving[t].new # NoCall => moving[t].new \in DOMAIN held
        /\ \A u \in Threads : moving[u] # NoCall =>
              /\ u # t => moving[u].old # moving[t].old
              /\ moving[t].new # NoCall => moving[t].new # moving[u].old

\* With nothing in anybody's hands there is a free block that lfree leads to.
Idle == lfree = Small!End => DOMAIN held # {}

HeapInv ==
    /\ moving \in [Threads -> Small!Moves \union {NoCall}]
    /\ HeapSound /\ Idle /\ Calls

LEMMA SoundNext ==
    ASSUME NEW r, Small!Becomes(r), Sound(r), Apart(r.mem), Owned(r.mem, held')
    PROVE  HeapSound'
<1>1. mem' = r.mem /\ lfree' = r.lfree
  BY DEF Small!Becomes
<1>2. Now'.mem = r.mem /\ Now'.lfree = r.lfree
  BY <1>1 DEF Now
<1>3. Sound(Now)'
  BY <1>2 DEF Sound
<1> QED BY <1>1, <1>3 DEF HeapSound

LEMMA LowestNext ==
    ASSUME NEW r, Small!Becomes(r), Lowest(r)
    PROVE  Small!LowestFree'
BY DEF Small!Becomes, Lowest, Small!LowestFree, Small!FreeBlocks, FreeOf

LEMMA LowestNow == Small!LowestFree => Lowest(Now)
BY DEF Lowest, Small!LowestFree, Small!FreeBlocks, FreeOf, Now

\* rt_malloc, called or inside rt_realloc
LEMMA TakesLemma ==
    ASSUME Small!HeapAssumption, HeapSound, NEW n \in Sizes, Small!Fitting(Small!AtLeast(n)) # {},
           NEW p, p = Small!Pointer(Min(Small!Fitting(Small!AtLeast(n)))),
           Small!Becomes(Small!Allocated(Min(Small!Fitting(Small!AtLeast(n))), Small!AtLeast(n))),
           Small!Give(p, n)
    PROVE  /\ HeapSound' /\ p \notin DOMAIN held /\ DOMAIN held' = DOMAIN held \union {p}
           /\ Idle'
           /\ Small!LowestFree => Small!LowestFree'
<1> DEFINE b == Min(Small!Fitting(Small!AtLeast(n)))
           r == Small!Allocated(b, Small!AtLeast(n))
<1>1. /\ Sound(r) /\ Apart(r.mem) /\ Owned(r.mem, With(Small!Pointer(b), n))
      /\ Small!Pointer(b) \notin DOMAIN held
      /\ Lowest(Now) => Lowest(r)
  BY AllocatedLemma
<1>2. held' = With(p, n)
  BY DEF Small!Give, With
<1>3. DOMAIN held' = DOMAIN held \union {p}
  BY <1>2 DEF With
<1>4. Small!Becomes(r) /\ p = Small!Pointer(b)
  OBVIOUS
<1> HIDE DEF b, r
<1>5. HeapSound'
  BY <1>1, <1>2, <1>4, SoundNext
<1>6. Idle'
  BY <1>3 DEF Idle
<1>7. Small!LowestFree => Small!LowestFree'
  BY <1>1, <1>4, LowestNow, LowestNext
<1> QED BY <1>1, <1>3, <1>4, <1>5, <1>6, <1>7

\* rt_free, called or inside rt_realloc
LEMMA FreesLemma ==
    ASSUME Small!HeapAssumption, HeapSound, NEW p \in DOMAIN held,
           Small!Becomes(Small!Freed(Small!BlockOf(p))), Small!TakeBack(p)
    PROVE  /\ HeapSound' /\ DOMAIN held' = DOMAIN held \ {p}
           /\ Idle'
           /\ Small!LowestFree => Small!LowestFree'
<1> DEFINE r == Small!Freed(Small!BlockOf(p))
           d == Restrict(held, DOMAIN held \ {p})
<1>1. /\ Sound(r) /\ Apart(r.mem) /\ Owned(r.mem, d)
      /\ Lowest(Now) => Lowest(r)
      /\ r.lfree # Small!End
  BY FreedLemma
<1>2. held' = d
  BY SmallWords DEF Small!TakeBack
<1>3. DOMAIN held' = DOMAIN held \ {p}
  BY <1>2 DEF Restrict
<1>4. Small!Becomes(r)
  OBVIOUS
<1> HIDE DEF r, d
<1>5. HeapSound'
  BY <1>1, <1>2, <1>4, SoundNext
<1>6. Idle'
  BY <1>1, <1>4 DEF Idle, Small!Becomes
<1>7. Small!LowestFree => Small!LowestFree'
  BY <1>1, <1>4, LowestNow, LowestNext
<1> QED BY <1>3, <1>5, <1>6, <1>7

\* A pointer that nobody moves may go, come and stay.
LEMMA CallsLemma ==
    ASSUME HeapInv, moving' = moving, NEW p \in Small!Given,
           DOMAIN held \ {p} \subseteq DOMAIN held'
    PROVE  Calls'
<1>1. \A t \in Threads : moving[t] # NoCall => p # moving[t].old /\ p # moving[t].new
  BY DEF Small!Given, Small!Busy
<1> QED BY <1>1 DEF HeapInv, Calls

LEMMA HeapStarts == ASSUME Small!HeapAssumption, Small!Init PROVE HeapInv
<1>0. Small!End \in Nat /\ Header \in Nat /\ Header < Small!End /\ 0 < Small!End
  BY EndLemma
<1> DEFINE new(b) == [used |-> b = Small!End, next |-> Small!End, prev |-> b]
<1>1. DOMAIN mem = {0, Small!End} /\ mem[0] = new(0) /\ mem[Small!End] = new(Small!End)
  BY DEF Small!Init
<1>2. DOMAIN held = {} /\ lfree = 0
  BY DEF Small!Init
<1>3. mem[0] \in Small!Blocks /\ mem[Small!End] \in Small!Blocks /\ ~mem[0].used /\ mem[Small!End].used
      /\ mem[0].next = Small!End /\ mem[0].prev = 0
  <2>1. new(0) \in Small!Blocks /\ new(Small!End) \in Small!Blocks /\ new(0).next = Small!End /\ new(0).prev = 0
    BY <1>0 DEF Small!Blocks
  <2>2. new(0).used = (0 = Small!End) /\ new(Small!End).used = (Small!End = Small!End)
    OBVIOUS
  <2>3. 0 # Small!End /\ Small!End = Small!End
    BY <1>0
  <2> HIDE DEF new
  <2>4. ~new(0).used /\ new(Small!End).used
    BY <2>2, <2>3, Zenon
  <2> QED BY <2>1, <2>4, <1>1
<1> HIDE DEF new
<1>d. DOMAIN mem = {0, Small!End}
  BY <1>1
<1>4. Chain(mem)
  BY <1>0, <1>d, <1>3 DEF Chain
<1>5. Sound(Now)
  BY <1>1, <1>2, <1>3, <1>4 DEF Sound, Now, FreeOf
<1>6. Apart(mem)
  BY <1>1, <1>3 DEF Apart
<1>7. Owned(mem, held)
  BY <1>1, <1>2, <1>3 DEF Owned, UsedOf
<1>8. Idle /\ Calls /\ moving \in [Threads -> Small!Moves \union {NoCall}]
  BY <1>0, <1>2 DEF Idle, Calls, Small!Init
<1> QED BY <1>5, <1>6, <1>7, <1>8 DEF HeapInv, HeapSound

\* Every step keeps the invariant, and unless rt_realloc cuts a block below
\* lfree, no free block comes to lie below that.
LEMMA HeapSteps ==
    ASSUME Small!HeapAssumption, HeapInv, [Small!Next]_(Small!vars)
    PROVE  HeapInv' /\ Small!HiddenByShrinking
<1>0. HeapSound /\ Calls /\ Idle /\ moving \in [Threads -> Small!Moves \union {NoCall}]
  BY DEF HeapInv
<1>1. ASSUME NEW n \in Sizes, Small!Malloc(n) PROVE HeapInv' /\ Small!HiddenByShrinking
  <2> DEFINE p == Small!Pointer(Min(Small!Fitting(Small!AtLeast(n))))
  <2>1. /\ Small!Fitting(Small!AtLeast(n)) # {}
        /\ Small!Becomes(Small!Allocated(Min(Small!Fitting(Small!AtLeast(n))), Small!AtLeast(n)))
        /\ Small!Give(p, n) /\ moving' = moving
    BY <1>1, SmallWords DEF Small!Malloc
  <2>2. /\ HeapSound' /\ p \notin DOMAIN held /\ DOMAIN held' = DOMAIN held \union {p}
        /\ Idle' /\ (Small!LowestFree => Small!LowestFree')
    BY <1>0, <2>1, TakesLemma
  <2>3. Calls'
    BY <1>0, <2>1, <2>2 DEF Calls
  <2> QED BY <1>0, <2>1, <2>2, <2>3 DEF HeapInv, Small!HiddenByShrinking
<1>2. ASSUME NEW p \in DOMAIN held, Small!Free(p) PROVE HeapInv' /\ Small!HiddenByShrinking
  <2>1. p \in Small!Given /\ Small!Becomes(Small!Freed(Small!BlockOf(p))) /\ Small!TakeBack(p) /\ moving' = moving
    BY <1>2 DEF Small!Free
  <2>2. /\ HeapSound' /\ DOMAIN held' = DOMAIN held \ {p}
        /\ Idle' /\ (Small!LowestFree => Small!LowestFree')
    BY <1>0, <2>1, FreesLemma
  <2>3. Calls'
    BY <2>1, <2>2, CallsLemma
  <2> QED BY <1>0, <2>1, <2>2, <2>3 DEF HeapInv, Small!HiddenByShrinking
<1>3. ASSUME NEW n \in Sizes, NEW p \in DOMAIN held, Small!Shrink(p, n)
      PROVE  HeapInv' /\ Small!HiddenByShrinking
  <2> DEFINE b == Small!BlockOf(p)
             r == Small!PlugHoles([mem |-> Small!Split(mem, b, n), lfree |-> lfree], b + Header + n)
  <2>1. /\ p \in Small!Given /\ n + Header + MinSize < Small!Room(mem, Small!BlockOf(p))
        /\ Small!Becomes(r) /\ Small!Give(p, n) /\ moving' = moving
    BY <1>3 DEF Small!Shrink
  <2>2. /\ Sound(r) /\ Apart(r.mem) /\ Owned(r.mem, With(p, n))
        /\ lfree # Small!End => r.lfree # Small!End
        /\ Small!Room(r.mem, b) < Small!Room(mem, b)
        /\ Lowest(Now) /\ ~(p < lfree) => Lowest(r)
    BY <1>0, <2>1, ShrunkLemma
  <2>3. held' = With(p, n) /\ DOMAIN held' = DOMAIN held
    BY <2>1 DEF Small!Give, With
  <2> HIDE DEF r, b
  <2>4. HeapSound'
    BY <2>1, <2>2, <2>3, SoundNext
  <2>5. Idle'
    BY <1>0, <2>1, <2>2, <2>3 DEF Idle, Small!Becomes
  <2>6. Calls'
    BY <2>1, <2>3, CallsLemma
  <2>7. Small!HiddenByShrinking
    <3> SUFFICES ASSUME Small!LowestFree, ~Small!LowestFree'
                 PROVE  \E q \in DOMAIN held :
                           q < lfree
                           /\ Small!Room(mem', Small!BlockOf(q)) < Small!Room(mem, Small!BlockOf(q))
      BY <2>1, <2>3 DEF Small!HiddenByShrinking
    <3>1. ~Lowest(r) /\ Lowest(Now)
      BY <2>1, LowestNow, LowestNext
    <3>2. p < lfree
      BY <3>1, <2>2
    <3>3. mem' = r.mem
      BY <2>1 DEF Small!Becomes
    <3>4. Small!Room(mem', Small!BlockOf(p)) < Small!Room(mem, Small!BlockOf(p))
      BY <3>3, <2>2 DEF b
    <3> QED BY <3>2, <3>4
  <2> QED BY <1>0, <2>1, <2>4, <2>5, <2>6, <2>7 DEF HeapInv
<1>4. ASSUME NEW n \in Sizes, NEW p \in DOMAIN held, Small!Keep(p, n)
      PROVE  HeapInv' /\ Small!HiddenByShrinking
  <2>1. /\ p \in Small!Given /\ Small!Room(mem, Small!BlockOf(p)) = n /\ mem' = mem
        /\ lfree' = lfree
        /\ moving' = moving /\ held' = With(p, n)
    BY <1>4 DEF Small!Keep, Small!Give, With
  <2>2. /\ DOMAIN held' = DOMAIN held
        /\ \A q \in DOMAIN held : held'[q] = IF q = p THEN n ELSE held[q]
    BY <2>1 DEF With
  <2>3. Owned(mem, held)'
    <3>1. n \in 1..MemSize /\ n \in Nat
      BY AtLeastLemma
    <3>2. Owned(mem, held)
      BY <1>0 DEF HeapSound
    <3>3. \A q \in DOMAIN held : held'[q] \in 1..MemSize /\ held'[q] =< Small!Room(mem, Small!BlockOf(q))
      <4> TAKE q \in DOMAIN held
      <4>1. CASE q = p
        BY <4>1, <3>1, <2>1, <2>2
      <4>2. CASE q # p
        BY <4>2, <3>2, <2>2 DEF Owned
      <4> QED BY <4>1, <4>2
    <3>4. Owned(mem, held')
      BY <3>2, <3>3, <2>2 DEF Owned
    <3> QED BY <3>4, <2>1
  <2>4. Sound(Now)' /\ Apart(mem)'
    BY <1>0, <2>1 DEF HeapSound, Now
  <2>5. Calls'
    BY <2>1, <2>2, CallsLemma
  <2>6. Idle' /\ (Small!LowestFree => Small!LowestFree')
    BY <1>0, <2>1, <2>2 DEF Idle, Small!LowestFree, Small!FreeBlocks
  <2> QED BY <1>0, <2>1, <2>3, <2>4, <2>5, <2>6 DEF HeapInv, HeapSound, Small!HiddenByShrinking
<1>5. ASSUME NEW n \in Sizes, NEW p \in DOMAIN held, NEW t \in Threads, Small!Move(t, p, n)
      PROVE  HeapInv' /\ Small!HiddenByShrinking
  <2>1. /\ moving[t] = NoCall /\ p \in Small!Given /\ mem' = mem /\ lfree' = lfree /\ held' = held
        /\ moving' = [moving EXCEPT ![t] = [old |-> p, size |-> n, new |-> NoCall]]
    BY <1>5 DEF Small!Move
  <2>2. [old |-> p, size |-> n, new |-> NoCall] \in Small!Moves
    <3>1. p \in 0..Small!End
      BY <1>0 DEF HeapSound, Owned
    <3> QED BY <3>1 DEF Small!Moves
  <2>3. moving' \in [Threads -> Small!Moves \union {NoCall}]
    BY <1>0, <2>1, <2>2
  <2>4. \A u \in Threads : moving[u] # NoCall => p # moving[u].old /\ p # moving[u].new
    BY <2>1 DEF Small!Given, Small!Busy
  <2>5. moving'[t].old = p /\ moving'[t].new = NoCall
        /\ \A u \in Threads : u # t => moving'[u] = moving[u]
    BY <1>0, <2>1
  <2>6. Calls'
    BY <1>0, <2>1, <2>4, <2>5 DEF Calls
  <2>7. HeapSound' /\ Idle' /\ (Small!LowestFree => Small!LowestFree')
    BY <1>0, <2>1 DEF HeapSound, Now, Idle, Small!LowestFree, Small!FreeBlocks
  <2> QED BY <2>3, <2>6, <2>7 DEF HeapInv, Small!HiddenByShrinking
<1>6. ASSUME NEW t \in Threads, Small!MoveMalloc(t) PROVE HeapInv' /\ Small!HiddenByShrinking
  <2> DEFINE n == moving[t].size
             p == Small!Pointer(Min(Small!Fitting(Small!AtLeast(n))))
  <2>1. /\ moving[t] # NoCall /\ moving[t].new = NoCall
        /\ Small!Fitting(Small!AtLeast(n)) # {}
        /\ Small!Becomes(Small!Allocated(Min(Small!Fitting(Small!AtLeast(n))), Small!AtLeast(n)))
        /\ Small!Give(p, n) /\ moving' = [moving EXCEPT ![t].new = p]
    BY <1>6, SmallWords DEF Small!MoveMalloc
  <2>2. moving[t] \in Small!Moves /\ n \in Sizes
    BY <1>0, <2>1 DEF Small!Moves
  <2>3. /\ HeapSound' /\ p \notin DOMAIN held /\ DOMAIN held' = DOMAIN held \union {p}
        /\ Idle' /\ (Small!LowestFree => Small!LowestFree')
    BY <1>0, <2>1, <2>2, TakesLemma
  <2> HIDE DEF p, n
  <2>4. p \in 0..Small!End
    BY <2>3 DEF HeapSound, Owned
  <2>5. /\ moving'[t] \in Small!Moves /\ moving'[t].old = moving[t].old /\ moving'[t].new = p
        /\ \A u \in Threads : u # t => moving'[u] = moving[u]
    BY <1>0, <2>1, <2>2, <2>4 DEF Small!Moves
  <2>6. moving' \in [Threads -> Small!Moves \union {NoCall}]
    BY <1>0, <2>1, <2>5
  <2>7. \A u \in Threads : moving[u] # NoCall => moving[u].old # p
    BY <1>0, <2>3 DEF Calls
  <2>8. \A u \in Threads : moving'[u] # NoCall =>
           moving[u] # NoCall /\ moving'[u].old = moving[u].old
    BY <2>1, <2>5
  <2>9. Calls'
    <3> SUFFICES ASSUME NEW v \in Threads, moving'[v] # NoCall
                 PROVE  /\ moving'[v].old \in DOMAIN held'
                        /\ moving'[v].new # NoCall => moving'[v].new \in DOMAIN held'
                        /\ \A u \in Threads : moving'[u] # NoCall =>
                              /\ u # v => moving'[u].old # moving'[v].old
                              /\ moving'[v].new # NoCall => moving'[v].new # moving'[u].old
      BY DEF Calls
    <3>1. /\ moving[v] # NoCall /\ moving'[v].old = moving[v].old
          /\ moving[v].old \in DOMAIN held
          /\ moving[v].new # NoCall => moving[v].new \in DOMAIN held
          /\ \A u \in Threads : moving[u] # NoCall =>
                /\ u # v => moving[u].old # moving[v].old
                /\ moving[v].new # NoCall => moving[v].new # moving[u].old
      BY <1>0, <2>8 DEF Calls
    <3>2. CASE v = t
      <4>1. moving'[v].new = p
        BY <2>5, <3>2
      <4> QED BY <4>1, <3>1, <2>3, <2>7, <2>8
    <3>3. CASE v # t
      <4>1. moving'[v] = moving[v]
        BY <2>5, <3>3
      <4> QED BY <4>1, <3>1, <2>3, <2>8
    <3> QED BY <3>2, <3>3
  <2> QED BY <2>3, <2>6, <2>9 DEF HeapInv, Small!HiddenByShrinking
<1>7. ASSUME NEW t \in Threads, Small!MoveFails(t) PROVE HeapInv' /\ Small!HiddenByShrinking
  <2>1. /\ mem' = mem /\ lfree' = lfree /\ held' = held
        /\ moving' = [moving EXCEPT ![t] = NoCall]
    BY <1>7 DEF Small!MoveFails
  <2>2. moving' \in [Threads -> Small!Moves \union {NoCall}]
    BY <1>0, <2>1
  <2>3. moving'[t] = NoCall /\ \A u \in Threads : u # t => moving'[u] = moving[u]
    BY <1>0, <2>1
  <2>4. Calls'
    BY <1>0, <2>1, <2>3 DEF Calls
  <2>5. HeapSound' /\ Idle' /\ (Small!LowestFree => Small!LowestFree')
    BY <1>0, <2>1 DEF HeapSound, Now, Idle, Small!LowestFree, Small!FreeBlocks
  <2> QED BY <2>2, <2>4, <2>5 DEF HeapInv, Small!HiddenByShrinking
<1>8. ASSUME NEW t \in Threads, Small!MoveFree(t) PROVE HeapInv' /\ Small!HiddenByShrinking
  <2> DEFINE p == moving[t].old
  <2>1. /\ moving[t] # NoCall /\ moving[t].new # NoCall
        /\ Small!Becomes(Small!Freed(Small!BlockOf(p))) /\ Small!TakeBack(p)
        /\ moving' = [moving EXCEPT ![t] = NoCall]
    BY <1>8 DEF Small!MoveFree
  <2>2. p \in DOMAIN held
    BY <1>0, <2>1 DEF Calls
  <2>3. /\ HeapSound' /\ DOMAIN held' = DOMAIN held \ {p}
        /\ Idle' /\ (Small!LowestFree => Small!LowestFree')
    BY <1>0, <2>1, <2>2, FreesLemma
  <2>4. moving' \in [Threads -> Small!Moves \union {NoCall}]
    BY <1>0, <2>1
  <2>5. moving'[t] = NoCall /\ \A u \in Threads : u # t => moving'[u] = moving[u]
    BY <1>0, <2>1
  <2>6. Calls'
    BY <1>0, <2>1, <2>3, <2>5 DEF Calls
  <2> QED BY <2>3, <2>4, <2>6 DEF HeapInv, Small!HiddenByShrinking
<1>9. CASE UNCHANGED Small!vars
  <2>1. mem' = mem /\ lfree' = lfree /\ held' = held /\ moving' = moving
    BY <1>9 DEF Small!vars
  <2>2. HeapSound' /\ Idle' /\ (Small!LowestFree => Small!LowestFree') /\ Calls'
    BY <1>0, <2>1 DEF HeapSound, Now, Idle, Small!LowestFree, Small!FreeBlocks, Calls
  <2> QED BY <1>0, <2>1, <2>2 DEF HeapInv, Small!HiddenByShrinking
<1> QED BY <1>1, <1>2, <1>3, <1>4, <1>5, <1>6, <1>7, <1>8, <1>9 DEF Small!Next

LEMMA HeapInvariant == ASSUME Small!HeapAssumption PROVE Small!Spec => []HeapInv
<1>1. Small!Init => HeapInv
  BY HeapStarts
<1>2. HeapInv /\ [Small!Next]_(Small!vars) => HeapInv'
  BY HeapSteps
<1> QED BY <1>1, <1>2, PTL DEF Small!Spec

-----------------------------------------------------------------------------
(* The theorems                                                             *)

\* Set bounds are those the headers name.
LEMMA MinIs ==
    ASSUME NEW S \in SUBSET Nat, NEW x \in S, \A y \in S : x =< y PROVE Min(S) = x
<1> DEFINE m == Min(S)
<1>1. m \in S /\ \A y \in S : m =< y
  BY DEF Min
<1> HIDE DEF m
<1>2. m \in Nat /\ x \in Nat /\ m =< x /\ x =< m
  BY <1>1
<1>3. m = x
  BY <1>2
<1> QED BY <1>3 DEF m

LEMMA MaxIs ==
    ASSUME NEW S \in SUBSET Nat, NEW x \in S, \A y \in S : x >= y PROVE Max(S) = x
<1> DEFINE m == Max(S)
<1>1. m \in S /\ \A y \in S : m >= y
  BY DEF Max
<1> HIDE DEF m
<1>2. m \in Nat /\ x \in Nat /\ m >= x /\ x >= m
  BY <1>1
<1>3. m = x
  BY <1>2
<1> QED BY <1>3 DEF m

\* What the headers tell is where blocks end and begin.
LEMMA TiledNow == ASSUME Small!HeapAssumption PROVE HeapInv => Small!Tiled
<1> SUFFICES ASSUME HeapInv PROVE Small!Tiled
  OBVIOUS
<1>1. Chain(mem) /\ lfree \in FreeOf(mem) \union {Small!End} /\ Owned(mem, held)
      /\ moving \in [Threads -> Small!Moves \union {NoCall}]
  BY DEF HeapInv, HeapSound, Sound, Now
<1>2. Small!TypeOK
  <2>1. /\ DOMAIN mem \subseteq 0..Small!End /\ lfree \in DOMAIN mem
        /\ \A b \in DOMAIN mem : mem[b] \in Small!Blocks
    BY <1>1 DEF Chain, FreeOf
  <2>2. DOMAIN held \subseteq 0..Small!End /\ \A p \in DOMAIN held : held[p] \in 1..MemSize
    BY <1>1 DEF Owned
  <2> QED BY <2>1, <2>2, <1>1 DEF Small!TypeOK
<1>3. ASSUME NEW b \in DOMAIN mem \ {Small!End}
      PROVE  /\ mem[b].next = Min({c \in DOMAIN mem : c > b}) /\ b + Header < mem[b].next
             /\ mem[b].prev = Max({0} \union {c \in DOMAIN mem : c < b})
  <2> DEFINE above == {c \in DOMAIN mem : c > b}
             below == {0} \union {c \in DOMAIN mem : c < b}
  <2>1. /\ b \in Nat /\ mem[b].next \in Nat /\ mem[b].prev \in Nat
        /\ mem[b].next \in DOMAIN mem /\ b + Header < mem[b].next /\ b < mem[b].next
        /\ \A c \in DOMAIN mem : c \in Nat /\ c =< Small!End /\ (b < c => mem[b].next =< c)
    BY <1>1, BlockLemma
  <2>2. /\ mem[b].prev \in DOMAIN mem
        /\ b = 0 => mem[b].prev = 0
        /\ b # 0 => mem[b].prev < b /\ mem[mem[b].prev].next = b
    BY <1>1 DEF Chain
  <2>3. mem[b].next = Min(above)
    <3>1. above \in SUBSET Nat /\ mem[b].next \in above /\ \A y \in above : mem[b].next =< y
      BY <2>1
    <3> HIDE DEF above
    <3> QED BY <3>1, MinIs
  <2>4. mem[b].prev = Max(below)
    <3>1. below \in SUBSET Nat
      BY <2>1
    <3>2. mem[b].prev \in below
      BY <2>1, <2>2
    <3>3. ASSUME NEW y \in below PROVE mem[b].prev >= y
      <4>1. CASE b = 0
        BY <4>1, <2>1, <2>2
      <4>2. CASE b # 0 /\ y # 0
        <5>1. mem[b].prev \in DOMAIN mem \ {Small!End} /\ mem[mem[b].prev].next = b
          BY <4>2, <2>1, <2>2
        <5>2. y \in DOMAIN mem /\ y < b
          BY <4>2
        <5>3. mem[b].prev < y => b =< y
          BY <5>1, <5>2, <1>1 DEF Chain
        <5> QED BY <5>2, <5>3, <2>1
      <4>3. CASE y = 0
        BY <4>3, <2>1
      <4> QED BY <4>1, <4>2, <4>3
    <3> HIDE DEF below
    <3> QED BY <3>1, <3>2, <3>3, MaxIs
  <2> QED BY <2>1, <2>3, <2>4
<1> QED BY <1>1, <1>2, <1>3, SmallWords DEF Small!Tiled, Chain

\* For any arena, any sizes and any number of threads in rt_realloc, the
\* headers of mem.c tile the arena, with next and prev leading to the
\* neighbours.
THEOREM HeapTiled == ASSUME Small!HeapAssumption PROVE Small!Spec => []Small!Tiled
BY TiledNow, HeapInvariant, PTL

\* Free blocks are apart.
LEMMA FreeSoundNow == ASSUME Small!HeapAssumption PROVE HeapInv => Small!FreeSound
<1> SUFFICES ASSUME HeapInv PROVE Small!FreeSound
  OBVIOUS
<1>1. Apart(mem) /\ lfree \in FreeOf(mem) \union {Small!End}
  BY DEF HeapInv, HeapSound, Sound, Now
<1> QED BY <1>1 DEF Small!FreeSound, Small!FreeBlocks, FreeOf, Apart

\* plug_holes leaves no two free neighbours, and lfree is always a free
\* block or heap_end.
THEOREM HeapFreeSound == ASSUME Small!HeapAssumption PROVE Small!Spec => []Small!FreeSound
BY FreeSoundNow, HeapInvariant, PTL

\* Pointers and used blocks match.
LEMMA OwnedOnceNow == ASSUME Small!HeapAssumption PROVE HeapInv => Small!OwnedOnce
<1> SUFFICES ASSUME HeapInv PROVE Small!OwnedOnce
  OBVIOUS
<1>1. Owned(mem, held) /\ Chain(mem)
  BY DEF HeapInv, HeapSound, Sound, Now
<1>2. ASSUME NEW b \in UsedOf(mem) PROVE \E p \in DOMAIN held : b = Small!BlockOf(p)
  <2>1. b \in Nat
    BY <1>1, EndLemma DEF Chain, UsedOf
  <2>2. Small!Pointer(b) \in DOMAIN held /\ b = Small!BlockOf(Small!Pointer(b))
    BY <2>1, <1>1, PointerLemma DEF Owned
  <2> QED BY <2>2
<1>3. \A p \in DOMAIN held : Small!BlockOf(p) \in UsedOf(mem) /\ held[p] =< Small!Room(mem, Small!BlockOf(p))
  BY <1>1 DEF Owned
<1>4. {Small!BlockOf(p) : p \in DOMAIN held} = UsedOf(mem)
  BY <1>2, <1>3
<1> QED BY <1>3, <1>4 DEF Small!OwnedOnce, UsedOf

\* Every used block has exactly one owner and the room he counts on,
\* whatever other callers do in the middle of an rt_realloc.
THEOREM HeapOwnedOnce == ASSUME Small!HeapAssumption PROVE Small!Spec => []Small!OwnedOnce
BY OwnedOnceNow, HeapInvariant, PTL

\* Without pointers only free blocks are left, and these lie apart: one.
LEMMA RecoveredNow == ASSUME Small!HeapAssumption PROVE HeapInv => Small!Recovered
<1> SUFFICES ASSUME HeapInv, DOMAIN held = {}
             PROVE  Small!FreeBlocks = {0} /\ Small!Room(mem, 0) = MemSize /\ lfree = 0
  BY DEF Small!Recovered
<1>1. /\ Chain(mem) /\ Apart(mem) /\ Owned(mem, held)
      /\ lfree \in FreeOf(mem) \union {Small!End} /\ lfree # Small!End
  BY DEF HeapInv, HeapSound, Sound, Now, Idle
<1>2. \A b \in DOMAIN mem : mem[b].used => b = Small!End
  BY <1>1 DEF Owned, UsedOf
<1>3. 0 \in DOMAIN mem \ {Small!End} /\ ~mem[0].used
  BY <1>1, <1>2, EndLemma DEF Chain
<1>4. mem[0].next = Small!End
  <2>1. mem[0].next \in DOMAIN mem /\ mem[mem[0].next].used
    BY <1>1, <1>3 DEF Apart, Chain
  <2> QED BY <2>1, <1>2
<1>5. \A b \in DOMAIN mem : b = 0 \/ b = Small!End
  <2> TAKE b \in DOMAIN mem
  <2>1. b \in Nat /\ b =< Small!End /\ (0 < b => mem[0].next =< b)
    BY <1>1, <1>3, BlockLemma
  <2> QED BY <2>1, <1>4, EndLemma
<1>6. Small!FreeBlocks = {0}
  BY <1>1, <1>3, <1>5 DEF Small!FreeBlocks, Chain
<1>7. lfree = 0
  BY <1>1, <1>6 DEF Small!FreeBlocks, FreeOf
<1>8. Small!Room(mem, 0) = MemSize
  BY <1>4, EndLemma DEF Small!Room
<1> QED BY <1>6, <1>7, <1>8

\* When everything is freed, in whatever order, the heap is one free block
\* again, and lfree leads to it.
THEOREM HeapRecovered == ASSUME Small!HeapAssumption PROVE Small!Spec => []Small!Recovered
BY RecoveredNow, HeapInvariant, PTL

\* Of all calls only an rt_realloc that cuts the end off a block below lfree
\* makes a free block that the search of rt_malloc passes over.
THEOREM HeapHidesOnlyByShrinking ==
    ASSUME Small!HeapAssumption PROVE Small!Spec => Small!LostOnlyByShrinking
<1>1. HeapInv /\ [Small!Next]_(Small!vars) => [Small!HiddenByShrinking]_(Small!vars)
  BY HeapSteps
<1> QED BY <1>1, HeapInvariant, PTL DEF Small!Spec, Small!LostOnlyByShrinking

-----------------------------------------------------------------------------
(* The heap of memheap.c                                                    *)

\* The headers s are a ring that tiles the pool.
Ring(s) ==
    /\ DOMAIN s \subseteq 0..Large!Tailer /\ 0 \in DOMAIN s /\ Large!Tailer \in DOMAIN s
    /\ \A b \in DOMAIN s : /\ s[b] \in Large!Items
                           /\ s[b].next \in DOMAIN s /\ s[s[b].next].prev = b
                           /\ s[b].prev \in DOMAIN s /\ s[s[b].prev].next = b
    /\ \A b \in DOMAIN s \ {Large!Tailer} :
          /\ b + Header + MinSize =< s[b].next
          /\ \A c \in DOMAIN s : b < c => s[b].next =< c
    /\ s[Large!Tailer].used /\ s[Large!Tailer].next = 0

Rooms(s) == [b \in DOMAIN s |-> Large!Room(s, b)]
\* What the free items have room for.
Total(s) == SumFunctionOnSet(Rooms(s), FreeOf(s))

\* Item b of s takes in the one behind it.
JoinedItem(s, b) ==
    LET gone == s[b].next
        behind == s[gone].next
        linked == [s EXCEPT ![b].next = behind, ![behind].prev = b]
    IN  [x \in DOMAIN linked \ {gone} |-> linked[x]]

\* Item b is used, or is not.
Flip(s, b, u) == [s EXCEPT ![b].used = u]

-----------------------------------------------------------------------------

LEMMA PoolLemma ==
    ASSUME Large!MemHeapAssumption
    PROVE  /\ Header \in Nat /\ Header > 0 /\ MinSize \in Nat /\ MinSize > 0 /\ PoolSize \in Nat
           /\ Large!Tailer \in Nat /\ Large!Tailer = PoolSize - Header
           /\ Header + MinSize =< Large!Tailer
           /\ 0 < Large!Tailer
           /\ \A n \in ItemSizes : n \in Nat /\ n > 0 /\ n =< PoolSize
BY DEF Large!MemHeapAssumption, Large!Tailer

LEMMA ItemLemma ==
    ASSUME Large!MemHeapAssumption, NEW s, Ring(s), NEW b \in DOMAIN s
    PROVE  /\ b \in Nat /\ b =< Large!Tailer
           /\ s[b].next \in Nat /\ s[b].prev \in Nat /\ s[b].used \in BOOLEAN
           /\ s[b].next \in DOMAIN s /\ s[s[b].next].prev = b
           /\ s[b].prev \in DOMAIN s /\ s[s[b].prev].next = b
           /\ s[b].next \in 0..Large!Tailer /\ s[b].prev \in 0..Large!Tailer
           /\ b # Large!Tailer => /\ b + Header + MinSize =< s[b].next /\ b < s[b].next
                                  /\ \A c \in DOMAIN s : b < c => s[b].next =< c
           /\ b = Large!Tailer => s[b].next = 0
           /\ b # 0 => s[b].prev < b /\ s[b].prev # Large!Tailer
           /\ Large!Room(s, b) = s[b].next - b - Header /\ Large!Room(s, b) \in Int
           /\ b # Large!Tailer => Large!Room(s, b) >= MinSize /\ Large!Room(s, b) \in Nat
<1>0. /\ Header \in Nat /\ MinSize \in Nat /\ Header > 0 /\ MinSize > 0 /\ Large!Tailer \in Nat
  BY PoolLemma
<1>1. /\ s[b] \in Large!Items
      /\ s[b].next \in DOMAIN s /\ s[s[b].next].prev = b
      /\ s[b].prev \in DOMAIN s /\ s[s[b].prev].next = b
      /\ DOMAIN s \subseteq 0..Large!Tailer
  BY DEF Ring
<1>2. /\ b \in Nat /\ b =< Large!Tailer /\ s[b].next \in 0..Large!Tailer
      /\ s[b].prev \in 0..Large!Tailer
      /\ s[b].used \in BOOLEAN
  BY <1>1, <1>0 DEF Large!Items
<1>3. b # Large!Tailer => /\ b + Header + MinSize =< s[b].next
                          /\ \A c \in DOMAIN s : b < c => s[b].next =< c
  BY DEF Ring
<1>4. b # Large!Tailer => b < s[b].next
  BY <1>0, <1>2, <1>3
<1>5. b = Large!Tailer => s[b].next = 0
  BY DEF Ring
<1>6. ASSUME b # 0 PROVE s[b].prev < b /\ s[b].prev # Large!Tailer
  <2> DEFINE p == s[b].prev
  <2>1. p \in DOMAIN s /\ s[p].next = b /\ p \in Nat
    BY <1>1, <1>2
  <2> HIDE DEF p
  <2>2. p # Large!Tailer
    BY <2>1, <1>6 DEF Ring
  <2>3. p + Header + MinSize =< s[p].next
    BY <2>1, <2>2 DEF Ring
  <2>4. p < b
    BY <2>1, <2>3, <1>0, <1>2
  <2> QED BY <2>2, <2>4 DEF p
<1>7. /\ Large!Room(s, b) = s[b].next - b - Header /\ Large!Room(s, b) \in Int
      /\ b # Large!Tailer => Large!Room(s, b) >= MinSize /\ Large!Room(s, b) \in Nat
  BY <1>0, <1>2, <1>3 DEF Large!Room
<1>8. s[b].next \in Nat /\ s[b].prev \in Nat
  BY <1>2
<1> QED BY <1>1, <1>2, <1>3, <1>4, <1>5, <1>6, <1>7, <1>8

\* An item lies behind only one other.
LEMMA BehindLemma ==
    ASSUME Large!MemHeapAssumption, NEW s, Ring(s), NEW x \in DOMAIN s, NEW y \in DOMAIN s,
           s[x].next = s[y].next
    PROVE  x = y
<1>1. s[s[x].next].prev = x /\ s[s[y].next].prev = y
  BY DEF Ring
<1> QED BY <1>1

\* In m, item b of s has taken in the one behind it.
IsJoin(s, m, b) ==
    LET gone == s[b].next
    IN  /\ Ring(m)
        /\ DOMAIN m = DOMAIN s \ {gone} /\ gone # b /\ gone # 0 /\ gone \in DOMAIN s
        /\ s[gone].next \in DOMAIN m
        /\ \A c \in DOMAIN m : /\ m[c].used = s[c].used
                               /\ m[c].next = IF c = b THEN s[gone].next ELSE s[c].next
        /\ Large!Room(m, b) = Large!Room(s, b) + Header + Large!Room(s, gone)

LEMMA JoinItemLemma ==
    ASSUME Large!MemHeapAssumption, NEW s, Ring(s), NEW b \in DOMAIN s \ {Large!Tailer},
           s[b].next # Large!Tailer
    PROVE  IsJoin(s, JoinedItem(s, b), b)
<1> DEFINE n == s[b].next
           nn == s[n].next
           m == JoinedItem(s, b)
<1>0. /\ Header \in Nat /\ MinSize \in Nat /\ Header > 0 /\ MinSize > 0 /\ Large!Tailer \in Nat
  BY PoolLemma
<1>1. \A x \in DOMAIN s : x \in Nat /\ x =< Large!Tailer /\ s[x] \in Large!Items
  BY <1>0 DEF Ring
<1>2. /\ b \in Nat /\ n \in DOMAIN s /\ n # Large!Tailer /\ n \in Nat /\ b < n /\ n # b /\ n # 0
      /\ b + Header + MinSize =< n /\ s[n].prev = b
      /\ \A c \in DOMAIN s : b < c => n =< c
  <2>1. /\ b \in Nat /\ n \in DOMAIN s /\ n # Large!Tailer /\ n \in Nat /\ b < n
        /\ b + Header + MinSize =< n /\ s[n].prev = b
        /\ \A c \in DOMAIN s : b < c => n =< c
    BY ItemLemma
  <2> HIDE DEF n
  <2> QED BY <2>1
<1>3. /\ nn \in DOMAIN s /\ n < nn /\ nn \in Nat /\ nn # b /\ nn # n /\ nn \in 0..Large!Tailer
      /\ b \in 0..Large!Tailer /\ nn # 0 /\ s[nn].prev = n
      /\ \A c \in DOMAIN s : n < c => nn =< c
  <2> HIDE DEF n
  <2>1. nn \in DOMAIN s /\ n < nn /\ nn \in Nat /\ nn \in 0..Large!Tailer /\ s[nn].prev = n
        /\ \A c \in DOMAIN s : n < c => nn =< c
    BY <1>2, ItemLemma
  <2>2. b \in 0..Large!Tailer
    BY <1>1, <1>2
  <2> HIDE DEF nn
  <2> QED BY <2>1, <2>2, <1>2
<1>4. DOMAIN m = DOMAIN s \ {n}
      /\ \A c \in DOMAIN m : /\ m[c] \in Large!Items
                             /\ m[c].used = s[c].used
                             /\ m[c].next = IF c = b THEN nn ELSE s[c].next
                             /\ m[c].prev = IF c = nn THEN b ELSE s[c].prev
  <2> DEFINE linked == [s EXCEPT ![b].next = nn, ![nn].prev = b]
  <2>1. m = [x \in DOMAIN linked \ {n} |-> linked[x]]
    BY DEF JoinedItem
  <2>2. DOMAIN linked = DOMAIN s
        /\ \A c \in DOMAIN s : /\ linked[c] \in Large!Items
                               /\ linked[c].used = s[c].used
                               /\ linked[c].next = IF c = b THEN nn ELSE s[c].next
                               /\ linked[c].prev = IF c = nn THEN b ELSE s[c].prev
    <3> HIDE DEF n, nn
    <3> QED BY <1>1, <1>2, <1>3 DEF Large!Items
  <2> HIDE DEF linked, m, n, nn
  <2> QED BY <2>1, <2>2
<1> HIDE DEF m, n, nn
<1>5. 0 \in DOMAIN m /\ Large!Tailer \in DOMAIN m /\ DOMAIN m \subseteq 0..Large!Tailer
      /\ m[Large!Tailer].used /\ m[Large!Tailer].next = 0
  BY <1>2, <1>4 DEF Ring
<1>6. ASSUME NEW x \in DOMAIN m
      PROVE  /\ m[x].next \in DOMAIN m /\ m[m[x].next].prev = x
             /\ m[x].prev \in DOMAIN m /\ m[m[x].prev].next = x
  <2>0. x \in DOMAIN s /\ x # n
    BY <1>4
  <2>1. m[x].next \in DOMAIN m /\ m[m[x].next].prev = x
    <3>1. CASE x = b
      BY <3>1, <1>3, <1>4
    <3>2. CASE x # b
      <4>1. m[x].next = s[x].next /\ s[x].next \in DOMAIN s
        BY <3>2, <1>4, <2>0 DEF Ring
      <4>2. s[x].next # n
        BY <3>2, <2>0, BehindLemma DEF n
      <4>3. s[x].next # nn
        BY <2>0, <1>2, BehindLemma DEF nn
      <4>4. s[s[x].next].prev = x
        BY <2>0 DEF Ring
      <4> QED BY <4>1, <4>2, <4>3, <4>4, <1>4
    <3> QED BY <3>1, <3>2
  <2>2. m[x].prev \in DOMAIN m /\ m[m[x].prev].next = x
    <3>1. CASE x = nn
      BY <3>1, <1>2, <1>4
    <3>2. CASE x # nn
      <4>1. /\ m[x].prev = s[x].prev /\ s[x].prev \in DOMAIN s
            /\ s[s[x].prev].next = x
        BY <3>2, <1>4, <2>0 DEF Ring
      <4>2. s[x].prev # n
        BY <4>1, <3>2 DEF nn
      <4>3. s[x].prev # b
        BY <4>1, <2>0 DEF n
      <4> QED BY <4>1, <4>2, <4>3, <1>4
    <3> QED BY <3>1, <3>2
  <2> QED BY <2>1, <2>2
<1>7. ASSUME NEW x \in DOMAIN m \ {Large!Tailer}
      PROVE  /\ x + Header + MinSize =< m[x].next
             /\ \A c \in DOMAIN m : x < c => m[x].next =< c
  <2>0. x \in DOMAIN s /\ x # n /\ x # Large!Tailer
    BY <1>4
  <2>1. CASE x = b
    <3>3. m[x].next = nn
      BY <2>1, <1>4
    <3>4. b + Header + MinSize =< nn
      BY <1>0, <1>2, <1>3
    <3>5. ASSUME NEW c \in DOMAIN m, b < c PROVE nn =< c
      <4>1. c \in DOMAIN s /\ c # n /\ c \in Nat
        BY <1>1, <1>4
      <4>2. n =< c
        BY <4>1, <1>2, <3>5
      <4>3. n < c
        BY <4>1, <4>2, <1>2
      <4> QED BY <4>1, <4>3, <1>3
    <3> QED BY <2>1, <3>3, <3>4, <3>5
  <2>2. CASE x # b
    <3>1. m[x].next = s[x].next
      BY <2>2, <1>4
    <3> QED BY <3>1, <2>0, <1>4 DEF Ring
  <2> QED BY <2>1, <2>2
<1>8. Ring(m)
  BY <1>4, <1>5, <1>6, <1>7 DEF Ring
<1>9. Large!Room(m, b) = Large!Room(s, b) + Header + Large!Room(s, n)
  <2>1. m[b].next = nn /\ s[b].next = n /\ s[n].next = nn
    BY <1>2, <1>4 DEF n, nn
  <2> QED BY <2>1, <1>0, <1>2, <1>3 DEF Large!Room
<1> QED BY <1>2, <1>3, <1>4, <1>8, <1>9 DEF m, n, nn, IsJoin

\* Behind n words of item b an item can begin, ...
CanCut(s, b, n) == n >= MinSize /\ b + Header + n + Header + MinSize =< s[b].next

\* ... here.
CutAt(b, n) == b + Header + n

\* Behind n words of item b of s, a free item of its own is cut off in m.
IsSplit(s, m, b, n) ==
    LET c == CutAt(b, n)
    IN  /\ Ring(m)
        /\ DOMAIN m = DOMAIN s \union {c} /\ c \notin DOMAIN s
        /\ ~m[c].used /\ m[c].next = s[b].next
        /\ \A x \in DOMAIN s : /\ m[x].used = s[x].used
                               /\ m[x].next = IF x = b THEN c ELSE s[x].next
        /\ Large!Room(m, b) = n /\ Large!Room(m, c) = Large!Room(s, b) - n - Header

LEMMA SplitItemLemma ==
    ASSUME Large!MemHeapAssumption, NEW s, Ring(s), NEW b \in DOMAIN s \ {Large!Tailer},
           NEW n \in Nat,
           CanCut(s, b, n)
    PROVE  IsSplit(s, Large!Split(s, b, n), b, n)
<1> DEFINE c == b + Header + n
           nn == s[b].next
           new == [used |-> FALSE, next |-> nn, prev |-> b]
           m == Large!Split(s, b, n)
<1>0. /\ Header \in Nat /\ MinSize \in Nat /\ Header > 0 /\ MinSize > 0 /\ Large!Tailer \in Nat
      /\ n >= MinSize
  BY PoolLemma DEF CanCut
<1>1. \A x \in DOMAIN s : x \in Nat /\ x =< Large!Tailer /\ s[x] \in Large!Items
  BY <1>0 DEF Ring
<1>2. /\ b \in Nat /\ nn \in DOMAIN s /\ nn \in Nat /\ b < nn /\ nn # b /\ nn =< Large!Tailer
      /\ s[nn].prev = b
      /\ \A x \in DOMAIN s : b < x => nn =< x
  <2>1. /\ b \in Nat /\ nn \in DOMAIN s /\ nn \in Nat /\ b < nn /\ s[nn].prev = b
        /\ \A x \in DOMAIN s : b < x => nn =< x
    BY ItemLemma
  <2> HIDE DEF nn
  <2> QED BY <2>1, <1>1
<1>3. /\ c \in Nat /\ b < c /\ c + Header + MinSize =< nn /\ c < nn /\ c \in 0..Large!Tailer
      /\ c # Large!Tailer /\ b + Header + MinSize =< c /\ c # nn /\ c # b /\ c # 0
  <2> HIDE DEF nn
  <2>1. b + Header + n + Header + MinSize =< nn
    BY DEF nn, CanCut
  <2> QED BY <2>1, <1>0, <1>2
<1>4. c \notin DOMAIN s
  <2> HIDE DEF c, nn
  <2> SUFFICES ASSUME c \in DOMAIN s PROVE FALSE
    OBVIOUS
  <2>1. nn =< c
    BY <1>2, <1>3
  <2> QED BY <2>1, <1>2, <1>3
<1>5. new \in Large!Items /\ new.used = FALSE /\ new.next = nn /\ new.prev = b
  BY <1>1, <1>2 DEF Large!Items
<1>6. /\ DOMAIN m = DOMAIN s \union {c} /\ m[c] = new
      /\ \A x \in DOMAIN s : /\ m[x] \in Large!Items
                             /\ m[x].used = s[x].used
                             /\ m[x].next = IF x = b THEN c ELSE s[x].next
                             /\ m[x].prev = IF x = nn THEN c ELSE s[x].prev
  <2>1. m = [x \in DOMAIN s \union {c} |->
               CASE x = c -> new
                 [] x = b -> [s[b] EXCEPT !.next = c]
                 [] x = nn -> [s[nn] EXCEPT !.prev = c]
                 [] OTHER -> s[x]]
    BY DEF Large!Split
  <2> HIDE DEF m, c, nn, new
  <2>2. DOMAIN m = DOMAIN s \union {c} /\ m[c] = new
    BY <2>1, <1>2, <1>3
  <2>3. ASSUME NEW x \in DOMAIN s
        PROVE  /\ m[x] \in Large!Items /\ m[x].used = s[x].used
               /\ m[x].next = IF x = b THEN c ELSE s[x].next
               /\ m[x].prev = IF x = nn THEN c ELSE s[x].prev
    <3>0. x # c /\ x \in DOMAIN s \union {c} /\ s[x] \in Large!Items
      BY <1>1, <1>4
    <3>1. CASE x = b
      <4>1. m[x] = [s[b] EXCEPT !.next = c]
        BY <2>1, <3>0, <3>1, <1>2
      <4> QED BY <4>1, <3>0, <3>1, <1>2, <1>3 DEF Large!Items
    <3>2. CASE x = nn
      <4>1. m[x] = [s[nn] EXCEPT !.prev = c]
        BY <2>1, <3>0, <3>2, <1>2
      <4> QED BY <4>1, <3>0, <3>2, <1>2, <1>3 DEF Large!Items
    <3>3. CASE x # b /\ x # nn
      <4>1. m[x] = s[x]
        BY <2>1, <3>0, <3>3
      <4> QED BY <4>1, <3>0, <3>3
    <3> QED BY <3>1, <3>2, <3>3
  <2> QED BY <2>2, <2>3
<1> HIDE DEF m, c, nn, new
<1>7. 0 \in DOMAIN m /\ Large!Tailer \in DOMAIN m /\ DOMAIN m \subseteq 0..Large!Tailer
      /\ m[Large!Tailer].used /\ m[Large!Tailer].next = 0
  BY <1>3, <1>6 DEF Ring
<1>8. ASSUME NEW x \in DOMAIN m
      PROVE  /\ m[x] \in Large!Items
             /\ m[x].next \in DOMAIN m /\ m[m[x].next].prev = x
             /\ m[x].prev \in DOMAIN m /\ m[m[x].prev].next = x
  <2>1. CASE x = c
    BY <2>1, <1>2, <1>3, <1>5, <1>6
  <2>2. CASE x # c
    <3>0. x \in DOMAIN s
      BY <2>2, <1>6
    <3>1. /\ s[x].next \in DOMAIN s /\ s[s[x].next].prev = x
          /\ s[x].prev \in DOMAIN s /\ s[s[x].prev].next = x
      BY <3>0 DEF Ring
    <3>2. m[x].next \in DOMAIN m /\ m[m[x].next].prev = x
      <4>1. CASE x = b
        <5>1. m[x].next = c
          BY <4>1, <3>0, <1>6
        <5> QED BY <5>1, <4>1, <1>5, <1>6
      <4>2. CASE x # b
        <5>1. m[x].next = s[x].next
          BY <4>2, <3>0, <1>6
        <5>2. s[x].next # nn
          BY <4>2, <3>0, BehindLemma DEF nn
        <5> QED BY <5>1, <5>2, <3>1, <1>6
      <4> QED BY <4>1, <4>2
    <3>3. m[x].prev \in DOMAIN m /\ m[m[x].prev].next = x
      <4>1. CASE x = nn
        <5>1. m[x].prev = c
          BY <4>1, <3>0, <1>6
        <5> QED BY <5>1, <4>1, <1>5, <1>6
      <4>2. CASE x # nn
        <5>1. m[x].prev = s[x].prev
          BY <4>2, <3>0, <1>6
        <5>2. s[x].prev # b
          BY <4>2, <3>1 DEF nn
        <5> QED BY <5>1, <5>2, <3>1, <1>6
      <4> QED BY <4>1, <4>2
    <3> QED BY <3>0, <3>2, <3>3, <1>6
  <2> QED BY <2>1, <2>2
<1>9. ASSUME NEW x \in DOMAIN m \ {Large!Tailer}
      PROVE  /\ x + Header + MinSize =< m[x].next
             /\ \A y \in DOMAIN m : x < y => m[x].next =< y
  <2>1. CASE x = c
    <3>1. m[x].next = nn
      BY <2>1, <1>5, <1>6
    <3>2. \A y \in DOMAIN m : c < y => nn =< y
      BY <1>1, <1>2, <1>3, <1>6
    <3> QED BY <2>1, <3>1, <3>2, <1>3
  <2>2. CASE x # c
    <3>0. x \in DOMAIN s \ {Large!Tailer} /\ x \in Nat
      BY <2>2, <1>1, <1>6
    <3>1. /\ x + Header + MinSize =< s[x].next
          /\ \A y \in DOMAIN s : x < y => s[x].next =< y
      BY <3>0 DEF Ring
    <3>2. CASE x = b
      <4>1. m[x].next = c
        BY <3>0, <3>2, <1>6
      <4>2. \A y \in DOMAIN m : b < y => c =< y
        BY <1>1, <1>2, <1>3, <1>6
      <4> QED BY <3>2, <4>1, <4>2, <1>3
    <3>3. CASE x # b
      <4>1. m[x].next = s[x].next
        BY <3>0, <3>3, <1>6
      <4>2. ASSUME x < c PROVE s[x].next =< c
        <5>1. x < b
          <6>1. b < x => nn =< x
            BY <3>0, <1>2
          <6> QED BY <6>1, <4>2, <3>0, <3>3, <1>2, <1>3
        <5>2. s[x].next =< b
          BY <5>1, <3>1
        <5>3. s[x].next \in Nat
          BY <3>0, <1>1, <1>0 DEF Large!Items
        <5> QED BY <5>2, <5>3, <1>2, <1>3
      <4> QED BY <3>1, <4>1, <4>2, <1>6
    <3> QED BY <3>2, <3>3
  <2> QED BY <2>1, <2>2
<1>10. Ring(m)
  BY <1>7, <1>8, <1>9 DEF Ring
<1>11. Large!Room(m, b) = n /\ Large!Room(m, c) = Large!Room(s, b) - n - Header
  <2>1. m[b].next = c /\ m[c].next = nn /\ s[b].next = nn
    BY <1>2, <1>5, <1>6 DEF nn
  <2>2. m[b].next = b + Header + n
    BY <2>1 DEF c
  <2>3. Large!Room(m, b) = n
    BY <2>2, <1>0, <1>2 DEF Large!Room
  <2>4. Large!Room(m, c) = nn - (b + Header + n) - Header
    BY <2>1 DEF Large!Room, c
  <2>5. Large!Room(s, b) = nn - b - Header
    BY <2>1 DEF Large!Room
  <2> QED BY <2>3, <2>4, <2>5, <1>0, <1>2
<1> QED BY <1>4, <1>5, <1>6, <1>10, <1>11 DEF c, m, nn, CutAt, IsSplit

LEMMA FlipLemma ==
    ASSUME Large!MemHeapAssumption, NEW s, Ring(s), NEW b \in DOMAIN s \ {Large!Tailer},
           NEW u \in BOOLEAN
    PROVE  LET m == Flip(s, b, u)
           IN  /\ Ring(m) /\ DOMAIN m = DOMAIN s /\ m[b].used = u
               /\ \A x \in DOMAIN s : m[x].next = s[x].next /\ m[x].prev = s[x].prev
                                      /\ (x # b => m[x].used = s[x].used)
               /\ \A x \in DOMAIN s : Large!Room(m, x) = Large!Room(s, x)
<1> DEFINE m == Flip(s, b, u)
<1>0. \A x \in DOMAIN s : s[x] \in Large!Items
  BY DEF Ring
<1>1. /\ DOMAIN m = DOMAIN s /\ m[b].used = u
      /\ \A x \in DOMAIN s : /\ m[x] \in Large!Items
                             /\ m[x].next = s[x].next /\ m[x].prev = s[x].prev
                             /\ x # b => m[x].used = s[x].used
  BY <1>0 DEF Flip, Large!Items
<1> HIDE DEF m
<1>2. 0 \in DOMAIN m /\ Large!Tailer \in DOMAIN m /\ DOMAIN m \subseteq 0..Large!Tailer
      /\ m[Large!Tailer].used /\ m[Large!Tailer].next = 0
  BY <1>1 DEF Ring
<1>3. ASSUME NEW x \in DOMAIN m
      PROVE  /\ m[x] \in Large!Items
             /\ m[x].next \in DOMAIN m /\ m[m[x].next].prev = x
             /\ m[x].prev \in DOMAIN m /\ m[m[x].prev].next = x
  <2>1. /\ s[x].next \in DOMAIN s /\ s[s[x].next].prev = x
        /\ s[x].prev \in DOMAIN s /\ s[s[x].prev].next = x
    BY <1>1 DEF Ring
  <2> QED BY <2>1, <1>1
<1>4. ASSUME NEW x \in DOMAIN m \ {Large!Tailer}
      PROVE  /\ x + Header + MinSize =< m[x].next
             /\ \A y \in DOMAIN m : x < y => m[x].next =< y
  BY <1>1 DEF Ring
<1>5. Ring(m)
  BY <1>2, <1>3, <1>4 DEF Ring
<1> QED BY <1>1, <1>5 DEF Large!Room, m

-----------------------------------------------------------------------------
(* What the free items have room for                                        *)

LEMMA FreeIs ==
    ASSUME Large!MemHeapAssumption, NEW s, Ring(s), NEW x \in FreeOf(s)
    PROVE  x \in DOMAIN s /\ x # Large!Tailer /\ x \in Nat /\ x =< Large!Tailer /\ ~s[x].used
<1>1. x \in DOMAIN s /\ ~s[x].used
  BY DEF FreeOf
<1>2. s[Large!Tailer].used
  BY DEF Ring
<1>3. x \in Nat /\ x =< Large!Tailer
  BY <1>1, ItemLemma
<1> QED BY <1>1, <1>2, <1>3

LEMMA FreeLemma ==
    ASSUME Large!MemHeapAssumption, NEW s, Ring(s), NEW F \in SUBSET DOMAIN s
    PROVE  /\ IsFiniteSet(F)
           /\ \A b \in F : Rooms(s)[b] = Large!Room(s, b) /\ Rooms(s)[b] \in Int
<1>1. IsFiniteSet(0..Large!Tailer)
  BY PoolLemma, FS_Interval
<1>2. F \subseteq 0..Large!Tailer
  BY DEF Ring
<1>3. IsFiniteSet(F)
  BY <1>1, <1>2, FS_Subset
<1>4. \A b \in F : Rooms(s)[b] = Large!Room(s, b) /\ Large!Room(s, b) \in Int
  BY ItemLemma DEF Rooms
<1> QED BY <1>3, <1>4

\* One more free item, and the others as they were
LEMMA TotalAdd ==
    ASSUME Large!MemHeapAssumption, NEW s, Ring(s), NEW m, Ring(m), NEW c \in FreeOf(m),
           FreeOf(m) \ {c} = FreeOf(s), \A x \in FreeOf(s) : Large!Room(m, x) = Large!Room(s, x)
    PROVE  Total(m) = Total(s) + Large!Room(m, c) /\ Total(s) \in Int /\ Total(m) \in Int
<1> DEFINE F == FreeOf(m)
           G == FreeOf(s)
           v == Rooms(m)
           w == Rooms(s)
<1>1. F \in SUBSET DOMAIN m /\ G \in SUBSET DOMAIN s
  BY DEF FreeOf
<1>2. IsFiniteSet(F) /\ \A x \in F : v[x] = Large!Room(m, x) /\ v[x] \in Int
  BY <1>1, FreeLemma
<1>3. IsFiniteSet(G) /\ \A x \in G : w[x] = Large!Room(s, x) /\ w[x] \in Int
  BY <1>1, FreeLemma
<1>4. c \in F /\ F \ {c} = G /\ \A x \in G : Large!Room(m, x) = Large!Room(s, x)
  OBVIOUS
<1>5. Total(m) = SumFunctionOnSet(v, F) /\ Total(s) = SumFunctionOnSet(w, G)
  BY DEF Total
<1> HIDE DEF F, G, v, w
<1>6. /\ SumFunctionOnSet(v, F) \in Int
      /\ \A x \in F : SumFunctionOnSet(v, F) = v[x] + SumFunctionOnSet(v, F \ {x})
  BY <1>2, SumLemma
<1>7. SumFunctionOnSet(w, G) \in Int
  BY <1>3, SumLemma
<1>8. Same(v, w, G)
  BY <1>2, <1>3, <1>4 DEF Same
<1>9. SumFunctionOnSet(v, G) = SumFunctionOnSet(w, G)
  BY <1>3, <1>8, SumSame
<1>10. Total(m) = v[c] + Total(s) /\ v[c] \in Int /\ v[c] = Large!Room(m, c)
  BY <1>2, <1>4, <1>5, <1>6, <1>9
<1> QED BY <1>5, <1>6, <1>7, <1>10

\* Two free items are one, and the others as they were.
LEMMA TotalJoin ==
    ASSUME Large!MemHeapAssumption, NEW s, Ring(s), NEW m, Ring(m),
           NEW b \in FreeOf(s), NEW n \in FreeOf(s), b # n,
           FreeOf(m) = FreeOf(s) \ {n},
           Large!Room(m, b) = Large!Room(s, b) + Header + Large!Room(s, n),
           \A x \in FreeOf(m) : x # b => Large!Room(m, x) = Large!Room(s, x)
    PROVE  Total(m) = Total(s) + Header /\ Total(s) \in Int /\ Total(m) \in Int
<1> DEFINE F == FreeOf(m)
           G == FreeOf(s)
           H == G \ {n, b}
           v == Rooms(m)
           w == Rooms(s)
<1>1. F \in SUBSET DOMAIN m /\ G \in SUBSET DOMAIN s
  BY DEF FreeOf
<1>2. IsFiniteSet(F) /\ \A x \in F : v[x] = Large!Room(m, x) /\ v[x] \in Int
  BY <1>1, FreeLemma
<1>3. IsFiniteSet(G) /\ \A x \in G : w[x] = Large!Room(s, x) /\ w[x] \in Int
  BY <1>1, FreeLemma
<1>4. /\ b \in G /\ n \in G /\ F = G \ {n} /\ b \in F /\ Header \in Nat
      /\ Large!Room(m, b) = Large!Room(s, b) + Header + Large!Room(s, n)
      /\ \A x \in F : x # b => Large!Room(m, x) = Large!Room(s, x)
  BY PoolLemma
<1>5. Total(m) = SumFunctionOnSet(v, F) /\ Total(s) = SumFunctionOnSet(w, G)
  BY DEF Total
<1> HIDE DEF F, G, H, v, w
<1>h. H = (G \ {n}) \ {b} /\ H = F \ {b} /\ IsFiniteSet(H) /\ H \subseteq G
  BY <1>3, <1>4, FS_Subset DEF H
<1>6. /\ SumFunctionOnSet(v, F) \in Int
      /\ \A x \in F : SumFunctionOnSet(v, F) = v[x] + SumFunctionOnSet(v, F \ {x})
  BY <1>2, SumLemma
<1>7. /\ SumFunctionOnSet(w, G) \in Int
      /\ \A x \in G : SumFunctionOnSet(w, G) = w[x] + SumFunctionOnSet(w, G \ {x})
  BY <1>3, SumLemma
<1>8. /\ SumFunctionOnSet(w, F) \in Int
      /\ \A x \in F : SumFunctionOnSet(w, F) = w[x] + SumFunctionOnSet(w, F \ {x})
  <2>1. \A x \in F : w[x] \in Int
    BY <1>3, <1>4
  <2> QED BY <2>1, <1>2, SumLemma
<1>9. Same(v, w, H)
  BY <1>2, <1>3, <1>4, <1>h DEF Same
<1>10. SumFunctionOnSet(v, H) = SumFunctionOnSet(w, H)
  BY <1>h, <1>9, SumSame
<1>11. SumFunctionOnSet(w, H) \in Int
  <2>1. \A x \in H : w[x] \in Int
    BY <1>3, <1>h
  <2> QED BY <2>1, <1>h, SumLemma
<1>12. Total(m) = v[b] + SumFunctionOnSet(w, H)
  BY <1>4, <1>5, <1>6, <1>10, <1>h
<1>13. Total(s) = w[n] + (w[b] + SumFunctionOnSet(w, H))
  <2>1. Total(s) = w[n] + SumFunctionOnSet(w, F)
    BY <1>4, <1>5, <1>7
  <2>2. SumFunctionOnSet(w, F) = w[b] + SumFunctionOnSet(w, H)
    BY <1>4, <1>8, <1>h
  <2> QED BY <2>1, <2>2
<1>14. v[b] = w[b] + Header + w[n] /\ w[b] \in Int /\ w[n] \in Int
  BY <1>2, <1>3, <1>4
<1>15. Total(m) = Total(s) + Header
  BY <1>4, <1>11, <1>12, <1>13, <1>14
<1> QED BY <1>5, <1>6, <1>7, <1>15

\* The free items are in the pool.
LEMMA TotalBound ==
    ASSUME Large!MemHeapAssumption, NEW s, Ring(s)
    PROVE  Total(s) \in 0..PoolSize
<1> DEFINE w == Rooms(s)
           Below(c) == {x \in FreeOf(s) : x < c}
           Sum(c) == SumFunctionOnSet(w, Below(c))
           Bad == {c \in DOMAIN s : ~(Sum(c) \in Int /\ 0 =< Sum(c) /\ Sum(c) =< c)}
<1>0. /\ Header \in Nat /\ Header > 0 /\ Large!Tailer \in Nat /\ Large!Tailer = PoolSize - Header
      /\ PoolSize \in Nat
  BY PoolLemma
<1>1. \A c : /\ IsFiniteSet(Below(c))
             /\ \A x \in Below(c) : w[x] = Large!Room(s, x) /\ w[x] \in Int
  <2> TAKE c
  <2>1. Below(c) \in SUBSET DOMAIN s
    BY DEF FreeOf
  <2> HIDE DEF Below
  <2> QED BY <2>1, FreeLemma
<1>2. \A c : /\ Sum(c) \in Int
             /\ Below(c) = {} => Sum(c) = 0
             /\ \A x \in Below(c) : Sum(c) = w[x] + SumFunctionOnSet(w, Below(c) \ {x})
  <2> TAKE c
  <2> HIDE DEF Below, w
  <2> QED BY <1>1, SumLemma
<1> HIDE DEF Below, Sum, w
<1>3. Bad = {}
  <2> SUFFICES ASSUME Bad # {} PROVE FALSE
    OBVIOUS
  <2> DEFINE c == Min(Bad)
  <2>1. c \in Bad /\ \A y \in Bad : c =< y
    <3>1. Bad \in SUBSET Nat
      BY <1>0 DEF Ring
    <3> HIDE DEF Bad
    <3> QED BY <3>1, FirstLemma
  <2> HIDE DEF c
  <2>2. c \in DOMAIN s /\ ~(0 =< Sum(c) /\ Sum(c) =< c) /\ c \in Nat
    BY <2>1, <1>0, <1>2 DEF Ring
  <2>3. \A x \in DOMAIN s : x < c => 0 =< Sum(x) /\ Sum(x) =< x
    <3> SUFFICES ASSUME NEW x \in DOMAIN s, x < c, x \in Bad PROVE FALSE
      OBVIOUS
    <3>1. c =< x /\ x \in Nat
      BY <2>1, <1>0 DEF Ring
    <3> HIDE DEF Bad
    <3> QED BY <3>1, <2>2
  <2> HIDE DEF Bad
  <2>4. \A x \in FreeOf(s) : x \in DOMAIN s /\ x \in Nat /\ x # Large!Tailer
    BY FreeIs
  <2>5. CASE c = 0
    <3>1. Below(c) = {}
      BY <2>4, <2>5 DEF Below
    <3>2. Sum(c) = 0
      BY <3>1, <1>2
    <3> QED BY <2>2, <2>5, <3>2
  <2>6. CASE c # 0
    <3> DEFINE p == s[c].prev
    <3>1. p \in DOMAIN s /\ p < c /\ p # Large!Tailer /\ s[p].next = c /\ p \in Nat
      BY <2>2, <2>6, ItemLemma
    <3> HIDE DEF p
    <3>2. /\ \A x \in DOMAIN s : p < x => c =< x
          /\ Large!Room(s, p) = c - p - Header /\ Large!Room(s, p) \in Nat
      BY <3>1, ItemLemma
    <3>3. 0 =< Sum(p) /\ Sum(p) =< p /\ Sum(p) \in Int
      BY <2>3, <3>1, <1>2
    <3>4. CASE p \in FreeOf(s)
      <4>1. p \in Below(c) /\ Below(c) \ {p} = Below(p)
        BY <2>2, <2>4, <3>1, <3>2, <3>4 DEF Below
      <4>2. w[p] = Large!Room(s, p)
        BY <4>1, <1>1
      <4>3. Sum(c) = w[p] + SumFunctionOnSet(w, Below(c) \ {p})
        BY <4>1, <1>2
      <4>4. Sum(c) = w[p] + Sum(p)
        BY <4>1, <4>3 DEF Sum
      <4> QED BY <4>2, <4>4, <3>1, <3>2, <3>3, <2>2, <1>0
    <3>5. CASE p \notin FreeOf(s)
      <4>1. Below(c) = Below(p)
        BY <2>2, <2>4, <3>1, <3>2, <3>5 DEF Below
      <4>2. Sum(c) = Sum(p)
        BY <4>1 DEF Sum
      <4> QED BY <4>2, <3>1, <3>3, <2>2
    <3> QED BY <3>4, <3>5
  <2> QED BY <2>5, <2>6
<1>4. Below(Large!Tailer) = FreeOf(s)
  <2> SUFFICES ASSUME NEW x \in FreeOf(s) PROVE x < Large!Tailer
    BY DEF Below
  <2>1. x # Large!Tailer /\ x \in Nat /\ x =< Large!Tailer
    BY FreeIs
  <2> QED BY <2>1, <1>0
<1>5. Total(s) = Sum(Large!Tailer)
  BY <1>4 DEF Total, Sum, w
<1>6. Large!Tailer \in DOMAIN s
  BY DEF Ring
<1>7. Sum(Large!Tailer) \in Int /\ 0 =< Sum(Large!Tailer) /\ Sum(Large!Tailer) =< Large!Tailer
  BY <1>3, <1>6
<1> QED BY <1>0, <1>5, <1>7

\* What joining, cutting and flipping do to the sum
LEMMA JoinTotal ==
    ASSUME Large!MemHeapAssumption, NEW s, Ring(s), NEW b \in DOMAIN s \ {Large!Tailer},
           s[b].next \in FreeOf(s)
    PROVE  LET m == JoinedItem(s, b)
               n == s[b].next
           IN  /\ FreeOf(m) = FreeOf(s) \ {n}
               /\ ~s[b].used => Total(m) = Total(s) + Header
               /\ s[b].used => Total(m) = Total(s) - Large!Room(s, n)
<1> DEFINE m == JoinedItem(s, b)
           n == s[b].next
<1>1. n # Large!Tailer /\ ~s[n].used /\ n \in DOMAIN s
  BY FreeIs
<1>2. /\ Ring(m) /\ DOMAIN m = DOMAIN s \ {n} /\ n # b
      /\ \A c \in DOMAIN m : /\ m[c].used = s[c].used
                             /\ m[c].next = IF c = b THEN s[n].next ELSE s[c].next
      /\ Large!Room(m, b) = Large!Room(s, b) + Header + Large!Room(s, n)
  <2>1. IsJoin(s, JoinedItem(s, b), b)
    BY <1>1, JoinItemLemma
  <2> QED BY <2>1 DEF IsJoin
<1> HIDE DEF m
<1>3. n \in FreeOf(s) /\ b \in DOMAIN m
  BY <1>2
<1> HIDE DEF n
<1>4. FreeOf(m) = FreeOf(s) \ {n}
  BY <1>2 DEF FreeOf
<1>5. \A x \in FreeOf(m) : x # b => Large!Room(m, x) = Large!Room(s, x)
  BY <1>2 DEF FreeOf, Large!Room
<1>6. ASSUME ~s[b].used PROVE Total(m) = Total(s) + Header
  <2>1. b \in FreeOf(s)
    BY <1>6 DEF FreeOf
  <2> QED BY <1>2, <1>3, <1>4, <1>5, <2>1, TotalJoin
<1>7. ASSUME s[b].used PROVE Total(m) = Total(s) - Large!Room(s, n)
  <2>1. \A x \in FreeOf(m) : Large!Room(s, x) = Large!Room(m, x)
    BY <1>4, <1>5, <1>7 DEF FreeOf
  <2>2. Total(s) = Total(m) + Large!Room(s, n) /\ Total(m) \in Int
    BY <1>2, <1>3, <1>4, <2>1, TotalAdd
  <2>3. Large!Room(s, n) \in Int
    BY <1>1, ItemLemma
  <2> QED BY <2>2, <2>3
<1> QED BY <1>4, <1>6, <1>7 DEF m, n

LEMMA SplitTotal ==
    ASSUME Large!MemHeapAssumption, NEW s, Ring(s), NEW b \in DOMAIN s \ {Large!Tailer},
           NEW n \in Nat,
           CanCut(s, b, n), s[b].used
    PROVE  LET c == CutAt(b, n)
               m == Large!Split(s, b, n)
           IN  /\ FreeOf(m) = FreeOf(s) \union {c} /\ c \notin FreeOf(s)
               /\ Total(m) = Total(s) + Large!Room(s, b) - n - Header
<1> DEFINE c == CutAt(b, n)
           m == Large!Split(s, b, n)
<1>1. /\ Ring(m)
      /\ DOMAIN m = DOMAIN s \union {c} /\ c \notin DOMAIN s
      /\ ~m[c].used /\ m[c].next = s[b].next
      /\ \A x \in DOMAIN s : /\ m[x].used = s[x].used
                             /\ m[x].next = IF x = b THEN c ELSE s[x].next
      /\ Large!Room(m, b) = n /\ Large!Room(m, c) = Large!Room(s, b) - n - Header
  BY SplitItemLemma DEF IsSplit
<1> HIDE DEF c, m
<1>2. FreeOf(m) = FreeOf(s) \union {c} /\ c \notin FreeOf(s)
  BY <1>1 DEF FreeOf
<1>3. \A x \in FreeOf(s) : Large!Room(m, x) = Large!Room(s, x)
  BY <1>1 DEF FreeOf, Large!Room
<1>4. c \in FreeOf(m) /\ FreeOf(m) \ {c} = FreeOf(s)
  BY <1>2
<1>5. Total(m) = Total(s) + Large!Room(m, c) /\ Total(s) \in Int
  BY <1>1, <1>3, <1>4, TotalAdd
<1>6. Large!Room(s, b) \in Int /\ Header \in Nat
  BY ItemLemma, PoolLemma
<1>7. Total(m) = Total(s) + Large!Room(s, b) - n - Header
  BY <1>1, <1>5, <1>6
<1> QED BY <1>2, <1>7 DEF c, m

LEMMA FlipTotal ==
    ASSUME Large!MemHeapAssumption, NEW s, Ring(s), NEW b \in DOMAIN s \ {Large!Tailer},
           NEW u \in BOOLEAN,
           s[b].used = ~u
    PROVE  LET m == Flip(s, b, u)
           IN  /\ FreeOf(m) = IF u THEN FreeOf(s) \ {b} ELSE FreeOf(s) \union {b}
               /\ u => b \in FreeOf(s) /\ Total(m) = Total(s) - Large!Room(s, b)
               /\ ~u => b \notin FreeOf(s) /\ Total(m) = Total(s) + Large!Room(s, b)
<1> DEFINE m == Flip(s, b, u)
<1>1. /\ Ring(m) /\ DOMAIN m = DOMAIN s /\ m[b].used = u
      /\ \A x \in DOMAIN s : m[x].next = s[x].next /\ (x # b => m[x].used = s[x].used)
      /\ \A x \in DOMAIN s : Large!Room(m, x) = Large!Room(s, x)
  BY FlipLemma
<1> HIDE DEF m
<1>2. \A x \in DOMAIN s : Large!Room(m, x) = Large!Room(s, x) /\ Large!Room(s, x) \in Int
  BY <1>1, ItemLemma
<1>3. CASE u
  <2>1. FreeOf(m) = FreeOf(s) \ {b} /\ b \in FreeOf(s)
    BY <1>1, <1>3 DEF FreeOf
  <2>2. \A x \in FreeOf(m) : Large!Room(s, x) = Large!Room(m, x)
    BY <1>1 DEF FreeOf
  <2>3. Total(s) = Total(m) + Large!Room(s, b) /\ Total(m) \in Int
    BY <1>1, <2>1, <2>2, TotalAdd
  <2>4. Total(m) = Total(s) - Large!Room(s, b)
    BY <1>2, <2>3
  <2> QED BY <1>3, <2>1, <2>4 DEF m
<1>4. CASE ~u
  <2>1. FreeOf(m) = FreeOf(s) \union {b} /\ b \notin FreeOf(s) /\ b \in FreeOf(m)
    BY <1>1, <1>4 DEF FreeOf
  <2>2. \A x \in FreeOf(s) : Large!Room(m, x) = Large!Room(s, x)
    BY <1>1 DEF FreeOf
  <2>3. FreeOf(m) \ {b} = FreeOf(s)
    BY <2>1
  <2>4. Total(m) = Total(s) + Large!Room(m, b)
    BY <1>1, <2>1, <2>2, <2>3, TotalAdd
  <2>5. Total(m) = Total(s) + Large!Room(s, b)
    BY <1>2, <2>4
  <2> QED BY <1>4, <2>1, <2>5 DEF m
<1> QED BY <1>3, <1>4

-----------------------------------------------------------------------------
(* The operators                                                            *)

UsedItems(s) == {b \in DOMAIN s : s[b].used} \ {Large!Tailer}

\* A heap h, whose free list has the items L.
IsHeap(h) == h = [item |-> h.item, freeList |-> h.freeList, available |-> h.available]
Listed(h, L) ==
    IsHeap(h) /\ Ring(h.item) /\ Enumerates(h.freeList, L) /\ h.available = Total(h.item)

Whole(h) == Listed(h, FreeOf(h.item)) /\ Apart(h.item)

\* No two neighbours are free, except perhaps b and the one behind it.
ApartAfter(s, b) == \A x \in DOMAIN s : ~s[x].used /\ x # b => s[s[x].next].used

\* Used items are the same in m, and end where they did.
SameUsed(s, m) ==
    /\ UsedItems(m) = UsedItems(s)
    /\ \A x \in UsedItems(s) : m[x].next = s[x].next

\* Two free items are joined.
JoinsFree(h, L, b, r, n) ==
    /\ Listed(r, L \ {n}) /\ FreeOf(r.item) = FreeOf(h.item) \ {n}
    /\ n # b /\ SameUsed(h.item, r.item)
    /\ DOMAIN r.item = DOMAIN h.item \ {n} /\ h.item[n].next \in DOMAIN r.item
    /\ \A c \in DOMAIN r.item :
          /\ r.item[c].used = h.item[c].used
          /\ r.item[c].next = IF c = b THEN h.item[n].next ELSE h.item[c].next
    /\ Large!Room(r.item, b) = Large!Room(h.item, b) + Header + Large!Room(h.item, n)

LEMMA JoinedFree ==
    ASSUME Large!MemHeapAssumption, NEW h, NEW L, Listed(h, L), NEW b \in FreeOf(h.item),
           h.item[b].next \in FreeOf(h.item)
    PROVE  JoinsFree(h, L, b, Large!Joined(h, b), h.item[b].next)
<1> DEFINE s == h.item
           n == s[b].next
           m == JoinedItem(s, b)
           r == Large!Joined(h, b)
<1>1. Ring(s) /\ Enumerates(h.freeList, L) /\ h.available = Total(s)
  BY DEF Listed
<1>2. b \in DOMAIN s \ {Large!Tailer} /\ ~s[b].used /\ n # Large!Tailer /\ n \in FreeOf(s)
  BY <1>1, FreeIs
<1>3. r.item = m /\ r.freeList = RemoveFirst(h.freeList, n) /\ r.available = h.available + Header
  BY LargeWords DEF Large!Joined, JoinedItem
<1>4. /\ Ring(m)
      /\ DOMAIN m = DOMAIN s \ {n} /\ n # b /\ n # 0 /\ n \in DOMAIN s
      /\ s[n].next \in DOMAIN m
      /\ \A c \in DOMAIN m : /\ m[c].used = s[c].used
                             /\ m[c].next = IF c = b THEN s[n].next ELSE s[c].next
      /\ Large!Room(m, b) = Large!Room(s, b) + Header + Large!Room(s, n)
  <2>1. IsJoin(s, JoinedItem(s, b), b)
    BY <1>1, <1>2, JoinItemLemma
  <2> QED BY <2>1 DEF IsJoin
<1>5. FreeOf(m) = FreeOf(s) \ {n} /\ Total(m) = Total(s) + Header
  BY <1>1, <1>2, JoinTotal
<1> HIDE DEF r, m, n, s
<1>6. Enumerates(r.freeList, L \ {n})
  BY <1>1, <1>3, RemoveFirstLemma
<1>7. Listed(r, L \ {n})
  <2>1. IsHeap(r)
    BY DEF IsHeap, r, Large!Joined
  <2> QED BY <2>1, <1>1, <1>3, <1>4, <1>5, <1>6 DEF Listed
<1>8. SameUsed(s, m)
  <2>1. ~s[n].used
    BY <1>2 DEF FreeOf
  <2> QED BY <2>1, <1>2, <1>4 DEF SameUsed, UsedItems
<1> QED BY <1>3, <1>4, <1>5, <1>7, <1>8 DEF r, n, s, JoinsFree

\* rt_memheap_free leaves no two free neighbours, and its item is free.
LEMMA FreedItemLemma ==
    ASSUME Large!MemHeapAssumption, NEW h, Whole(h), NEW b \in UsedItems(h.item)
    PROVE  LET r == Large!Freed(h, b)
           IN  /\ Whole(r)
               /\ UsedItems(r.item) = UsedItems(h.item) \ {b}
               /\ \A x \in UsedItems(r.item) : r.item[x].next = h.item[x].next
<1> DEFINE s == h.item
           left == s[b].prev
           alone == s[left].used
           open == [h EXCEPT !.item[b].used = FALSE, !.available = @ + Large!Room(s, b)]
           o == Flip(s, b, FALSE)
           one == IF alone THEN open ELSE Large!Joined(open, left)
           c == IF alone THEN b ELSE left
           two == IF one.item[one.item[c].next].used THEN one ELSE Large!Joined(one, c)
           r == Large!Freed(h, b)
<1>1. /\ Ring(s) /\ Enumerates(h.freeList, FreeOf(s)) /\ h.available = Total(s) /\ Apart(s)
      /\ b \in DOMAIN s \ {Large!Tailer} /\ s[b].used
  BY DEF Whole, Listed, UsedItems
<1>2. /\ Ring(o) /\ DOMAIN o = DOMAIN s /\ ~o[b].used
      /\ \A x \in DOMAIN s : o[x].next = s[x].next /\ (x # b => o[x].used = s[x].used)
      /\ FreeOf(o) = FreeOf(s) \union {b} /\ b \notin FreeOf(s)
      /\ Total(o) = Total(s) + Large!Room(s, b)
  <2>1. FALSE \in BOOLEAN /\ s[b].used = ~FALSE
    BY <1>1
  <2>2. /\ Ring(o) /\ DOMAIN o = DOMAIN s /\ o[b].used = FALSE
        /\ \A x \in DOMAIN s : o[x].next = s[x].next /\ o[x].prev = s[x].prev
                               /\ (x # b => o[x].used = s[x].used)
    BY <1>1, <2>1, FlipLemma
  <2>3. /\ FreeOf(o) = IF FALSE THEN FreeOf(s) \ {b} ELSE FreeOf(s) \union {b}
        /\ FALSE => b \in FreeOf(s) /\ Total(o) = Total(s) - Large!Room(s, b)
        /\ ~FALSE => b \notin FreeOf(s) /\ Total(o) = Total(s) + Large!Room(s, b)
    BY <1>1, <2>1, FlipTotal
  <2> QED BY <2>2, <2>3
<1>3. /\ open.item = o /\ open.freeList = h.freeList
      /\ open.available = h.available + Large!Room(s, b) /\ IsHeap(open)
  <2>1. h = [item |-> s, freeList |-> h.freeList, available |-> h.available]
    BY DEF Whole, Listed, IsHeap
  <2>2. open = [item |-> o, freeList |-> h.freeList, available |-> h.available + Large!Room(s, b)]
    <3>1. PICK i, f, a : h = [item |-> i, freeList |-> f, available |-> a]
      BY <2>1
    <3> DEFINE v == h.available + Large!Room(s, b)
    <3>2. open = [h EXCEPT !.item = o, !.available = v]
      BY DEF Flip
    <3>3. h.freeList = f
      BY <3>1
    <3> HIDE DEF open, o, v
    <3>4. open = [item |-> o, freeList |-> f, available |-> v]
      BY <3>1, <3>2
    <3> QED BY <3>3, <3>4 DEF v
  <2> QED BY <2>2 DEF IsHeap
<1>4. r = IF alone THEN [two EXCEPT !.freeList = <<b>> \o @] ELSE two
  BY DEF Large!Freed
<1>5. left \in DOMAIN s /\ s[left].next = b /\ (b # 0 => left # b) /\ (b = 0 => left = Large!Tailer)
      /\ left # b
  <2>1. left \in DOMAIN s /\ s[left].next = b /\ (b # 0 => left < b)
    BY <1>1, ItemLemma
  <2>2. b = 0 => left = Large!Tailer
    BY <1>1, <2>1 DEF Ring
  <2>3. b \in Nat
    BY <1>1, ItemLemma
  <2> HIDE DEF left
  <2>4. b # 0 => left # b
    BY <2>1, <2>3
  <2> QED BY <2>1, <2>2, <2>4, <1>1
<1>6. Listed(open, FreeOf(s))
  BY <1>1, <1>2, <1>3 DEF Listed
<1> HIDE DEF r, two, c, one, o, open, alone, left, s
<1>7. \A x \in DOMAIN o : ~o[x].used /\ x # b /\ o[x].next # b =>
         o[x].next \in DOMAIN o /\ o[o[x].next].used
  <2> SUFFICES ASSUME NEW x \in DOMAIN o, ~o[x].used, x # b, o[x].next # b
               PROVE  o[x].next \in DOMAIN o /\ o[o[x].next].used
    OBVIOUS
  <2>1. x \in DOMAIN s /\ ~s[x].used /\ o[x].next = s[x].next
    BY <1>2
  <2>2. s[x].next \in DOMAIN s /\ s[s[x].next].used
    BY <1>1, <2>1, ItemLemma DEF Apart
  <2> QED BY <2>1, <2>2, <1>2
<1>8. UsedItems(o) = UsedItems(s) \ {b}
  BY <1>1, <1>2 DEF UsedItems
<1>9. /\ Listed(one, IF alone THEN FreeOf(one.item) \ {b} ELSE FreeOf(one.item))
      /\ c \in FreeOf(one.item) /\ ApartAfter(one.item, c)
      /\ SameUsed(o, one.item) /\ (alone => c = b)
  <2>1. CASE alone
    <3>1. one = open /\ c = b
      BY <2>1 DEF one, c
    <3>2. b \in FreeOf(o) /\ FreeOf(s) = FreeOf(o) \ {b}
      BY <1>2
    <3>3. ApartAfter(o, b)
      <4> SUFFICES ASSUME NEW x \in DOMAIN o, ~o[x].used, x # b PROVE o[o[x].next].used
        BY DEF ApartAfter
      <4>1. o[x].next # b
        <5> SUFFICES ASSUME s[x].next = b PROVE FALSE
          BY <1>2
        <5>1. x \in DOMAIN s /\ s[x].next = s[left].next
          BY <1>2, <1>5
        <5>2. x = left
          BY <5>1, <1>1, <1>5, BehindLemma
        <5> QED BY <5>2, <2>1, <1>2, <1>5 DEF alone
      <4> QED BY <4>1, <1>7
    <3>4. SameUsed(o, o)
      BY DEF SameUsed
    <3> QED BY <2>1, <3>1, <3>2, <3>3, <3>4, <1>3, <1>6
  <2>2. CASE ~alone
    <3>1. one = Large!Joined(open, left) /\ c = left
      BY <2>2 DEF one, c
    <3>2. left \in FreeOf(o) /\ o[left].next = b /\ b \in FreeOf(o)
      BY <2>2, <1>2, <1>5 DEF alone, FreeOf
    <3>3. /\ Listed(one, FreeOf(s) \ {b}) /\ FreeOf(one.item) = FreeOf(o) \ {b}
          /\ SameUsed(o, one.item)
          /\ DOMAIN one.item = DOMAIN o \ {b}
          /\ \A x \in DOMAIN one.item :
                /\ one.item[x].used = o[x].used
                /\ one.item[x].next = IF x = left THEN o[b].next ELSE o[x].next
      <4>1. /\ Listed(open, FreeOf(s)) /\ left \in FreeOf(open.item)
            /\ open.item[left].next \in FreeOf(open.item) /\ open.item[left].next = b
        BY <3>2, <1>3, <1>6
      <4>2. JoinsFree(open, FreeOf(s), left, one, b)
        BY <4>1, <3>1, JoinedFree
      <4> QED BY <4>2, <1>3 DEF JoinsFree
    <3>4. FreeOf(s) \ {b} = FreeOf(one.item) /\ left \in FreeOf(one.item)
      BY <3>2, <3>3, <1>2, <1>5
    <3>5. ApartAfter(one.item, left)
      <4> SUFFICES ASSUME NEW x \in DOMAIN one.item, ~one.item[x].used, x # left
                   PROVE  one.item[one.item[x].next].used
        BY DEF ApartAfter
      <4>1. x \in DOMAIN o /\ x # b /\ ~o[x].used /\ one.item[x].next = o[x].next
        BY <3>3
      <4>2. o[x].next # b
        <5>1. x \in DOMAIN o /\ left \in DOMAIN o
          BY <4>1, <1>2, <1>5
        <5> QED BY <5>1, <3>2, <1>2, BehindLemma
      <4>3. o[x].next \in DOMAIN o /\ o[o[x].next].used
        BY <4>1, <4>2, <1>7
      <4> QED BY <4>1, <4>2, <4>3, <3>3
    <3> QED BY <2>2, <3>1, <3>3, <3>4, <3>5
  <2> QED BY <2>1, <2>2
<1>10. /\ Listed(two, IF alone THEN FreeOf(two.item) \ {b} ELSE FreeOf(two.item))
       /\ c \in FreeOf(two.item) /\ Apart(two.item)
       /\ SameUsed(one.item, two.item)
  <2> DEFINE q == one.item
             n == q[c].next
             L == IF alone THEN FreeOf(q) \ {b} ELSE FreeOf(q)
  <2>0. /\ Ring(q) /\ c \in DOMAIN q /\ c # Large!Tailer /\ ~q[c].used
        /\ n \in DOMAIN q /\ n # c /\ c \in FreeOf(q)
    <3>1. Ring(q) /\ c \in FreeOf(q)
      BY <1>9 DEF Listed
    <3>2. c \in DOMAIN q /\ c # Large!Tailer /\ ~q[c].used /\ c \in Nat
      BY <3>1, FreeIs
    <3>3. n \in DOMAIN q /\ c < n /\ n \in Nat
      BY <3>1, <3>2, ItemLemma
    <3> HIDE DEF n
    <3>4. n # c
      BY <3>2, <3>3
    <3> QED BY <3>1, <3>2, <3>3, <3>4
  <2>1. CASE q[n].used
    <3>1. two = one
      BY <2>1 DEF two
    <3>2. Apart(q)
      BY <2>1, <1>9 DEF ApartAfter, Apart
    <3>3. SameUsed(q, q)
      BY DEF SameUsed
    <3> QED BY <3>1, <3>2, <3>3, <1>9
  <2>2. CASE ~q[n].used
    <3>1. two = Large!Joined(one, c)
      BY <2>2 DEF two
    <3>2. n \in FreeOf(q) /\ Listed(one, L) /\ c \in FreeOf(one.item)
          /\ one.item[c].next \in FreeOf(one.item)
      BY <2>0, <2>2, <1>9 DEF FreeOf
    <3>3. JoinsFree(one, L, c, Large!Joined(one, c), one.item[c].next)
      <4> HIDE DEF L, n, q
      <4> QED BY <3>2, JoinedFree
    <3> DEFINE w == two.item
    <3>4. /\ Listed(two, L \ {n}) /\ FreeOf(w) = FreeOf(q) \ {n} /\ SameUsed(q, w)
          /\ DOMAIN w = DOMAIN q \ {n} /\ q[n].next \in DOMAIN w
          /\ \A x \in DOMAIN w : /\ w[x].used = q[x].used
                                 /\ w[x].next = IF x = c THEN q[n].next ELSE q[x].next
      BY <3>1, <3>3 DEF JoinsFree
    <3> HIDE DEF w
    <3>5. L \ {n} = IF alone THEN FreeOf(w) \ {b} ELSE FreeOf(w)
      BY <3>4
    <3>6. c \in FreeOf(w)
      BY <3>4, <2>0, <1>9
    <3>7. Apart(w)
      <4> SUFFICES ASSUME NEW x \in DOMAIN w, ~w[x].used PROVE w[w[x].next].used
        BY DEF Apart
      <4>0. x \in DOMAIN q /\ x # n /\ ~q[x].used
        BY <3>4
      <4>1. CASE x = c
        <5>1. q[q[n].next].used
          BY <2>0, <2>2, <1>9 DEF ApartAfter
        <5> QED BY <4>1, <5>1, <3>4
      <4>2. CASE x # c
        <5>1. q[q[x].next].used /\ q[x].next \in DOMAIN q
          BY <4>0, <4>2, <2>0, <1>9, ItemLemma DEF ApartAfter
        <5>2. q[x].next # n
          BY <4>0, <4>2, <2>0, BehindLemma
        <5> QED BY <4>2, <5>1, <5>2, <3>4
      <4> QED BY <4>1, <4>2
    <3> QED BY <3>4, <3>5, <3>6, <3>7 DEF w
  <2> QED BY <2>1, <2>2
<1>11. /\ UsedItems(two.item) = UsedItems(s) \ {b}
       /\ \A x \in UsedItems(two.item) : two.item[x].next = s[x].next
  <2>1. SameUsed(o, one.item) /\ SameUsed(one.item, two.item)
    BY <1>9, <1>10
  <2>2. \A x \in UsedItems(o) : o[x].next = s[x].next
    BY <1>2 DEF UsedItems
  <2> QED BY <2>1, <2>2, <1>8 DEF SameUsed
<1>12. CASE alone
  <2>1. /\ r.item = two.item /\ r.freeList = <<b>> \o two.freeList
        /\ r.available = two.available /\ IsHeap(r)
    <3>1. r = [two EXCEPT !.freeList = <<b>> \o @]
      BY <1>4, <1>12
    <3>2. two = [item |-> two.item, freeList |-> two.freeList, available |-> two.available]
      BY <1>10 DEF Listed, IsHeap
    <3>3. PICK i, f, a : two = [item |-> i, freeList |-> f, available |-> a]
      BY <3>2
    <3>4. r = [item |-> i, freeList |-> <<b>> \o f, available |-> a]
      BY <3>1, <3>3
    <3> QED BY <3>3, <3>4 DEF IsHeap
  <2>2. Enumerates(two.freeList, FreeOf(two.item) \ {b}) /\ b \in FreeOf(two.item)
    BY <1>9, <1>10, <1>12 DEF Listed
  <2>3. b \notin FreeOf(two.item) \ {b}
    OBVIOUS
  <2>4. Enumerates(r.freeList, (FreeOf(two.item) \ {b}) \union {b})
    BY <2>1, <2>2, <2>3, PrependLemma
  <2>5. (FreeOf(two.item) \ {b}) \union {b} = FreeOf(two.item)
    BY <2>2
  <2>6. Whole(r)
    BY <2>1, <2>4, <2>5, <1>10 DEF Whole, Listed
  <2> QED BY <2>1, <2>6, <1>11 DEF r, s
<1>13. CASE ~alone
  <2>1. r = two
    BY <1>4, <1>13
  <2>2. Whole(r)
    BY <2>1, <1>10, <1>13 DEF Whole
  <2> QED BY <2>1, <2>2, <1>11 DEF r, s
<1> QED BY <1>12, <1>13

\* A free item is taken, with a rest that stays free or as a whole.
LEMMA AllocatedItemLemma ==
    ASSUME Large!MemHeapAssumption, NEW h, Whole(h), NEW b \in FreeOf(h.item), NEW n \in Nat,
           n >= MinSize, Large!Room(h.item, b) >= n
    PROVE  LET r == Large!Allocated(h, b, n)
           IN  /\ Whole(r)
               /\ UsedItems(r.item) = UsedItems(h.item) \union {b}
               /\ \A x \in UsedItems(h.item) : x # b /\ r.item[x].next = h.item[x].next
               /\ Large!Room(r.item, b) >= n
<1> DEFINE s == h.item
           c == CutAt(b, n)
           o == Flip(s, b, TRUE)
           m == Large!Split(o, b, n)
           rest == RemoveFirst(h.freeList, b)
           r == Large!Allocated(h, b, n)
<1>0. Header \in Nat /\ MinSize \in Nat /\ Header > 0 /\ MinSize > 0
  BY PoolLemma
<1>1. /\ Ring(s) /\ Enumerates(h.freeList, FreeOf(s)) /\ h.available = Total(s) /\ Apart(s)
      /\ b \in DOMAIN s \ {Large!Tailer} /\ ~s[b].used /\ b \in Nat /\ b # Large!Tailer
  <2>1. Ring(s) /\ Enumerates(h.freeList, FreeOf(s)) /\ h.available = Total(s) /\ Apart(s)
    BY DEF Whole, Listed
  <2> QED BY <2>1, FreeIs
<1>2. /\ Ring(o) /\ DOMAIN o = DOMAIN s /\ o[b].used
      /\ \A x \in DOMAIN s : o[x].next = s[x].next /\ (x # b => o[x].used = s[x].used)
      /\ \A x \in DOMAIN s : Large!Room(o, x) = Large!Room(s, x)
      /\ FreeOf(o) = FreeOf(s) \ {b} /\ Total(o) = Total(s) - Large!Room(s, b)
  <2>1. TRUE \in BOOLEAN /\ s[b].used = ~TRUE
    <3>1. s[b].used \in BOOLEAN
      BY <1>1, ItemLemma
    <3> QED BY <3>1, <1>1
  <2>2. /\ Ring(o) /\ DOMAIN o = DOMAIN s /\ o[b].used = TRUE
        /\ \A x \in DOMAIN s : o[x].next = s[x].next /\ o[x].prev = s[x].prev
                               /\ (x # b => o[x].used = s[x].used)
        /\ \A x \in DOMAIN s : Large!Room(o, x) = Large!Room(s, x)
    BY <1>1, <2>1, FlipLemma
  <2>3. /\ FreeOf(o) = IF TRUE THEN FreeOf(s) \ {b} ELSE FreeOf(s) \union {b}
        /\ TRUE => b \in FreeOf(s) /\ Total(o) = Total(s) - Large!Room(s, b)
        /\ ~TRUE => b \notin FreeOf(s) /\ Total(o) = Total(s) + Large!Room(s, b)
    BY <1>1, <2>1, FlipTotal
  <2> QED BY <2>2, <2>3
<1>3. r = IF Large!Room(s, b) >= n + Header + MinSize
          THEN [item |-> m, freeList |-> <<c>> \o rest, available |-> h.available - n - Header]
          ELSE [item |-> o, freeList |-> rest, available |-> h.available - Large!Room(s, b)]
  BY LargeWords DEF Large!Allocated, Flip, CutAt
<1>4. Enumerates(rest, FreeOf(o))
  <2>1. Enumerates(rest, FreeOf(s) \ {b})
    BY <1>1, RemoveFirstLemma
  <2> QED BY <2>1, <1>2
<1>5. /\ s[b].next \in DOMAIN s /\ s[b].next \in Nat /\ Large!Room(s, b) = s[b].next - b - Header
      /\ s[s[b].next].used /\ s[b].next # b
  <2>1. s[b].next \in DOMAIN s /\ s[b].next \in Nat /\ Large!Room(s, b) = s[b].next - b - Header
    BY <1>1, ItemLemma
  <2>2. s[s[b].next].used
    BY <1>1 DEF Apart
  <2>3. s[b].next # b
    BY <2>2, <1>1
  <2> QED BY <2>1, <2>2, <2>3
<1>6. UsedItems(o) = UsedItems(s) \union {b}
      /\ \A x \in UsedItems(s) : x # b /\ o[x].next = s[x].next
  BY <1>1, <1>2 DEF UsedItems
<1>7. Apart(o)
  <2> SUFFICES ASSUME NEW x \in DOMAIN o, ~o[x].used PROVE o[o[x].next].used
    BY DEF Apart
  <2>1. x \in DOMAIN s /\ ~s[x].used /\ o[x].next = s[x].next
    BY <1>2
  <2>2. s[x].next \in DOMAIN s /\ s[s[x].next].used
    BY <1>1, <2>1, ItemLemma DEF Apart
  <2> QED BY <2>1, <2>2, <1>2
<1> HIDE DEF r, m, o, rest
<1>8. CASE Large!Room(s, b) >= n + Header + MinSize
  <2>1. /\ b \in DOMAIN o \ {Large!Tailer} /\ n \in Nat /\ n >= MinSize /\ o[b].used
        /\ CanCut(o, b, n)
    <3>1. b + Header + n + Header + MinSize =< s[b].next
      BY <1>0, <1>1, <1>5, <1>8
    <3> QED BY <3>1, <1>1, <1>2 DEF CanCut
  <2>2. /\ Ring(m)
        /\ DOMAIN m = DOMAIN o \union {c} /\ c \notin DOMAIN o
        /\ ~m[c].used /\ m[c].next = o[b].next
        /\ \A x \in DOMAIN o : /\ m[x].used = o[x].used
                               /\ m[x].next = IF x = b THEN c ELSE o[x].next
        /\ Large!Room(m, b) = n /\ Large!Room(m, c) = Large!Room(o, b) - n - Header
    <3>1. IsSplit(o, Large!Split(o, b, n), b, n)
      BY <1>2, <2>1, SplitItemLemma
    <3> QED BY <3>1 DEF IsSplit, m
  <2>3. /\ FreeOf(m) = FreeOf(o) \union {c} /\ c \notin FreeOf(o)
        /\ Total(m) = Total(o) + Large!Room(o, b) - n - Header
    BY <1>2, <2>1, SplitTotal DEF m
  <2>4. r.item = m /\ r.freeList = <<c>> \o rest /\ r.available = h.available - n - Header
        /\ IsHeap(r)
    BY <1>3, <1>8 DEF IsHeap
  <2> HIDE DEF c
  <2>5. Enumerates(r.freeList, FreeOf(m))
    BY <2>3, <2>4, <1>4, PrependLemma
  <2>6. r.available = Total(m)
    <3>1. Total(s) \in Int /\ Large!Room(s, b) \in Int
      BY <1>1, TotalBound, ItemLemma
    <3>2. Total(m) = (Total(s) - Large!Room(s, b)) + Large!Room(s, b) - n - Header
      BY <1>1, <1>2, <2>3
    <3>3. Total(m) = Total(s) - n - Header
      BY <3>1, <3>2, <1>0
    <3> QED BY <3>3, <2>4, <1>1
  <2>7. UsedItems(m) = UsedItems(o)
    BY <2>2 DEF UsedItems
  <2>8. \A x \in UsedItems(s) : m[x].next = s[x].next
    BY <1>1, <1>2, <1>6, <2>2 DEF UsedItems
  <2>9. Apart(m)
    <3> SUFFICES ASSUME NEW x \in DOMAIN m, ~m[x].used PROVE m[m[x].next].used
      BY DEF Apart
    <3>1. CASE x = c
      <4>1. m[c].next = s[b].next /\ s[b].next \in DOMAIN o
        BY <1>1, <1>2, <1>5, <2>2
      <4> QED BY <3>1, <4>1, <1>2, <1>5, <2>2
    <3>2. CASE x # c
      <4>1. x \in DOMAIN o /\ ~o[x].used /\ x # b /\ m[x].next = o[x].next
        BY <3>2, <1>2, <2>2
      <4>2. o[x].next \in DOMAIN o /\ o[o[x].next].used
        BY <4>1, <1>2, <1>7, ItemLemma DEF Apart
      <4> QED BY <4>1, <4>2, <2>2
    <3> QED BY <3>1, <3>2
  <2>10. Whole(r) /\ Large!Room(m, b) >= n
    BY <2>2, <2>4, <2>5, <2>6, <2>9 DEF Whole, Listed
  <2> QED BY <2>4, <2>7, <2>8, <2>10, <1>6 DEF r, s
<1>9. CASE ~(Large!Room(s, b) >= n + Header + MinSize)
  <2>1. r.item = o /\ r.freeList = rest /\ r.available = h.available - Large!Room(s, b) /\ IsHeap(r)
    BY <1>3, <1>9 DEF IsHeap
  <2>2. Whole(r)
    BY <2>1, <1>1, <1>2, <1>4, <1>7 DEF Whole, Listed
  <2>3. Large!Room(o, b) >= n
    BY <1>1, <1>2
  <2> QED BY <2>1, <2>2, <2>3, <1>6 DEF r, s
<1> QED BY <1>8, <1>9

\* A used item takes words from the free one behind it.
LEMMA GrownItemLemma ==
    ASSUME Large!MemHeapAssumption, NEW h, Whole(h), NEW b \in UsedItems(h.item), NEW n \in Nat,
           n >= MinSize, h.item[b].next \in FreeOf(h.item),
           Large!Room(h.item, h.item[b].next) + Large!Room(h.item, b) > n + MinSize
    PROVE  LET r == Large!Grown(h, b, n)
           IN  /\ Whole(r)
               /\ UsedItems(r.item) = UsedItems(h.item)
               /\ \A x \in UsedItems(h.item) : x # b => r.item[x].next = h.item[x].next
               /\ Large!Room(r.item, b) = n
<1> DEFINE s == h.item
           gone == s[b].next
           c == CutAt(b, n)
           o == JoinedItem(s, b)
           m == Large!Split(o, b, n)
           rest == RemoveFirst(h.freeList, gone)
           r == Large!Grown(h, b, n)
<1>0. Header \in Nat /\ MinSize \in Nat /\ Header > 0 /\ MinSize > 0
  BY PoolLemma
<1>1. /\ Ring(s) /\ Enumerates(h.freeList, FreeOf(s)) /\ h.available = Total(s) /\ Apart(s)
      /\ b \in DOMAIN s \ {Large!Tailer} /\ s[b].used /\ gone \in FreeOf(s) /\ b \in Nat
      /\ gone # Large!Tailer /\ ~s[gone].used /\ gone \in DOMAIN s
  <2>1. /\ Ring(s) /\ Enumerates(h.freeList, FreeOf(s)) /\ h.available = Total(s) /\ Apart(s)
        /\ b \in DOMAIN s \ {Large!Tailer} /\ s[b].used /\ gone \in FreeOf(s)
    BY DEF Whole, Listed, UsedItems
  <2>2. b \in Nat /\ gone # Large!Tailer /\ ~s[gone].used /\ gone \in DOMAIN s
    <3>1. b \in Nat
      BY <2>1, ItemLemma
    <3> HIDE DEF gone
    <3> QED BY <2>1, <3>1, FreeIs
  <2> QED BY <2>1, <2>2
<1>2. /\ Ring(o)
      /\ DOMAIN o = DOMAIN s \ {gone} /\ gone # b /\ gone # 0 /\ gone \in DOMAIN s
      /\ s[gone].next \in DOMAIN o
      /\ \A x \in DOMAIN o : /\ o[x].used = s[x].used
                             /\ o[x].next = IF x = b THEN s[gone].next ELSE s[x].next
      /\ Large!Room(o, b) = Large!Room(s, b) + Header + Large!Room(s, gone)
  <2>1. b \in DOMAIN s \ {Large!Tailer} /\ s[b].next # Large!Tailer /\ Ring(s)
    BY <1>1
  <2>2. IsJoin(s, JoinedItem(s, b), b)
    BY <2>1, JoinItemLemma
  <2> QED BY <2>2 DEF IsJoin
<1>3. FreeOf(o) = FreeOf(s) \ {gone} /\ Total(o) = Total(s) - Large!Room(s, gone)
  BY <1>1, JoinTotal
<1>4. /\ r.item = m /\ r.freeList = <<c>> \o rest
      /\ r.available = h.available - (n - Large!Room(s, b)) /\ IsHeap(r)
  BY LargeWords DEF Large!Grown, Large!Joined, JoinedItem, IsHeap, CutAt
<1>5. Enumerates(rest, FreeOf(o))
  BY <1>1, <1>3, RemoveFirstLemma
<1>6. s[s[gone].next].used
  BY <1>1 DEF Apart
<1>7. Large!Room(s, b) \in Nat /\ Large!Room(s, gone) \in Nat /\ Total(s) \in Nat
  <2>1. Total(s) \in Nat
    BY <1>1, TotalBound, PoolLemma
  <2>2. Large!Room(s, b) \in Nat
    BY <1>1, ItemLemma
  <2> HIDE DEF gone
  <2>3. Large!Room(s, gone) \in Nat
    BY <1>1, ItemLemma
  <2> QED BY <2>1, <2>2, <2>3
<1>8. Large!Room(s, gone) + Large!Room(s, b) > n + MinSize
  OBVIOUS
<1> HIDE DEF r, m, o, rest, gone
<1>9. /\ b \in DOMAIN o \ {Large!Tailer} /\ n \in Nat /\ n >= MinSize /\ o[b].used
      /\ CanCut(o, b, n)
  <2>1. b \in DOMAIN o \ {Large!Tailer} /\ o[b].used
    BY <1>1, <1>2
  <2>2. Large!Room(o, b) = o[b].next - b - Header /\ o[b].next \in Nat
    BY <2>1, <1>2, ItemLemma
  <2>3. b + Header + n + Header + MinSize =< o[b].next
    BY <2>1, <2>2, <1>0, <1>1, <1>2, <1>7, <1>8
  <2> QED BY <2>1, <2>3 DEF CanCut
<1>10. /\ Ring(m)
       /\ DOMAIN m = DOMAIN o \union {c} /\ c \notin DOMAIN o
       /\ ~m[c].used /\ m[c].next = o[b].next
       /\ \A x \in DOMAIN o : /\ m[x].used = o[x].used
                              /\ m[x].next = IF x = b THEN c ELSE o[x].next
       /\ Large!Room(m, b) = n /\ Large!Room(m, c) = Large!Room(o, b) - n - Header
  <2>1. IsSplit(o, Large!Split(o, b, n), b, n)
    BY <1>2, <1>9, SplitItemLemma
  <2> QED BY <2>1 DEF IsSplit, m
<1>11. /\ FreeOf(m) = FreeOf(o) \union {c} /\ c \notin FreeOf(o)
       /\ Total(m) = Total(o) + Large!Room(o, b) - n - Header
  BY <1>2, <1>9, SplitTotal DEF m
<1> HIDE DEF c
<1>12. Enumerates(r.freeList, FreeOf(m))
  BY <1>4, <1>5, <1>11, PrependLemma
<1>13. r.available = Total(m)
  <2>1. Total(m) = (Total(s) - Large!Room(s, gone)) + (Large!Room(s, b) + Header + Large!Room(s, gone))
                   - n - Header
    BY <1>2, <1>3, <1>11
  <2>2. r.available = Total(s) - (n - Large!Room(s, b))
    BY <1>1, <1>4
  <2> QED BY <2>1, <2>2, <1>0, <1>7
<1>14. UsedItems(m) = UsedItems(s)
  BY <1>1, <1>2, <1>10 DEF UsedItems
<1>15. \A x \in UsedItems(s) : x # b => m[x].next = s[x].next
  BY <1>1, <1>2, <1>10 DEF UsedItems
<1>16. Apart(m)
  <2> SUFFICES ASSUME NEW x \in DOMAIN m, ~m[x].used PROVE m[m[x].next].used
    BY DEF Apart
  <2>1. CASE x = c
    <3>1. m[x].next = s[gone].next
      BY <2>1, <1>2, <1>9, <1>10
    <3> QED BY <3>1, <1>2, <1>6, <1>10
  <2>2. CASE x # c
    <3>1. x \in DOMAIN s /\ x # gone /\ ~s[x].used /\ x # b /\ m[x].next = s[x].next
      BY <2>2, <1>2, <1>9, <1>10
    <3>2. s[x].next \in DOMAIN s /\ s[s[x].next].used
      BY <3>1, <1>1, ItemLemma DEF Apart
    <3>3. s[x].next # gone
      BY <3>2, <1>1
    <3> QED BY <3>1, <3>2, <3>3, <1>2, <1>10
  <2> QED BY <2>1, <2>2
<1>17. Whole(r)
  BY <1>4, <1>10, <1>12, <1>13, <1>16 DEF Whole, Listed
<1> QED BY <1>4, <1>10, <1>14, <1>15, <1>17 DEF r, s

\* A used item gives back what is behind its first n words.
LEMMA ShrunkItemLemma ==
    ASSUME Large!MemHeapAssumption, NEW h, Whole(h), NEW b \in UsedItems(h.item), NEW n \in Nat,
           n >= MinSize, n + Header + MinSize < Large!Room(h.item, b)
    PROVE  LET r == Large!Shrunk(h, b, n)
           IN  /\ Whole(r)
               /\ UsedItems(r.item) = UsedItems(h.item)
               /\ \A x \in UsedItems(h.item) : x # b => r.item[x].next = h.item[x].next
               /\ Large!Room(r.item, b) = n
<1> DEFINE s == h.item
           behind == s[b].next
           c == CutAt(b, n)
           m == Large!Split(s, b, n)
           cut == [h EXCEPT !.item = Large!Split(@, b, n)]
           k == [item |-> m, freeList |-> h.freeList, available |-> Total(m)]
           whole == IF s[behind].used THEN cut ELSE Large!Joined(cut, c)
           lost == IF s[behind].used THEN 0 ELSE Large!Room(s, behind)
           r == Large!Shrunk(h, b, n)
<1>0. Header \in Nat /\ MinSize \in Nat /\ Header > 0 /\ MinSize > 0
  BY PoolLemma
<1>1. /\ Ring(s) /\ Enumerates(h.freeList, FreeOf(s)) /\ h.available = Total(s) /\ Apart(s)
      /\ b \in DOMAIN s \ {Large!Tailer} /\ s[b].used /\ b \in Nat
      /\ behind \in DOMAIN s /\ behind \in Nat /\ b < behind
      /\ Large!Room(s, b) = behind - b - Header /\ Large!Room(s, b) \in Nat /\ Total(s) \in Nat
  <2>1. /\ Ring(s) /\ Enumerates(h.freeList, FreeOf(s)) /\ h.available = Total(s) /\ Apart(s)
        /\ b \in DOMAIN s \ {Large!Tailer} /\ s[b].used
    BY DEF Whole, Listed, UsedItems
  <2>2. /\ b \in Nat /\ behind \in DOMAIN s /\ behind \in Nat /\ b < behind
        /\ Large!Room(s, b) = behind - b - Header /\ Large!Room(s, b) \in Nat
    BY <2>1, ItemLemma
  <2>3. Total(s) \in Nat
    BY <2>1, TotalBound, PoolLemma
  <2> QED BY <2>1, <2>2, <2>3
<1>2. n + Header + MinSize < Large!Room(s, b)
  OBVIOUS
<1>3. CanCut(s, b, n)
  <2>1. b + Header + n + Header + MinSize =< behind
    <3> HIDE DEF behind, s
    <3> QED BY <1>0, <1>1, <1>2
  <2> QED BY <2>1 DEF CanCut
<1>4. cut.item = m /\ cut.freeList = h.freeList /\ cut.available = h.available
  <2>1. PICK i, f, a : h = [item |-> i, freeList |-> f, available |-> a]
    BY DEF Whole, Listed, IsHeap
  <2>2. cut = [item |-> Large!Split(i, b, n), freeList |-> f, available |-> a]
    BY <2>1
  <2> QED BY <2>1, <2>2
<1>5. k.item = m /\ k.freeList = h.freeList /\ k.available = Total(m) /\ IsHeap(k)
  BY DEF IsHeap
<1>6. r = [item |-> whole.item, freeList |-> <<c>> \o whole.freeList,
           available |-> h.available - lost + Large!Room(whole.item, c)]
  BY DEF Large!Shrunk, CutAt
<1>7. Large!Joined(cut, c).item = Large!Joined(k, c).item
      /\ Large!Joined(cut, c).freeList = Large!Joined(k, c).freeList
  <2> HIDE DEF cut, k, m, c
  <2> QED BY <1>4, <1>5 DEF Large!Joined
<1>8. IsSplit(s, m, b, n)
  BY <1>1, <1>3, SplitItemLemma
<1>9. /\ FreeOf(m) = FreeOf(s) \union {c} /\ c \notin FreeOf(s)
      /\ Total(m) = Total(s) + Large!Room(s, b) - n - Header
  BY <1>1, <1>3, SplitTotal
<1> HIDE DEF m, k, cut, whole, lost, r, s
<1>10. /\ Ring(m)
       /\ DOMAIN m = DOMAIN s \union {c} /\ c \notin DOMAIN s
       /\ ~m[c].used /\ m[c].next = behind
       /\ \A x \in DOMAIN s : /\ m[x].used = s[x].used
                              /\ m[x].next = IF x = b THEN c ELSE s[x].next
       /\ Large!Room(m, b) = n /\ Large!Room(m, c) = Large!Room(s, b) - n - Header
  BY <1>8 DEF IsSplit
<1> HIDE DEF c
<1>11. UsedItems(m) = UsedItems(s)
  BY <1>1, <1>10 DEF UsedItems
<1>12. \A x \in UsedItems(s) : x # b => m[x].next = s[x].next
  BY <1>10 DEF UsedItems
<1>13. c \notin FreeOf(m) \ {c} /\ c \in FreeOf(m) /\ c # b
  BY <1>1, <1>9, <1>10
<1>14. Listed(k, FreeOf(m) \ {c})
  <2>1. FreeOf(m) \ {c} = FreeOf(s)
    BY <1>9
  <2> QED BY <2>1, <1>1, <1>5, <1>10 DEF Listed
<1> HIDE DEF behind
<1>15. CASE s[behind].used
  <2>1. r.item = m /\ r.freeList = <<c>> \o h.freeList
        /\ r.available = h.available - 0 + Large!Room(m, c) /\ IsHeap(r)
    BY <1>4, <1>6, <1>15 DEF whole, lost, IsHeap
  <2>2. Enumerates(r.freeList, (FreeOf(m) \ {c}) \union {c})
    BY <2>1, <1>5, <1>13, <1>14, PrependLemma DEF Listed
  <2>3. (FreeOf(m) \ {c}) \union {c} = FreeOf(m)
    BY <1>13
  <2>4. r.available = Total(m)
    BY <2>1, <1>0, <1>1, <1>9, <1>10
  <2>5. Apart(m)
    <3> SUFFICES ASSUME NEW x \in DOMAIN m, ~m[x].used PROVE m[m[x].next].used
      BY DEF Apart
    <3>1. CASE x = c
      BY <3>1, <1>1, <1>10, <1>15
    <3>2. CASE x # c
      <4>1. x \in DOMAIN s /\ ~s[x].used /\ x # b /\ m[x].next = s[x].next
        BY <3>2, <1>1, <1>10
      <4>2. s[x].next \in DOMAIN s /\ s[s[x].next].used
        BY <4>1, <1>1, ItemLemma DEF Apart
      <4> QED BY <4>1, <4>2, <1>10
    <3> QED BY <3>1, <3>2
  <2>6. Whole(r)
    BY <2>1, <2>2, <2>3, <2>4, <2>5, <1>10 DEF Whole, Listed
  <2> QED BY <2>1, <2>6, <1>10, <1>11, <1>12 DEF r, s
<1>16. CASE ~s[behind].used
  <2> DEFINE j == Large!Joined(k, c)
             w == j.item
  <2>1. behind \in FreeOf(m) /\ behind # c /\ behind # b /\ m[c].next \in FreeOf(m)
    BY <1>1, <1>10, <1>16 DEF FreeOf
  <2>2. JoinsFree(k, FreeOf(m) \ {c}, c, j, k.item[c].next)
    <3>1. c \in FreeOf(k.item) /\ k.item[c].next \in FreeOf(k.item)
      BY <2>1, <1>5, <1>13
    <3> QED BY <3>1, <1>14, JoinedFree
  <2>3. /\ Listed(j, (FreeOf(m) \ {c}) \ {behind}) /\ FreeOf(w) = FreeOf(m) \ {behind}
        /\ SameUsed(m, w) /\ DOMAIN w = DOMAIN m \ {behind} /\ m[behind].next \in DOMAIN w
        /\ \A x \in DOMAIN w : /\ w[x].used = m[x].used
                               /\ w[x].next = IF x = c THEN m[behind].next ELSE m[x].next
        /\ Large!Room(w, c) = Large!Room(m, c) + Header + Large!Room(m, behind)
    BY <2>2, <1>5, <1>10 DEF JoinsFree
  <2>4. r.item = w /\ r.freeList = <<c>> \o j.freeList
        /\ r.available = h.available - Large!Room(s, behind) + Large!Room(w, c) /\ IsHeap(r)
    BY <1>6, <1>7, <1>16 DEF whole, lost, IsHeap
  <2> HIDE DEF j
  <2>5. c \in FreeOf(w) /\ c \notin (FreeOf(m) \ {c}) \ {behind}
        /\ ((FreeOf(m) \ {c}) \ {behind}) \union {c} = FreeOf(w)
    BY <2>1, <2>3, <1>13
  <2>6. Enumerates(r.freeList, ((FreeOf(m) \ {c}) \ {behind}) \union {c})
    BY <2>3, <2>4, <2>5, PrependLemma DEF Listed
  <2> HIDE DEF w
  <2>7. r.available = Total(w)
    <3>1. Large!Room(m, behind) = Large!Room(s, behind)
      BY <2>1, <1>1, <1>10 DEF Large!Room
    <3>2. Total(w) = Total(m) + Header
      <4>1. c \in DOMAIN m \ {Large!Tailer} /\ m[c].next \in FreeOf(m) /\ ~m[c].used
        BY <2>1, <1>10, <1>13, FreeIs
      <4>2. LET jm == JoinedItem(m, c)
            IN  ~m[c].used => Total(jm) = Total(m) + Header
        BY <4>1, <1>10, JoinTotal
      <4>3. w = JoinedItem(m, c)
        BY <1>5 DEF w, j, Large!Joined, JoinedItem
      <4> QED BY <4>1, <4>2, <4>3
    <3>3. Large!Room(s, behind) \in Int
      BY <1>1, ItemLemma
    <3> QED BY <2>3, <2>4, <3>1, <3>2, <3>3, <1>0, <1>1, <1>9, <1>10
  <2>8. Apart(w)
    <3> SUFFICES ASSUME NEW x \in DOMAIN w, ~w[x].used PROVE w[w[x].next].used
      BY DEF Apart
    <3>0. x \in DOMAIN m /\ x # behind /\ ~m[x].used /\ behind \in DOMAIN s
      BY <2>3, <1>1
    <3>1. CASE x = c
      <4>1. w[x].next = m[behind].next /\ m[behind].next = s[behind].next
        BY <3>1, <2>1, <2>3, <1>1, <1>10
      <4>2. s[behind].next \in DOMAIN s /\ s[s[behind].next].used
        BY <3>0, <1>1, <1>16, ItemLemma DEF Apart
      <4> QED BY <4>1, <4>2, <2>3, <1>10
    <3>2. CASE x # c
      <4>1. x \in DOMAIN s /\ ~s[x].used /\ x # b /\ w[x].next = s[x].next
        BY <3>0, <3>2, <1>1, <1>10, <2>3
      <4>2. s[x].next \in DOMAIN s /\ s[s[x].next].used
        BY <4>1, <1>1, ItemLemma DEF Apart
      <4>3. s[x].next # behind
        BY <4>2, <1>16
      <4> QED BY <4>1, <4>2, <4>3, <2>3, <1>10
    <3> QED BY <3>1, <3>2
  <2>9. Whole(r)
    <3>1. Ring(w)
      BY <2>3 DEF Listed, w
    <3> QED BY <3>1, <2>4, <2>5, <2>6, <2>7, <2>8 DEF Whole, Listed
  <2>10. UsedItems(w) = UsedItems(s) /\ \A x \in UsedItems(s) : x # b => w[x].next = s[x].next
    BY <2>3, <1>11, <1>12 DEF SameUsed
  <2>11. Large!Room(w, b) = n
    <3>1. b \in DOMAIN w /\ w[b].next = m[b].next
      BY <2>1, <2>3, <1>1, <1>10, <1>13
    <3> QED BY <3>1, <1>10 DEF Large!Room
  <2> QED BY <2>4, <2>9, <2>10, <2>11 DEF r, s
<1> QED BY <1>15, <1>16

-----------------------------------------------------------------------------
(* Owners and calls                                                         *)

\* Every used item of s has one owner in d, who counts on no more than there is.
OwnedItems(s, d) ==
    /\ DOMAIN d \subseteq 0..PoolSize
    /\ \A p \in DOMAIN d :
          Large!ItemOf(p) \in UsedItems(s) /\ d[p] \in 1..PoolSize /\ d[p] =< Large!Room(s, Large!ItemOf(p))
    /\ \A b \in UsedItems(s) : Large!Pointer(b) \in DOMAIN d

\* The pointers that call c works on.
Works(c) == {c.old, c.new} \ {NoCall}
ItemCalls(k, d) ==
    /\ k \in [Threads -> Large!Calls \union {NoCall}]
    /\ \A t \in Threads : k[t] # NoCall =>
          /\ Works(k[t]) \subseteq DOMAIN d
          /\ k[t].at = "free" => k[t].old # NoCall
    /\ \A t, u \in Threads :
          k[t] # NoCall /\ k[u] # NoCall /\ t # u => Works(k[t]) \intersect Works(k[u]) = {}

LEMMA ItemPointerLemma ==
    ASSUME Large!MemHeapAssumption
    PROVE  /\ \A b \in Nat : Large!ItemOf(Large!Pointer(b)) = b /\ Large!Pointer(b) \in Nat
           /\ \A b \in 0..Large!Tailer : Large!Pointer(b) \in 0..PoolSize
           /\ \A p, b \in Nat : Large!ItemOf(p) = b => p = Large!Pointer(b)
BY PoolLemma DEF Large!ItemOf, Large!Pointer

\* Of the items only b is another in m than in s, and its owner in e than in d.
OneOwner(s, m, d, e, b) ==
    /\ UsedItems(m) \ {b} = UsedItems(s) \ {b}
    /\ \A x \in UsedItems(s) : x # b => m[x].next = s[x].next
    /\ DOMAIN e \ {Large!Pointer(b)} = DOMAIN d \ {Large!Pointer(b)}
    /\ \A q \in DOMAIN d \ {Large!Pointer(b)} : e[q] = d[q]
    /\ (Large!Pointer(b) \in DOMAIN e) <=> (b \in UsedItems(m))
    /\ Large!Pointer(b) \in DOMAIN e =>
          e[Large!Pointer(b)] \in 1..PoolSize /\ e[Large!Pointer(b)] =< Large!Room(m, b)

LEMMA OwnedItemChange ==
    ASSUME Large!MemHeapAssumption, NEW s, NEW m, NEW d, NEW e, NEW b, b \in 0..Large!Tailer,
           OwnedItems(s, d), UsedItems(s) \subseteq Nat, OneOwner(s, m, d, e, b)
    PROVE  OwnedItems(m, e)
<1> USE DEF OneOwner
<1> DEFINE p == Large!Pointer(b)
<1>1. p \in 0..PoolSize /\ Large!ItemOf(p) = b /\ p \in Nat /\ b \in Nat
  BY ItemPointerLemma, PoolLemma
<1>2. DOMAIN e \subseteq 0..PoolSize
  BY <1>1 DEF OwnedItems
<1>3. ASSUME NEW q \in DOMAIN e
      PROVE  Large!ItemOf(q) \in UsedItems(m) /\ e[q] \in 1..PoolSize
             /\ e[q] =< Large!Room(m, Large!ItemOf(q))
  <2>1. CASE q = p
    BY <2>1, <1>1
  <2>2. CASE q # p
    <3>1. q \in DOMAIN d /\ e[q] = d[q] /\ q \in Nat
      BY <2>2, <1>2, PoolLemma
    <3>2. /\ Large!ItemOf(q) \in UsedItems(s) /\ d[q] \in 1..PoolSize
          /\ d[q] =< Large!Room(s, Large!ItemOf(q))
      BY <3>1 DEF OwnedItems
    <3>3. Large!ItemOf(q) # b
      BY <3>1, <2>2, <1>1, ItemPointerLemma
    <3>4. Large!ItemOf(q) \in UsedItems(m) /\ m[Large!ItemOf(q)].next = s[Large!ItemOf(q)].next
      BY <3>2, <3>3
    <3>5. Large!Room(m, Large!ItemOf(q)) = Large!Room(s, Large!ItemOf(q))
      BY <3>4 DEF Large!Room
    <3> QED BY <3>1, <3>2, <3>4, <3>5
  <2> QED BY <2>1, <2>2
<1>4. ASSUME NEW x \in UsedItems(m) PROVE Large!Pointer(x) \in DOMAIN e
  <2>1. CASE x = b
    BY <2>1
  <2>2. CASE x # b
    <3>1. x \in UsedItems(s)
      BY <2>2
    <3>2. Large!Pointer(x) \in DOMAIN d
      BY <3>1 DEF OwnedItems
    <3>3. Large!Pointer(x) # p
      <4>1. x \in Nat
        BY <3>1
      <4>2. Large!ItemOf(Large!Pointer(x)) = x
        BY <4>1, ItemPointerLemma
      <4> QED BY <4>2, <2>2, <1>1
    <3> QED BY <3>2, <3>3
  <2> QED BY <2>1, <2>2
<1> QED BY <1>2, <1>3, <1>4 DEF OwnedItems

\* The invariant
ItemsHeld == Whole(Large!Now) /\ OwnedItems(item, held)
ItemInv == ItemsHeld /\ ItemCalls(call, held)

LEMMA RingOfItems ==
    ASSUME Large!MemHeapAssumption, ItemsHeld
    PROVE  /\ Ring(item) /\ Enumerates(freeList, FreeOf(item)) /\ available = Total(item)
           /\ Apart(item) /\ Large!Now.item = item /\ UsedItems(item) \subseteq Nat
           /\ UsedItems(item) \subseteq 0..Large!Tailer /\ FreeOf(item) \subseteq 0..Large!Tailer
<1>1. Large!Now.item = item /\ Large!Now.freeList = freeList /\ Large!Now.available = available
  BY DEF Large!Now
<1>2. Ring(item) /\ Enumerates(freeList, FreeOf(item)) /\ available = Total(item) /\ Apart(item)
  BY <1>1 DEF ItemsHeld, Whole, Listed
<1>3. DOMAIN item \subseteq 0..Large!Tailer
  BY <1>2 DEF Ring
<1>4. DOMAIN item \subseteq Nat
  BY <1>3
<1> QED BY <1>1, <1>2, <1>3, <1>4 DEF UsedItems, FreeOf

LEMMA HeldNext ==
    ASSUME NEW r, Large!Becomes(r), Whole(r), OwnedItems(r.item, held')
    PROVE  ItemsHeld'
<1>1. item' = r.item /\ freeList' = r.freeList /\ available' = r.available
  BY DEF Large!Becomes
<1>2. Large!Now'.item = r.item /\ Large!Now'.freeList = r.freeList
      /\ Large!Now'.available = r.available
  BY <1>1 DEF Large!Now
<1>3. IsHeap(Large!Now)'
  BY DEF IsHeap, Large!Now
<1>4. Whole(Large!Now)'
  BY <1>2, <1>3 DEF Whole, Listed
<1> QED BY <1>1, <1>4 DEF ItemsHeld

LEMMA AtLeastItem ==
    ASSUME Large!MemHeapAssumption, NEW n \in ItemSizes
    PROVE  Large!AtLeast(n) \in Nat /\ Large!AtLeast(n) >= MinSize /\ n =< Large!AtLeast(n)
           /\ n \in 1..PoolSize
BY PoolLemma DEF Large!AtLeast

\* rt_memheap_alloc, called or inside rt_memheap_realloc
LEMMA TakesItem ==
    ASSUME Large!MemHeapAssumption, ItemsHeld, NEW n \in ItemSizes,
           Large!Fits(Large!AtLeast(n)) # {},
           NEW b, b = freeList[Min(Large!Fits(Large!AtLeast(n)))],
           Large!Becomes(Large!Allocated(Large!Now, b, Large!AtLeast(n))),
           Large!Give(Large!Pointer(b), n)
    PROVE  /\ ItemsHeld' /\ Large!Pointer(b) \notin DOMAIN held /\ Large!Pointer(b) \in 0..PoolSize
           /\ DOMAIN held' = DOMAIN held \union {Large!Pointer(b)}
<1> DEFINE p == Large!Pointer(b)
           i == Min(Large!Fits(Large!AtLeast(n)))
           r == Large!Allocated(Large!Now, b, Large!AtLeast(n))
<1>1. /\ Ring(item) /\ Enumerates(freeList, FreeOf(item)) /\ Large!Now.item = item
      /\ UsedItems(item) \subseteq Nat /\ FreeOf(item) \subseteq 0..Large!Tailer
      /\ Whole(Large!Now) /\ OwnedItems(item, held)
  BY RingOfItems DEF ItemsHeld
<1>2. i \in Large!Fits(Large!AtLeast(n))
  <2>1. Large!Fits(Large!AtLeast(n)) \subseteq Nat
    BY <1>1 DEF Large!Fits, Enumerates
  <2> QED BY <2>1, FirstLemma
<1>3. b = freeList[i] /\ i \in DOMAIN freeList /\ Large!Room(item, freeList[i]) >= Large!AtLeast(n)
  BY <1>2 DEF Large!Fits
<1> HIDE DEF i
<1>4. b \in FreeOf(item) /\ Large!Room(item, b) >= Large!AtLeast(n) /\ b \in 0..Large!Tailer
  BY <1>1, <1>3 DEF Enumerates
<1>5. Large!AtLeast(n) \in Nat /\ Large!AtLeast(n) >= MinSize /\ n =< Large!AtLeast(n)
      /\ n \in 1..PoolSize
  BY AtLeastItem
<1>6. /\ Whole(r)
      /\ UsedItems(r.item) = UsedItems(item) \union {b}
      /\ \A x \in UsedItems(item) : x # b /\ r.item[x].next = item[x].next
      /\ Large!Room(r.item, b) >= Large!AtLeast(n)
  BY <1>1, <1>4, <1>5, AllocatedItemLemma
<1>7. p \notin DOMAIN held
  <2>1. Large!ItemOf(p) = b
    BY <1>4, ItemPointerLemma, PoolLemma
  <2>2. b \notin UsedItems(item)
    BY <1>4 DEF FreeOf, UsedItems
  <2> QED BY <2>1, <2>2, <1>1 DEF OwnedItems
<1>8. /\ DOMAIN held' = DOMAIN held \union {p} /\ held'[p] = n
      /\ \A q \in DOMAIN held : q # p => held'[q] = held[q]
  BY DEF Large!Give
<1>9. p \in 0..PoolSize
  BY <1>4, ItemPointerLemma
<1>10. Large!Room(r.item, b) >= n
  <2>1. b \in DOMAIN r.item /\ Ring(r.item)
    BY <1>6 DEF UsedItems, Whole, Listed
  <2> HIDE DEF r
  <2>2. Large!Room(r.item, b) \in Int
    BY <2>1, ItemLemma
  <2> QED BY <2>2, <1>5, <1>6, PoolLemma
<1> HIDE DEF p, r
<1>11. OwnedItems(r.item, held')
  <2>1. UsedItems(r.item) \ {b} = UsedItems(item) \ {b} /\ b \in UsedItems(r.item)
    BY <1>6
  <2>2. p = Large!Pointer(b)
    BY DEF p
  <2>3. OneOwner(item, r.item, held, held', b)
    BY <2>1, <2>2, <1>5, <1>6, <1>8, <1>10 DEF OneOwner
  <2> QED BY <2>3, <1>1, <1>4, OwnedItemChange
<1>12. ItemsHeld'
  <2>1. Large!Becomes(r)
    BY DEF r
  <2> QED BY <2>1, <1>6, <1>11, HeldNext
<1> QED BY <1>7, <1>8, <1>9, <1>12 DEF p

\* What a pointer of a caller leads to
LEMMA HeldItem ==
    ASSUME Large!MemHeapAssumption, ItemsHeld, NEW p \in DOMAIN held
    PROVE  /\ Large!ItemOf(p) \in UsedItems(item) /\ Large!ItemOf(p) \in 0..Large!Tailer
           /\ Large!Pointer(Large!ItemOf(p)) = p /\ p \in 0..PoolSize
<1>1. p \in 0..PoolSize /\ Large!ItemOf(p) \in UsedItems(item)
  BY DEF ItemsHeld, OwnedItems
<1>2. Large!ItemOf(p) \in 0..Large!Tailer /\ Large!ItemOf(p) \in Nat /\ p \in Nat
  BY <1>1, RingOfItems, PoolLemma
<1> QED BY <1>1, <1>2, ItemPointerLemma

\* rt_memheap_free, called or inside rt_memheap_realloc
LEMMA FreesItem ==
    ASSUME Large!MemHeapAssumption, ItemsHeld, NEW p \in DOMAIN held,
           Large!Becomes(Large!Freed(Large!Now, Large!ItemOf(p))),
           held' = Restrict(held, DOMAIN held \ {p})
    PROVE  ItemsHeld' /\ DOMAIN held' = DOMAIN held \ {p}
<1> DEFINE b == Large!ItemOf(p)
           r == Large!Freed(Large!Now, b)
<1>1. /\ Large!Now.item = item /\ UsedItems(item) \subseteq Nat
      /\ Whole(Large!Now) /\ OwnedItems(item, held)
  BY RingOfItems DEF ItemsHeld
<1>2. b \in UsedItems(item) /\ b \in 0..Large!Tailer /\ Large!Pointer(b) = p
  BY HeldItem
<1>3. /\ Whole(r)
      /\ UsedItems(r.item) = UsedItems(item) \ {b}
      /\ \A x \in UsedItems(r.item) : r.item[x].next = item[x].next
  BY <1>1, <1>2, FreedItemLemma
<1>4. DOMAIN held' = DOMAIN held \ {p} /\ \A q \in DOMAIN held \ {p} : held'[q] = held[q]
  BY DEF Restrict
<1>5. Large!Becomes(r)
  OBVIOUS
<1> HIDE DEF r, b
<1>6. OwnedItems(r.item, held')
  <2>1. /\ UsedItems(r.item) \ {b} = UsedItems(item) \ {b} /\ b \notin UsedItems(r.item)
        /\ \A x \in UsedItems(item) : x # b => r.item[x].next = item[x].next
        /\ DOMAIN held' \ {Large!Pointer(b)} = DOMAIN held \ {Large!Pointer(b)}
        /\ \A q \in DOMAIN held \ {Large!Pointer(b)} : held'[q] = held[q]
    BY <1>2, <1>3, <1>4
  <2>2. Large!Pointer(b) \notin DOMAIN held'
    BY <1>2, <1>4
  <2>3. /\ Large!Pointer(b) \in DOMAIN held' <=> b \in UsedItems(r.item)
        /\ Large!Pointer(b) \in DOMAIN held' =>
              held'[Large!Pointer(b)] \in 1..PoolSize
              /\ held'[Large!Pointer(b)] =< Large!Room(r.item, b)
    BY <2>1, <2>2
  <2>4. OneOwner(item, r.item, held, held', b)
    BY <2>1, <2>3 DEF OneOwner
  <2> QED BY <2>4, <1>1, <1>2, OwnedItemChange
<1> QED BY <1>3, <1>4, <1>5, <1>6, HeldNext

\* rt_memheap_realloc, where the item stays
LEMMA ResizesItem ==
    ASSUME Large!MemHeapAssumption, ItemsHeld, NEW p \in DOMAIN held, NEW n \in 1..PoolSize,
           NEW r, Large!Becomes(r), Whole(r), UsedItems(r.item) = UsedItems(item),
           \A x \in UsedItems(item) : x # Large!ItemOf(p) => r.item[x].next = item[x].next,
           n =< Large!Room(r.item, Large!ItemOf(p)), Large!Give(p, n)
    PROVE  ItemsHeld' /\ DOMAIN held' = DOMAIN held
<1> DEFINE b == Large!ItemOf(p)
<1>1. UsedItems(item) \subseteq Nat /\ OwnedItems(item, held)
  BY RingOfItems DEF ItemsHeld
<1>2. b \in UsedItems(item) /\ b \in 0..Large!Tailer /\ Large!Pointer(b) = p
  BY HeldItem
<1>3. DOMAIN held' = DOMAIN held /\ held'[p] = n /\ \A q \in DOMAIN held \ {p} : held'[q] = held[q]
  BY DEF Large!Give
<1>4. /\ UsedItems(r.item) \ {b} = UsedItems(item) \ {b} /\ b \in UsedItems(r.item)
      /\ \A x \in UsedItems(item) : x # b => r.item[x].next = item[x].next
      /\ n =< Large!Room(r.item, b)
  BY <1>2
<1> HIDE DEF b
<1>5. OwnedItems(r.item, held')
  <2>1. OneOwner(item, r.item, held, held', b)
    BY <1>2, <1>3, <1>4 DEF OneOwner
  <2> QED BY <2>1, <1>1, <1>2, OwnedItemChange
<1> QED BY <1>3, <1>5, HeldNext

\* Call c of thread t is the only one that changes, and d becomes e.
LEMMA ItemCallsChange ==
    ASSUME NEW k, NEW d, NEW e, NEW t \in Threads, NEW c \in Large!Calls \union {NoCall},
           ItemCalls(k, d),
           c # NoCall => /\ Works(c) \subseteq DOMAIN e
                         /\ c.at = "free" => c.old # NoCall,
           \A u \in Threads : u # t /\ k[u] # NoCall =>
              /\ Works(k[u]) \subseteq DOMAIN e
              /\ c # NoCall => Works(k[u]) \intersect Works(c) = {}
    PROVE  ItemCalls([k EXCEPT ![t] = c], e)
<1> DEFINE l == [k EXCEPT ![t] = c]
<1>1. l \in [Threads -> Large!Calls \union {NoCall}] /\ l[t] = c
      /\ \A u \in Threads : u # t => l[u] = k[u]
  BY DEF ItemCalls
<1> HIDE DEF l
<1>2. ASSUME NEW u \in Threads, l[u] # NoCall
      PROVE  Works(l[u]) \subseteq DOMAIN e /\ (l[u].at = "free" => l[u].old # NoCall)
  <2>1. CASE u = t
    BY <2>1, <1>1, <1>2
  <2>2. CASE u # t
    BY <2>2, <1>1, <1>2 DEF ItemCalls
  <2> QED BY <2>1, <2>2
<1>3. ASSUME NEW u \in Threads, NEW v \in Threads, l[u] # NoCall, l[v] # NoCall, u # v
      PROVE  Works(l[u]) \intersect Works(l[v]) = {}
  <2>1. CASE u = t
    BY <2>1, <1>1, <1>3
  <2>2. CASE v = t
    BY <2>2, <1>1, <1>3
  <2>3. CASE u # t /\ v # t
    BY <2>3, <1>1, <1>3 DEF ItemCalls
  <2> QED BY <2>1, <2>2, <2>3
<1>4. ItemCalls(l, e)
  BY <1>1, <1>2, <1>3 DEF ItemCalls
<1> QED BY <1>4 DEF l

\* A pointer in no call may go and come.
LEMMA ItemCallsKept ==
    ASSUME ItemCalls(call, held), call' = call, NEW p \in Large!Given,
           DOMAIN held \ {p} \subseteq DOMAIN held'
    PROVE  ItemCalls(call, held)'
<1>1. \A t \in Threads : call[t] # NoCall => p \notin Works(call[t])
  BY DEF Large!Given, Large!InCall, Works
<1>2. ItemCalls(call, held')
  BY <1>1 DEF ItemCalls
<1> QED BY <1>2

LEMMA ItemStarts == ASSUME Large!MemHeapAssumption, Large!Init PROVE ItemInv
<1>0. /\ Header \in Nat /\ MinSize \in Nat /\ Header > 0 /\ MinSize > 0 /\ Large!Tailer \in Nat
      /\ 0 < Large!Tailer /\ Header + MinSize =< Large!Tailer /\ PoolSize \in Nat /\ Large!Tailer = PoolSize - Header
  BY PoolLemma
<1> DEFINE new(b) == [used |-> b = Large!Tailer, next |-> Large!Tailer - b, prev |-> Large!Tailer - b]
<1>1. DOMAIN item = {0, Large!Tailer} /\ item[0] = new(0) /\ item[Large!Tailer] = new(Large!Tailer)
  BY DEF Large!Init
<1>2. /\ freeList = <<0>> /\ available = PoolSize - 2 * Header /\ held = << >>
      /\ call = [t \in Threads |-> NoCall]
  BY DEF Large!Init
<1>3. /\ item[0] \in Large!Items /\ item[Large!Tailer] \in Large!Items /\ ~item[0].used /\ item[Large!Tailer].used
      /\ item[0].next = Large!Tailer /\ item[0].prev = Large!Tailer
      /\ item[Large!Tailer].next = 0 /\ item[Large!Tailer].prev = 0
  <2>1. /\ new(0) \in Large!Items /\ new(Large!Tailer) \in Large!Items /\ new(0).next = Large!Tailer
        /\ new(0).prev = Large!Tailer /\ new(Large!Tailer).next = 0 /\ new(Large!Tailer).prev = 0
    BY <1>0 DEF Large!Items
  <2>2. new(0).used = (0 = Large!Tailer) /\ new(Large!Tailer).used = (Large!Tailer = Large!Tailer)
    OBVIOUS
  <2>3. 0 # Large!Tailer /\ Large!Tailer = Large!Tailer
    BY <1>0
  <2> HIDE DEF new
  <2>4. ~new(0).used /\ new(Large!Tailer).used
    BY <2>2, <2>3, Zenon
  <2> QED BY <2>1, <2>4, <1>1
<1> HIDE DEF new
<1>d. DOMAIN item = {0, Large!Tailer}
  BY <1>1
<1>4. Ring(item)
  BY <1>0, <1>d, <1>3 DEF Ring
<1>5. FreeOf(item) = {0} /\ UsedItems(item) = {}
  BY <1>0, <1>d, <1>3 DEF FreeOf, UsedItems
<1>6. Enumerates(freeList, FreeOf(item))
  <2>1. freeList \in Seq({0}) /\ Len(freeList) = 1 /\ freeList[1] = 0 /\ DOMAIN freeList = {1}
    BY <1>2
  <2>2. Range(freeList) = {0}
    BY <2>1 DEF Range
  <2>3. IsInjective(freeList)
    BY <2>1 DEF IsInjective
  <2> QED BY <2>1, <2>2, <2>3, <1>5 DEF Enumerates
<1>7. Apart(item)
  BY <1>d, <1>3 DEF Apart
<1>8. available = Total(item)
  <2>1. {0} \in SUBSET DOMAIN item
    BY <1>d
  <2>2. IsFiniteSet({0}) /\ Rooms(item)[0] = Large!Room(item, 0) /\ Rooms(item)[0] \in Int
        /\ \A b \in {0} : Rooms(item)[b] \in Int
    BY <2>1, <1>4, FreeLemma
  <2> DEFINE w == Rooms(item)
  <2>3. SumFunctionOnSet(w, {}) = 0
        /\ SumFunctionOnSet(w, {0}) = w[0] + SumFunctionOnSet(w, {0} \ {0})
    <3>0. IsFiniteSet({0}) /\ 0 \in {0} /\ \A b \in {0} : w[b] \in Int
      BY <2>2
    <3> HIDE DEF w
    <3>1. SumFunctionOnSet(w, {}) = 0
      <4>1. IsFiniteSet({}) /\ \A b \in {} : w[b] \in Int
        BY FS_EmptySet
      <4> QED BY <4>1, SumLemma
    <3>2. SumFunctionOnSet(w, {0}) = w[0] + SumFunctionOnSet(w, {0} \ {0})
      BY <3>0, SumLemma
    <3> QED BY <3>1, <3>2
  <2>4. {0} \ {0} = {}
    OBVIOUS
  <2>5. Total(item) = Large!Room(item, 0)
    <3>1. Total(item) = SumFunctionOnSet(w, {0})
      BY <1>5 DEF Total
    <3>2. w[0] = Large!Room(item, 0) /\ w[0] \in Int
      BY <2>2
    <3> HIDE DEF w
    <3>3. SumFunctionOnSet(w, {0}) = w[0] + 0
      BY <2>3, <2>4
    <3> QED BY <3>1, <3>2, <3>3
  <2>6. Large!Room(item, 0) = Large!Tailer - 0 - Header
    BY <1>3 DEF Large!Room
  <2> QED BY <2>5, <2>6, <1>0, <1>2
<1>9. Whole(Large!Now)
  <2>1. IsHeap(Large!Now) /\ Large!Now.item = item /\ Large!Now.freeList = freeList /\ Large!Now.available = available
    BY DEF IsHeap, Large!Now
  <2> QED BY <2>1, <1>4, <1>6, <1>7, <1>8 DEF Whole, Listed
<1>10. OwnedItems(item, held)
  BY <1>2, <1>5 DEF OwnedItems
<1>11. ItemCalls(call, held)
  BY <1>2 DEF ItemCalls
<1> QED BY <1>9, <1>10, <1>11 DEF ItemInv, ItemsHeld

LEMMA ItemSteps == ASSUME Large!MemHeapAssumption, ItemInv, [Large!Next]_(Large!vars)
                   PROVE  ItemInv'
<1>0. /\ ItemsHeld /\ ItemCalls(call, held) /\ call \in [Threads -> Large!Calls \union {NoCall}]
      /\ Whole(Large!Now) /\ Large!Now.item = item
  BY RingOfItems DEF ItemInv, ItemsHeld, ItemCalls
<1>1. ASSUME NEW t \in Threads, NEW n \in ItemSizes, Large!AllocCheck(t, n) PROVE ItemInv'
  <2> DEFINE c == [at |-> "take", size |-> n, old |-> NoCall, new |-> NoCall]
  <2>1. /\ call' = [call EXCEPT ![t] = c]
        /\ item' = item /\ freeList' = freeList /\ available' = available /\ held' = held
    BY <1>1 DEF Large!AllocCheck
  <2>2. c \in Large!Calls /\ Works(c) = {} /\ c.at # "free"
    BY DEF Large!Calls, Works
  <2> HIDE DEF c
  <2>3. \A u \in Threads : call[u] # NoCall => Works(call[u]) \subseteq DOMAIN held
    BY <1>0 DEF ItemCalls
  <2>4. ItemCalls([call EXCEPT ![t] = c], held)
    BY <2>2, <2>3, <1>0, ItemCallsChange
  <2>5. ItemsHeld'
    BY <1>0, <2>1 DEF ItemsHeld, Large!Now
  <2> QED BY <2>1, <2>4, <2>5 DEF ItemInv
<1>2. ASSUME NEW t \in Threads, Large!MoveCheck(t) PROVE ItemInv'
  <2> DEFINE c == IF Large!AtLeast(call[t].size) < available THEN [call[t] EXCEPT !.at = "take"]
                  ELSE NoCall
  <2>1. /\ call[t] # NoCall /\ call[t].at = "check"
        /\ item' = item /\ freeList' = freeList /\ available' = available /\ held' = held
    BY <1>2 DEF Large!MoveCheck, Large!At
  <2>2. call' = [call EXCEPT ![t] = c]
    BY <1>2, <1>0 DEF Large!MoveCheck, Large!Leave
  <2>3. call[t] \in Large!Calls
    BY <1>0, <2>1
  <2>4. /\ c \in Large!Calls \union {NoCall}
        /\ c # NoCall => c.old = call[t].old /\ c.new = call[t].new /\ c.at # "free"
    BY <2>3 DEF Large!Calls
  <2> HIDE DEF c
  <2>5. c # NoCall => Works(c) = Works(call[t])
    BY <2>4 DEF Works
  <2>6. \A u \in Threads : call[u] # NoCall => Works(call[u]) \subseteq DOMAIN held
    BY <1>0 DEF ItemCalls
  <2>7. \A u \in Threads : u # t /\ call[u] # NoCall =>
           Works(call[u]) \intersect Works(call[t]) = {}
    BY <1>0, <2>1 DEF ItemCalls
  <2>8. ItemCalls([call EXCEPT ![t] = c], held)
    BY <2>1, <2>4, <2>5, <2>6, <2>7, <1>0, ItemCallsChange
  <2>9. ItemsHeld'
    BY <1>0, <2>1 DEF ItemsHeld, Large!Now
  <2> QED BY <2>1, <2>2, <2>8, <2>9 DEF ItemInv
<1>3. ASSUME NEW t \in Threads, Large!AllocTake(t) PROVE ItemInv'
  <2> DEFINE n == call[t].size
             b == freeList[Min(Large!Fits(Large!AtLeast(n)))]
             p == Large!Pointer(b)
  <2>1. call[t] # NoCall /\ call[t] \in Large!Calls /\ n \in ItemSizes /\ call[t].at = "take"
    BY <1>0, <1>3 DEF Large!AllocTake, Large!At, Large!Calls
  <2>2. /\ \A u \in Threads : call[u] # NoCall => Works(call[u]) \subseteq DOMAIN held
        /\ \A u \in Threads : u # t /\ call[u] # NoCall =>
              Works(call[u]) \intersect Works(call[t]) = {}
    BY <1>0, <2>1 DEF ItemCalls
  <2>3. CASE /\ Large!Fits(Large!AtLeast(n)) = {} /\ call' = [call EXCEPT ![t] = NoCall]
             /\ item' = item /\ freeList' = freeList /\ available' = available /\ held' = held
    <3>1. ItemCalls([call EXCEPT ![t] = NoCall], held)
      BY <2>2, <1>0, ItemCallsChange
    <3>2. ItemsHeld'
      BY <1>0, <2>3 DEF ItemsHeld, Large!Now
    <3> QED BY <2>3, <3>1, <3>2 DEF ItemInv
  <2>4. CASE /\ Large!Fits(Large!AtLeast(n)) # {} /\ Large!Becomes(Large!Allocated(Large!Now, b, Large!AtLeast(n))) /\ Large!Give(p, n)
             /\ IF call[t].old = NoCall THEN Large!Leave(t)
                ELSE call' = [call EXCEPT ![t].at = "free", ![t].new = p]
    <3>1. /\ ItemsHeld' /\ p \notin DOMAIN held /\ p \in 0..PoolSize
          /\ DOMAIN held' = DOMAIN held \union {p}
      BY <1>0, <2>1, <2>4, TakesItem
    <3> DEFINE c == IF call[t].old = NoCall THEN NoCall
                    ELSE [call[t] EXCEPT !.at = "free", !.new = p]
    <3> HIDE DEF p, n
    <3>2. call' = [call EXCEPT ![t] = c]
      BY <1>0, <2>4 DEF Large!Leave
    <3>3. /\ c \in Large!Calls \union {NoCall}
          /\ c # NoCall => /\ c.old = call[t].old /\ c.new = p /\ c.old # NoCall
                           /\ Works(c) \subseteq Works(call[t]) \union {p}
      BY <2>1, <3>1 DEF Large!Calls, Works
    <3> HIDE DEF c
    <3>4. Works(call[t]) \subseteq DOMAIN held
      BY <2>1, <2>2
    <3>5. \A u \in Threads : u # t /\ call[u] # NoCall =>
             /\ Works(call[u]) \subseteq DOMAIN held'
             /\ c # NoCall => Works(call[u]) \intersect Works(c) = {}
      BY <2>2, <3>1, <3>3
    <3>6. ItemCalls([call EXCEPT ![t] = c], held')
      BY <3>1, <3>3, <3>4, <3>5, <1>0, ItemCallsChange
    <3> QED BY <3>1, <3>2, <3>6 DEF ItemInv
  <2> QED BY <1>3, <2>3, <2>4, LargeWords DEF Large!AllocTake, Large!Leave
<1>4. ASSUME NEW p \in DOMAIN held, Large!Free(p) PROVE ItemInv'
  <2>1. /\ p \in Large!Given /\ Large!Becomes(Large!Freed(Large!Now, Large!ItemOf(p)))
        /\ held' = Restrict(held, DOMAIN held \ {p}) /\ call' = call
    BY <1>4, LargeWords DEF Large!Free
  <2>2. ItemsHeld' /\ DOMAIN held' = DOMAIN held \ {p}
    BY <1>0, <2>1, FreesItem
  <2>3. ItemCalls(call, held)'
    BY <1>0, <2>1, <2>2, ItemCallsKept
  <2> QED BY <2>2, <2>3 DEF ItemInv
<1>5. ASSUME NEW p \in DOMAIN held, NEW n \in ItemSizes, Large!Grow(p, n) PROVE ItemInv'
  <2> DEFINE b == Large!ItemOf(p)
             size == Large!AtLeast(n)
             r == Large!Grown(Large!Now, b, size)
  <2>1. /\ p \in Large!Given /\ Large!Growable(p, size) /\ Large!Becomes(r) /\ Large!Give(p, n) /\ call' = call
    BY <1>5 DEF Large!Grow
  <2>2. b \in UsedItems(item)
    BY <1>0, HeldItem
  <2>3. size \in Nat /\ size >= MinSize /\ n =< size /\ n \in 1..PoolSize
    BY AtLeastItem
  <2>4. /\ item[b].next \in FreeOf(item)
        /\ Large!Room(item, item[b].next) + Large!Room(item, b) > size + MinSize
    <3>1. item[b].next \in DOMAIN item
      BY <2>2, <1>0, RingOfItems, ItemLemma DEF UsedItems
    <3> QED BY <3>1, <2>1 DEF Large!Growable, Large!Behind, FreeOf
  <2>5. /\ Whole(r)
        /\ UsedItems(r.item) = UsedItems(item)
        /\ \A x \in UsedItems(item) : x # b => r.item[x].next = item[x].next
        /\ Large!Room(r.item, b) = size
    BY <1>0, <2>2, <2>3, <2>4, GrownItemLemma
  <2> HIDE DEF r, size
  <2>6. ItemsHeld' /\ DOMAIN held' = DOMAIN held
    BY <1>0, <2>1, <2>3, <2>5, ResizesItem
  <2>7. ItemCalls(call, held)'
    BY <1>0, <2>1, <2>6, ItemCallsKept
  <2> QED BY <2>6, <2>7 DEF ItemInv
<1>6. ASSUME NEW p \in DOMAIN held, NEW n \in ItemSizes, Large!Shrink(p, n) PROVE ItemInv'
  <2> DEFINE b == Large!ItemOf(p)
             size == Large!AtLeast(n)
             r == Large!Shrunk(Large!Now, b, size)
  <2>1. /\ p \in Large!Given /\ Large!Becomes(r) /\ Large!Give(p, n) /\ call' = call
        /\ size + Header + MinSize < Large!Room(item, b)
    BY <1>6 DEF Large!Shrink
  <2>2. b \in UsedItems(item)
    BY <1>0, HeldItem
  <2>3. size \in Nat /\ size >= MinSize /\ n =< size /\ n \in 1..PoolSize
    BY AtLeastItem
  <2>5. /\ Whole(r)
        /\ UsedItems(r.item) = UsedItems(item)
        /\ \A x \in UsedItems(item) : x # b => r.item[x].next = item[x].next
        /\ Large!Room(r.item, b) = size
    BY <1>0, <2>1, <2>2, <2>3, ShrunkItemLemma
  <2> HIDE DEF r, size
  <2>6. ItemsHeld' /\ DOMAIN held' = DOMAIN held
    BY <1>0, <2>1, <2>3, <2>5, ResizesItem
  <2>7. ItemCalls(call, held)'
    BY <1>0, <2>1, <2>6, ItemCallsKept
  <2> QED BY <2>6, <2>7 DEF ItemInv
<1>7. ASSUME NEW p \in DOMAIN held, NEW n \in ItemSizes, Large!Keep(p, n) PROVE ItemInv'
  <2> DEFINE b == Large!ItemOf(p)
  <2>1. /\ p \in Large!Given /\ Large!Give(p, n) /\ call' = call /\ Large!AtLeast(n) =< Large!Room(item, b)
        /\ item' = item /\ freeList' = freeList /\ available' = available
    BY <1>7 DEF Large!Keep
  <2>2. b \in UsedItems(item) /\ b \in DOMAIN item
    BY <1>0, HeldItem DEF UsedItems
  <2>3. Large!AtLeast(n) \in Nat /\ n =< Large!AtLeast(n) /\ n \in 1..PoolSize
    BY AtLeastItem
  <2>4. Large!Becomes(Large!Now)
    BY <2>1 DEF Large!Becomes, Large!Now
  <2>5. n =< Large!Room(item, b)
    <3>1. Large!Room(item, b) \in Int
      BY <2>2, <1>0, RingOfItems, ItemLemma
    <3> HIDE DEF b
    <3> QED BY <3>1, <2>1, <2>3, PoolLemma
  <2>6. ItemsHeld' /\ DOMAIN held' = DOMAIN held
    BY <1>0, <2>1, <2>3, <2>4, <2>5, ResizesItem
  <2>7. ItemCalls(call, held)'
    BY <1>0, <2>1, <2>6, ItemCallsKept
  <2> QED BY <2>6, <2>7 DEF ItemInv
<1>8. ASSUME NEW t \in Threads, NEW p \in DOMAIN held, NEW n \in ItemSizes, Large!Move(t, p, n)
      PROVE ItemInv'
  <2> DEFINE c == [at |-> "check", size |-> n, old |-> p, new |-> NoCall]
  <2>1. /\ p \in Large!Given /\ call' = [call EXCEPT ![t] = c]
        /\ item' = item /\ freeList' = freeList /\ available' = available /\ held' = held
    BY <1>8 DEF Large!Move
  <2>2. p \in 0..PoolSize
    BY <1>0, HeldItem
  <2>3. c \in Large!Calls /\ Works(c) \subseteq {p} /\ c.at # "free"
    BY <2>2 DEF Large!Calls, Works
  <2> HIDE DEF c
  <2>4. \A u \in Threads : call[u] # NoCall =>
           Works(call[u]) \subseteq DOMAIN held /\ p \notin Works(call[u])
    BY <1>0, <2>1 DEF ItemCalls, Large!Given, Large!InCall, Works
  <2>5. ItemCalls([call EXCEPT ![t] = c], held)
    <3>1. Works(c) \subseteq DOMAIN held
      BY <2>3
    <3>2. \A u \in Threads : call[u] # NoCall => Works(call[u]) \intersect Works(c) = {}
      BY <2>3, <2>4
    <3> QED BY <2>3, <2>4, <3>1, <3>2, <1>0, ItemCallsChange
  <2>6. ItemsHeld'
    BY <1>0, <2>1 DEF ItemsHeld, Large!Now
  <2> QED BY <2>1, <2>5, <2>6 DEF ItemInv
<1>9. ASSUME NEW t \in Threads, Large!MoveFree(t) PROVE ItemInv'
  <2> DEFINE p == call[t].old
  <2>1. /\ call[t] # NoCall /\ call[t].at = "free" /\ Large!Becomes(Large!Freed(Large!Now, Large!ItemOf(p)))
        /\ held' = Restrict(held, DOMAIN held \ {p}) /\ call' = [call EXCEPT ![t] = NoCall]
    BY <1>9, LargeWords DEF Large!MoveFree, Large!At, Large!Leave
  <2>2. p \in Works(call[t])
    BY <1>0, <2>1 DEF ItemCalls, Works
  <2>3. p \in DOMAIN held
    BY <1>0, <2>1, <2>2 DEF ItemCalls
  <2>4. ItemsHeld' /\ DOMAIN held' = DOMAIN held \ {p}
    BY <1>0, <2>1, <2>3, FreesItem
  <2>5. \A u \in Threads : u # t /\ call[u] # NoCall => Works(call[u]) \subseteq DOMAIN held'
    BY <1>0, <2>1, <2>2, <2>4 DEF ItemCalls
  <2>6. ItemCalls([call EXCEPT ![t] = NoCall], held')
    BY <2>5, <1>0, ItemCallsChange
  <2> QED BY <2>1, <2>4, <2>6 DEF ItemInv
<1>10. CASE UNCHANGED Large!vars
  BY <1>0, <1>10 DEF ItemInv, ItemsHeld, Large!Now, Large!vars
<1> QED BY <1>1, <1>2, <1>3, <1>4, <1>5, <1>6, <1>7, <1>8, <1>9, <1>10 DEF Large!Next

LEMMA ItemInvariant == ASSUME Large!MemHeapAssumption PROVE Large!Spec => []ItemInv
<1>1. Large!Init => ItemInv
  BY ItemStarts
<1>2. ItemInv /\ [Large!Next]_(Large!vars) => ItemInv'
  BY ItemSteps
<1> QED BY <1>1, <1>2, PTL DEF Large!Spec

LEMMA ItemsTiled == ASSUME Large!MemHeapAssumption, ItemInv PROVE Large!Tiled
<1>1. /\ Ring(item) /\ Enumerates(freeList, FreeOf(item)) /\ available = Total(item) /\ Apart(item)
      /\ OwnedItems(item, held) /\ ItemCalls(call, held)
  BY RingOfItems DEF ItemInv, ItemsHeld
<1>2. Large!FreeItems = FreeOf(item)
  BY DEF Large!FreeItems, FreeOf
<1>3. Large!TypeOK
  <2>1. DOMAIN item \subseteq 0..Large!Tailer /\ \A b \in DOMAIN item : item[b] \in Large!Items
    BY <1>1 DEF Ring
  <2>2. freeList \in Seq(DOMAIN item)
    <3>1. freeList \in Seq(FreeOf(item)) /\ FreeOf(item) \subseteq DOMAIN item
      BY <1>1 DEF Enumerates, FreeOf
    <3> QED BY <3>1
  <2>3. available \in 0..PoolSize
    BY <1>1, TotalBound
  <2>4. DOMAIN held \subseteq 0..PoolSize /\ \A p \in DOMAIN held : held[p] \in 1..PoolSize
    BY <1>1 DEF OwnedItems
  <2>5. call \in [Threads -> Large!Calls \union {NoCall}]
    BY <1>1 DEF ItemCalls
  <2> QED BY <2>1, <2>2, <2>3, <2>4, <2>5 DEF Large!TypeOK
<1>4. {0, Large!Tailer} \subseteq DOMAIN item /\ item[Large!Tailer].next = 0
  BY <1>1 DEF Ring
<1>5. ASSUME NEW b \in DOMAIN item \ {Large!Tailer}
      PROVE  /\ item[b].next = Min({c \in DOMAIN item : c > b})
             /\ item[item[b].next].prev = b
             /\ Large!Room(item, b) >= MinSize
             /\ b \in Large!FreeItems => item[b].next \notin Large!FreeItems
  <2> DEFINE S == {c \in DOMAIN item : c > b}
             n == item[b].next
  <2>1. /\ n \in DOMAIN item /\ item[n].prev = b /\ Large!Room(item, b) >= MinSize
        /\ n \in Nat /\ b \in Nat /\ b < n /\ \A c \in DOMAIN item : b < c => n =< c
    BY <1>1, ItemLemma
  <2>2. \A c \in DOMAIN item : c \in Nat
    BY <1>1, ItemLemma
  <2>3. n \in S /\ S \subseteq Nat /\ \A c \in S : n =< c
    <3> HIDE DEF n
    <3> QED BY <2>1, <2>2
  <2>4. Min(S) \in S /\ \A c \in S : Min(S) =< c
    <3> HIDE DEF S, n
    <3> QED BY <2>3, FirstLemma
  <2>5. Min(S) = n
    <3> DEFINE m == Min(S)
    <3>1. m \in S /\ m =< n /\ n =< m /\ m \in Nat
      BY <2>3, <2>4
    <3> HIDE DEF m, n
    <3>2. m = n
      BY <3>1, <2>1
    <3> QED BY <3>2 DEF m
  <2>6. b \in Large!FreeItems => n \notin Large!FreeItems
    BY <1>1, <1>2 DEF FreeOf, Apart
  <2> QED BY <2>1, <2>5, <2>6
<1>6. available = SumFunctionOnSet([b \in DOMAIN item |-> Large!Room(item, b)], Large!FreeItems)
  BY <1>1, <1>2 DEF Total, Rooms
<1>7. IsInjective(freeList) /\ Range(freeList) = Large!FreeItems
  BY <1>1, <1>2 DEF Enumerates
<1> QED BY <1>3, <1>4, <1>5, <1>6, <1>7, LargeWords DEF Large!Tiled

LEMMA ItemsOwned == ASSUME Large!MemHeapAssumption, ItemInv PROVE Large!OwnedOnce
<1>1. OwnedItems(item, held) /\ UsedItems(item) \subseteq Nat
  BY RingOfItems DEF ItemInv, ItemsHeld
<1>2. {Large!ItemOf(p) : p \in DOMAIN held} = UsedItems(item)
  <2>1. \A p \in DOMAIN held : Large!ItemOf(p) \in UsedItems(item)
    BY <1>1 DEF OwnedItems
  <2>2. \A b \in UsedItems(item) : Large!Pointer(b) \in DOMAIN held /\ Large!ItemOf(Large!Pointer(b)) = b
    BY <1>1, ItemPointerLemma DEF OwnedItems
  <2> QED BY <2>1, <2>2
<1>3. \A p \in DOMAIN held : held[p] =< Large!Room(item, Large!ItemOf(p))
  BY <1>1 DEF OwnedItems
<1> QED BY <1>2, <1>3 DEF Large!OwnedOnce, UsedItems

THEOREM ItemsTile == ASSUME Large!MemHeapAssumption PROVE Large!Spec => []Large!Tiled
BY ItemInvariant, ItemsTiled, PTL

THEOREM ItemsHaveOwners == ASSUME Large!MemHeapAssumption PROVE Large!Spec => []Large!OwnedOnce
BY ItemInvariant, ItemsOwned, PTL

-----------------------------------------------------------------------------
(* The slab allocator                                                       *)

\* Who has pages: k.n of them, from k.page on.
Key(kind, who, page, n) == [kind |-> kind, who |-> who, page |-> page, n |-> n]
Span(k) == k.page..k.page + k.n - 1
RunKey(r) == Key("run", r, r.page, r.n)
ZoneKey(z) == Key("zone", z, z, ZonePages)
SpareKey(z) == Key("spare", z, z, ZonePages)
LargeKey(p, n) == Key("large", p, p.page, n)
CallKey(t, r) == Key("call", t, r.page, r.n)
RunKeys(R) == {RunKey(r) : r \in R}
ZoneKeys(Z) == {ZoneKey(z) : z \in Z}
SpareKeys(Z) == {SpareKey(z) : z \in Z}
LargeOf(d) == {p \in DOMAIN d : d[p] \in PageCounts}
LargeKeys(d) == {LargeKey(p, d[p]) : p \in LargeOf(d)}
HasRun(c) == c # NoCall /\ c.run # NoCall
CallKeys(k) == {CallKey(t, k[t].run) : t \in {u \in Threads : HasRun(k[u])}}
Keys(R, Z, Y, d, k) ==
    RunKeys(R) \union ZoneKeys(Z) \union SpareKeys(Y) \union LargeKeys(d) \union CallKeys(k)

Divided(K) ==
    /\ \A k \in K : k.page \in Paged!Pages /\ k.n \in Paged!Pages /\ Span(k) \subseteq Paged!Pages
    /\ \A q \in Paged!Pages : \E k \in K : q \in Span(k)
    /\ \A a, b \in K : a # b => Span(a) \intersect Span(b) = {}

Sorted(l) == l \in Seq(Paged!Runs) /\ \A i, j \in DOMAIN l : i < j => l[i].page + l[i].n < l[j].page

\* memusage leads to the zone from its pages, and tells how many a large block has.
Leads(u, Z, d) ==
    /\ u \in [Paged!Pages -> Paged!Usages]
    /\ \A z \in Z : \A q \in Paged!Area(z, ZonePages) :
          u[q] = [type |-> "small", size |-> q - z]
    /\ \A p \in LargeOf(d) : u[p.page] = [type |-> "large", size |-> d[p]]

\* Chunks of a zone that has header h: the first uindex + 1 were given.
ZoneOk(z, h, d) ==
    /\ h \in Paged!Zones /\ h.uindex < Chunks[h.class]
    /\ h.free \in Seq(0..h.uindex) /\ IsInjective(h.free)
    /\ h.nfree = Chunks[h.class] - 1 - h.uindex + Len(h.free)
    /\ \A i \in 0..Chunks[h.class] - 1 :
          /\ (Paged!Pointer(z, h.class, i) \in DOMAIN d) <=> (i =< h.uindex /\ i \notin Range(h.free))
          /\ Paged!Pointer(z, h.class, i) \in DOMAIN d => d[Paged!Pointer(z, h.class, i)] = h.class

OpenZones(zs, c) == {z \in DOMAIN zs : zs[z].class = c /\ zs[z].nfree > 0}
WholeZones(zs, c) == {z \in DOMAIN zs : zs[z].class = c /\ zs[z].nfree = Chunks[c]}
Zoned(zs, a, d) ==
    /\ DOMAIN zs \subseteq Paged!Pages /\ \A z \in DOMAIN zs : ZoneOk(z, zs[z], d)
    /\ a = [c \in Paged!Classes |-> a[c]]
    /\ \A c \in Paged!Classes : /\ Enumerates(a[c], OpenZones(zs, c))
                                /\ \A x, y \in WholeZones(zs, c) : x = y

Owners(zs, d) ==
    /\ DOMAIN d \subseteq Paged!Pointers
    /\ \A p \in DOMAIN d :
          \/ d[p] \in PageCounts
          \/ d[p] \in Paged!Classes /\ \E z \in DOMAIN zs : \E i \in 0..Chunks[d[p]] - 1 :
                zs[z].class = d[p] /\ p = Paged!Pointer(z, d[p], i)

CallOk(c, d) ==
    /\ c \in Paged!Calls
    /\ c.old # NoCall => c.old \in DOMAIN d
    /\ c.at = "pages" => c.what \in Paged!Classes /\ c.run = NoCall
    /\ c.at = "zone" => c.what \in Paged!Classes /\ c.run \in Paged!Runs /\ c.run.n = ZonePages
    /\ c.at = "free" => c.run = NoCall /\ c.old # NoCall
    /\ c.at = "release" => c.run \in Paged!Runs /\ c.old = NoCall
\* Two calls free two blocks.
OtherOld(b, c) == b # NoCall /\ c # NoCall /\ c.old # NoCall => b.old # c.old
CallsOk(k, d) ==
    /\ k \in [Threads -> Paged!Calls \union {NoCall}]
    /\ \A t \in Threads : k[t] # NoCall => CallOk(k[t], d)
    /\ \A t, u \in Threads : t # u => OtherOld(k[t], k[u])

SlabInv ==
    /\ Sorted(runs)
    /\ Divided(Keys(Range(runs), DOMAIN zones, Range(spare), held, call))
    /\ Leads(usage, DOMAIN zones \union Range(spare), held)
    /\ Enumerates(spare, Range(spare)) /\ Len(spare) =< Threshold
    /\ Zoned(zones, avail, held)
    /\ Owners(zones, held)
    /\ CallsOk(call, held)

-----------------------------------------------------------------------------
(* Pages                                                                    *)

LEMMA PagesLemma ==
    ASSUME Paged!SlabAssumption
    PROVE  /\ LastPage \in Nat /\ LastPage > 0 /\ ZonePages \in Nat /\ ZonePages > 0
           /\ Threshold \in Nat /\ Paged!Pages = 1..LastPage /\ Paged!Pages \subseteq Nat
           /\ \A c \in Paged!Classes : Chunks[c] \in Nat /\ Chunks[c] > 1
           /\ \A n \in PageCounts : n \in Nat /\ n > 0 /\ n \notin Paged!Classes
           /\ NoCall \notin Paged!Runs /\ NoCall \notin Paged!Calls
<1>1. /\ LastPage \in Nat /\ LastPage > 0 /\ ZonePages \in Nat /\ ZonePages > 0
      /\ Threshold \in Nat /\ NoCall \notin Paged!Runs /\ NoCall \notin Paged!Calls
  BY DEF Paged!SlabAssumption
<1>2. \A c \in Paged!Classes : Chunks[c] \in Nat /\ Chunks[c] > 1
  <2>1. \A c \in Paged!Classes : Chunks[c] \in Nat \ {0, 1}
    BY DEF Paged!SlabAssumption
  <2> QED BY <2>1
<1>3. \A n \in PageCounts : n \in Nat /\ n > 0 /\ n \notin Paged!Classes
  BY DEF Paged!SlabAssumption
<1>4. Paged!Pages = 1..LastPage /\ Paged!Pages \subseteq Nat
  BY <1>1 DEF Paged!Pages
<1> QED BY <1>1, <1>2, <1>3, <1>4

\* A page has one holder.
LEMMA OneKey ==
    ASSUME NEW K, Divided(K), NEW a \in K, NEW b \in K, NEW q, q \in Span(a), q \in Span(b)
    PROVE  a = b
BY DEF Divided

\* What A had is divided among B.
Passes(A, B) ==
    /\ \A b \in B : b.page \in Paged!Pages /\ b.n \in Paged!Pages
    /\ \A a, b \in B : a # b => Span(a) \intersect Span(b) = {}
    /\ \A b \in B : \A q \in Span(b) : \E a \in A : q \in Span(a)
    /\ \A a \in A : \A q \in Span(a) : \E b \in B : q \in Span(b)

LEMMA Redivided ==
    ASSUME NEW K, Divided(K), NEW A \in SUBSET K, NEW B, Passes(A, B),
           NEW J, J = (K \ A) \union B
    PROVE  Divided(J)
<1> USE DEF Passes
<1>1. ASSUME NEW k \in J
      PROVE  k.page \in Paged!Pages /\ k.n \in Paged!Pages /\ Span(k) \subseteq Paged!Pages
  <2>1. CASE k \in B
    <3>1. \A q \in Span(k) : \E a \in A : q \in Span(a)
      BY <2>1
    <3>2. \A a \in A : Span(a) \subseteq Paged!Pages
      BY DEF Divided
    <3> QED BY <2>1, <3>1, <3>2
  <2>2. CASE k \in K
    BY <2>2 DEF Divided
  <2> QED BY <2>1, <2>2
<1>2. ASSUME NEW q \in Paged!Pages PROVE \E k \in J : q \in Span(k)
  <2>1. PICK k \in K : q \in Span(k)
    BY DEF Divided
  <2>2. CASE k \in A
    BY <2>1, <2>2
  <2>3. CASE k \notin A
    BY <2>1, <2>3
  <2> QED BY <2>2, <2>3
<1>3. ASSUME NEW a \in J, NEW b \in J, NEW q, q \in Span(a), q \in Span(b) PROVE a = b
  <2>1. ASSUME NEW x \in B, NEW y \in K \ A, q \in Span(x), q \in Span(y) PROVE FALSE
    <3>1. PICK z \in A : q \in Span(z)
      BY <2>1
    <3>2. z = y
      BY <2>1, <3>1, OneKey
    <3> QED BY <2>1, <3>2
  <2>2. CASE a \in B /\ b \in B
    BY <2>2, <1>3
  <2>3. CASE a \in K \ A /\ b \in K \ A
    BY <2>3, <1>3, OneKey
  <2> QED BY <2>1, <2>2, <2>3, <1>3
<1> QED BY <1>1, <1>2, <1>3 DEF Divided

\* What a holder has goes to another.
LEMMA Handed ==
    ASSUME NEW K, Divided(K), NEW a \in K, NEW b, b.page = a.page, b.n = a.n,
           NEW J, J = (K \ {a}) \union {b}
    PROVE  Divided(J)
<1>1. Span(b) = Span(a) /\ a.page \in Paged!Pages /\ a.n \in Paged!Pages
  BY DEF Span, Divided
<1>2. {a} \in SUBSET K
  OBVIOUS
<1>3. Passes({a}, {b})
  BY <1>1 DEF Passes
<1> QED BY <1>2, <1>3, Redivided

\* The first of his pages go to another.
LEMMA HandedFirst ==
    ASSUME Paged!SlabAssumption, NEW K, Divided(K), NEW a \in K, NEW b, NEW c,
           b.page = a.page, b.n \in Nat, b.n >= 1, b.n < a.n,
           c.page = a.page + b.n, c.n = a.n - b.n,
           NEW J, J = (K \ {a}) \union {b, c}
    PROVE  Divided(J)
<1>0. Paged!Pages = 1..LastPage /\ LastPage \in Nat
  BY PagesLemma
<1>1. a.page \in Paged!Pages /\ a.n \in Paged!Pages /\ Span(a) \subseteq Paged!Pages
  BY DEF Divided
<1> DEFINE p == a.page
           n == a.n
           m == b.n
<1>2. p \in Nat /\ n \in Nat /\ m \in Nat /\ m >= 1 /\ m < n /\ p >= 1
  BY <1>0, <1>1
<1>3. p + n - 1 \in Span(a)
  BY <1>2 DEF Span
<1>4. p + n - 1 =< LastPage
  BY <1>0, <1>1, <1>3
<1>5. /\ Span(a) = p..p + n - 1 /\ Span(b) = p..p + m - 1
      /\ Span(c) = p + m..p + m + (n - m) - 1
  BY DEF Span
<1>6. c.page = p + m /\ c.n = n - m /\ b.page = p /\ b.n = m
  OBVIOUS
<1> HIDE DEF p, n, m
<1>7. /\ b.page \in Paged!Pages /\ b.n \in Paged!Pages /\ c.page \in Paged!Pages
      /\ c.n \in Paged!Pages
  BY <1>0, <1>2, <1>4, <1>6
<1>8. Span(c) = p + m..p + n - 1
  BY <1>2, <1>5
<1>9. /\ Span(b) \intersect Span(c) = {}
      /\ \A q \in Span(b) : q \in Span(a)
      /\ \A q \in Span(c) : q \in Span(a)
      /\ \A q \in Span(a) : q \in Span(b) \/ q \in Span(c)
  BY <1>2, <1>5, <1>8
<1>10. {a} \in SUBSET K
  OBVIOUS
<1>11. Passes({a}, {b, c})
  BY <1>7, <1>9 DEF Passes
<1> QED BY <1>10, <1>11, Redivided

LEMMA SpanLemma ==
    ASSUME Paged!SlabAssumption, NEW K, Divided(K), NEW k \in K
    PROVE  /\ k.page \in Nat /\ k.page >= 1 /\ k.n \in Nat /\ k.n >= 1
           /\ k.page + k.n - 1 =< LastPage
           /\ k.page \in Paged!Pages /\ k.n \in Paged!Pages /\ k.page \in Span(k)
           /\ Span(k) \subseteq Paged!Pages
<1>0. Paged!Pages = 1..LastPage /\ LastPage \in Nat
  BY PagesLemma
<1>1. k.page \in Paged!Pages /\ k.n \in Paged!Pages /\ Span(k) \subseteq Paged!Pages
  BY DEF Divided
<1> DEFINE p == k.page
           n == k.n
<1>2. Span(k) = p..p + n - 1
  BY DEF Span
<1>3. p \in Nat /\ p >= 1 /\ n \in Nat /\ n >= 1 /\ p \in Paged!Pages /\ n \in Paged!Pages
  BY <1>0, <1>1
<1> HIDE DEF p, n
<1>4. p \in Span(k) /\ p + n - 1 \in Span(k)
  BY <1>2, <1>3
<1>5. p + n - 1 =< LastPage
  BY <1>0, <1>1, <1>4
<1> QED BY <1>1, <1>3, <1>4, <1>5 DEF p, n

\* A set of places of a list has a last one, if it is not empty.
LEMMA LastLemma ==
    ASSUME NEW n \in Nat, NEW S \in SUBSET (0..n), S # {}
    PROVE  Max(S) \in S /\ \A y \in S : y =< Max(S)
<1> DEFINE T == {n - y : y \in S}
<1>1. T \in SUBSET Nat /\ T # {}
  <2>1. \A y \in S : n - y \in Nat
    OBVIOUS
  <2> QED BY <2>1
<1>2. Min(T) \in T /\ \A y \in T : Min(T) =< y
  BY <1>1, FirstLemma
<1>3. PICK x \in S : Min(T) = n - x
  BY <1>2
<1>4. \A y \in S : n - x =< n - y
  BY <1>2, <1>3
<1>5. \A y \in S : x >= y
  BY <1>4
<1> HIDE DEF T
<1>6. \E m \in S : \A y \in S : m >= y
  BY <1>5
<1>7. Max(S) \in S /\ \A y \in S : Max(S) >= y
  BY <1>6 DEF Max
<1> QED BY <1>7

-----------------------------------------------------------------------------
(* The list of runs                                                         *)

\* The first page behind a run, and the run without its first pages.
PageBehind(r) == r.page + r.n
Rest(r, n) == [page |-> r.page + n, n |-> r.n - n]

LEMMA RunLemma ==
    ASSUME Paged!SlabAssumption, NEW l, Sorted(l), NEW i \in DOMAIN l
    PROVE  /\ l[i] \in Paged!Runs /\ l[i] = [page |-> l[i].page, n |-> l[i].n]
           /\ l[i].page \in Paged!Pages /\ l[i].n \in Paged!Pages /\ l[i] \in Range(l)
           /\ DOMAIN l = 1..Len(l) /\ Len(l) \in Nat /\ l \in Seq(Paged!Runs)
           /\ \A j \in DOMAIN l : i < j => PageBehind(l[i]) < l[j].page
           /\ \A j \in DOMAIN l : j < i => PageBehind(l[j]) < l[i].page
<1>1. l \in Seq(Paged!Runs) /\ DOMAIN l = 1..Len(l) /\ Len(l) \in Nat /\ l[i] \in Paged!Runs
  BY DEF Sorted
<1>2. /\ \A j \in DOMAIN l : i < j => PageBehind(l[i]) < l[j].page
      /\ \A j \in DOMAIN l : j < i => PageBehind(l[j]) < l[i].page
  BY DEF Sorted, PageBehind
<1>3. l[i] = [page |-> l[i].page, n |-> l[i].n] /\ l[i].page \in Paged!Pages
      /\ l[i].n \in Paged!Pages
  BY <1>1 DEF Paged!Runs
<1>4. l[i] \in Range(l)
  BY DEF Range
<1> QED BY <1>1, <1>2, <1>3, <1>4

\* Two places of a list of runs hold two runs.
LEMMA RunsApart ==
    ASSUME Paged!SlabAssumption, NEW l, Sorted(l), NEW i \in DOMAIN l, NEW j \in DOMAIN l,
           l[i] = l[j]
    PROVE  i = j
<1>1. DOMAIN l = 1..Len(l) /\ Len(l) \in Nat /\ l[i].page \in Nat /\ l[i].n \in Nat
  BY RunLemma, PagesLemma
<1>2. ~(i < j)
  BY <1>1, RunLemma DEF PageBehind
<1>3. ~(j < i)
  BY <1>1, RunLemma DEF PageBehind
<1> QED BY <1>1, <1>2, <1>3

\* The runs when the one at i has lost its first n pages.
Without(l, i, n) ==
    (Range(l) \ {l[i]}) \union (IF l[i].n = n THEN {} ELSE {Rest(l[i], n)})

LEMMA TakenLemma ==
    ASSUME Paged!SlabAssumption, Sorted(runs), NEW i \in DOMAIN runs, NEW n \in Nat, n >= 1,
           runs[i].n >= n, PageBehind(runs[i]) =< LastPage + 1
    PROVE  Sorted(Paged!Taken(i, n)) /\ Range(Paged!Taken(i, n)) = Without(runs, i, n)
<1> DEFINE l == runs
           m == Paged!Taken(i, n)
<1>0. /\ LastPage \in Nat /\ Paged!Pages = 1..LastPage
      /\ l \in Seq(Paged!Runs) /\ DOMAIN l = 1..Len(l) /\ Len(l) \in Nat /\ l[i] \in Paged!Runs
      /\ l[i].page \in Nat /\ l[i].page >= 1 /\ l[i].n \in Nat
      /\ l[i] = [page |-> l[i].page, n |-> l[i].n]
  <2>1. LastPage \in Nat /\ Paged!Pages = 1..LastPage
    BY PagesLemma
  <2> QED BY <2>1, RunLemma
<1>1. CASE l[i].n = n
  <2>1. m = RemoveAt(l, i) /\ i \in 1..Len(l)
    BY <1>0, <1>1, PagedWords DEF Paged!Taken
  <2>2. Shorter(m, l, i, Paged!Runs)
    BY <1>0, <2>1, RemoveAtShorter
  <2> HIDE DEF m
  <2>3. /\ m \in Seq(Paged!Runs) /\ DOMAIN m = 1..Len(l) - 1
        /\ \A x \in 1..Len(l) - 1 : m[x] = IF x < i THEN l[x] ELSE l[x+1]
    BY <2>2, <1>0 DEF Shorter
  <2> DEFINE at(x) == IF x < i THEN x ELSE x + 1
  <2>4. \A x \in DOMAIN m : m[x] = l[at(x)] /\ at(x) \in DOMAIN l /\ at(x) # i
    BY <1>0, <2>3
  <2>5. \A x, y \in DOMAIN m : x < y => at(x) < at(y)
    BY <1>0, <2>3
  <2>6. \A y \in DOMAIN l : y # i => \E x \in DOMAIN m : y = at(x)
    <3> SUFFICES ASSUME NEW y \in DOMAIN l, y # i PROVE \E x \in DOMAIN m : y = at(x)
      OBVIOUS
    <3>1. CASE y < i
      <4>1. y \in DOMAIN m /\ y = at(y)
        BY <1>0, <2>3, <3>1
      <4> QED BY <4>1
    <3>2. CASE y > i
      <4>1. y - 1 \in DOMAIN m /\ y = at(y - 1)
        BY <1>0, <2>3, <3>2
      <4> QED BY <4>1
    <3> QED BY <1>0, <3>1, <3>2
  <2> HIDE DEF at
  <2>7. Sorted(m)
    <3>1. \A x, y \in DOMAIN m : x < y => m[x].page + m[x].n < m[y].page
      BY <2>4, <2>5 DEF Sorted
    <3> QED BY <2>3, <3>1 DEF Sorted
  <2>8. ASSUME NEW r PROVE r \in Range(m) <=> (r \in Range(l) /\ r # l[i])
    <3>1. ASSUME r \in Range(m) PROVE r \in Range(l) /\ r # l[i]
      <4>1. PICK x \in DOMAIN m : r = m[x]
        BY <3>1 DEF Range
      <4>2. r = l[at(x)] /\ at(x) \in DOMAIN l /\ at(x) # i
        BY <2>4, <4>1
      <4>3. l[at(x)] # l[i]
        BY <4>2, RunsApart
      <4> QED BY <4>2, <4>3 DEF Range
    <3>2. ASSUME r \in Range(l), r # l[i] PROVE r \in Range(m)
      <4>1. PICK y \in DOMAIN l : r = l[y]
        BY <3>2 DEF Range
      <4>2. PICK x \in DOMAIN m : y = at(x)
        BY <2>6, <4>1, <3>2
      <4> QED BY <2>4, <4>1, <4>2 DEF Range
    <3> QED BY <3>1, <3>2
  <2>9. Range(m) = Range(l) \ {l[i]}
    BY <2>8
  <2> QED BY <1>1, <2>7, <2>9 DEF Without, m
<1>2. CASE l[i].n # n
  <2> DEFINE r == Rest(l[i], n)
  <2>1. m = [l EXCEPT ![i] = r]
    BY <1>2 DEF Paged!Taken, Rest
  <2>2. r.page = l[i].page + n /\ r.n = l[i].n - n /\ r = [page |-> r.page, n |-> r.n]
    BY DEF Rest
  <2>3. r.page \in Paged!Pages /\ r.n \in Paged!Pages
    <3>1. l[i].page + l[i].n =< LastPage + 1 /\ l[i].n >= n
      BY DEF PageBehind
    <3> HIDE DEF r, l
    <3>2. l[i].page + n =< LastPage /\ l[i].n - n >= 1 /\ l[i].n - n =< LastPage
      BY <1>0, <1>2, <3>1
    <3>3. l[i].page + n \in Paged!Pages /\ l[i].n - n \in Paged!Pages
      BY <1>0, <3>2
    <3>4. r.page = l[i].page + n /\ r.n = l[i].n - n
      BY <2>2
    <3> QED BY <3>3, <3>4
  <2> HIDE DEF r, m, l
  <2>a. r \in Paged!Runs
    BY <2>2, <2>3 DEF Paged!Runs
  <2>b. r.page > l[i].page /\ r.page + r.n = l[i].page + l[i].n
    BY <1>0, <2>2
  <2>4. r \in Paged!Runs /\ r.page > l[i].page /\ PageBehind(r) = PageBehind(l[i])
    BY <2>a, <2>b DEF PageBehind
  <2> USE DEF l
  <2>5. m \in Seq(Paged!Runs) /\ DOMAIN m = DOMAIN l /\ m[i] = r /\ \A x \in DOMAIN l : x # i => m[x] = l[x]
    BY <1>0, <2>1, <2>4
  <2>6. \A x, y \in DOMAIN m : x < y => PageBehind(m[x]) < m[y].page
    <3> SUFFICES ASSUME NEW x \in DOMAIN m, NEW y \in DOMAIN m, x < y
                 PROVE  PageBehind(m[x]) < m[y].page
      OBVIOUS
    <3>1. x \in DOMAIN l /\ y \in DOMAIN l /\ PageBehind(l[x]) < l[y].page
      BY <2>5, RunLemma
    <3>2. CASE x = i
      <4>1. y # i /\ m[y] = l[y] /\ m[x] = r
        BY <1>0, <2>5, <3>1, <3>2
      <4> QED BY <2>4, <3>1, <3>2, <4>1
    <3>3. CASE y = i
      <4>1. x # i /\ m[x] = l[x] /\ m[y] = r
        BY <1>0, <2>5, <3>1, <3>3
      <4>2. PageBehind(l[x]) \in Nat
        <5>1. l[x].page \in Nat /\ l[x].n \in Nat
          BY <1>0, <3>1, RunLemma
        <5> QED BY <5>1 DEF PageBehind
      <4> QED BY <1>0, <2>2, <2>4, <3>1, <3>3, <4>1, <4>2
    <3> QED BY <2>5, <3>1, <3>2, <3>3
  <2>7. Sorted(m)
    BY <2>5, <2>6 DEF Sorted, PageBehind
  <2>8. ASSUME NEW x PROVE x \in Range(m) <=> ((x \in Range(l) /\ x # l[i]) \/ x = r)
    <3>1. ASSUME x \in Range(m) PROVE (x \in Range(l) /\ x # l[i]) \/ x = r
      <4>1. PICK y \in DOMAIN m : x = m[y]
        BY <3>1 DEF Range
      <4>2. CASE y # i
        <5>1. x = l[y] /\ y \in DOMAIN l /\ l[y] # l[i]
          BY <2>5, <4>1, <4>2, RunsApart
        <5> QED BY <5>1 DEF Range
      <4> QED BY <2>5, <4>1, <4>2
    <3>2. ASSUME x \in Range(l), x # l[i] PROVE x \in Range(m)
      <4>1. PICK y \in DOMAIN l : x = l[y]
        BY <3>2 DEF Range
      <4> QED BY <2>5, <3>2, <4>1 DEF Range
    <3>3. r \in Range(m)
      BY <2>5 DEF Range
    <3> QED BY <3>1, <3>2, <3>3
  <2>9. Range(m) = (Range(l) \ {l[i]}) \union {r}
    BY <2>8
  <2> QED BY <1>2, <2>7, <2>9 DEF Without, m, r
<1> QED BY <1>1, <1>2

\* l with j for the entries between a and b.
Replaced(l, j, a, b) == SubSeq(l, 1, a) \o <<j>> \o SubSeq(l, b, Len(l))
Replaces(m, l, j, a, b) ==
    /\ Len(m) = a + 1 + (Len(l) + 1 - b) /\ m[a + 1] = j
    /\ \A x \in 1..a : m[x] = l[x]
    /\ \A x \in a + 2..Len(m) : m[x] = l[x - (a + 2) + b]

LEMMA ReplacedLemma ==
    ASSUME NEW S, NEW l \in Seq(S), NEW j \in S, NEW a \in Nat, NEW b \in Nat,
           a < b, b =< Len(l) + 1,
           NEW m, m = Replaced(l, j, a, b)
    PROVE  m \in Seq(S) /\ Replaces(m, l, j, a, b)
<1> DEFINE u == SubSeq(l, 1, a)
           v == SubSeq(l, b, Len(l))
           c == <<j>>
           w == u \o c
           n == Len(l)
<1>0. n \in Nat /\ b =< n + 1
  OBVIOUS
<1>1. u \in Seq(S) /\ Len(u) = a /\ \A x \in 1..a : u[x] = l[x]
  <2>1. \A x \in 1..a : l[x] \in S
    BY <1>0
  <2> QED BY <2>1, SubSeqProperties
<1>2. v \in Seq(S) /\ Len(v) = n + 1 - b /\ \A x \in 1..n + 1 - b : v[x] = l[x + b - 1]
  <2>1. /\ v \in Seq(S)
        /\ Len(v) = IF b <= n THEN n - b + 1 ELSE 0
        /\ \A x \in 1..n - b + 1 : v[x] = l[b + x - 1]
    <3>1. \A x \in b..n : l[x] \in S
      BY <1>0
    <3> QED BY <1>0, <3>1, SubSeqProperties
  <2> HIDE DEF v, n
  <2>2. Len(v) = n + 1 - b
    BY <1>0, <2>1
  <2>3. \A x \in 1..n + 1 - b : v[x] = l[x + b - 1]
    BY <1>0, <2>1
  <2> QED BY <2>1, <2>2, <2>3
<1>3. c \in Seq(S) /\ Len(c) = 1 /\ c[1] = j
  OBVIOUS
<1> HIDE DEF u, v, c, n
<1>4. w \in Seq(S) /\ Len(w) = a + 1 /\ w[a + 1] = j /\ \A x \in 1..a : w[x] = l[x]
  <2>1. /\ w \in Seq(S) /\ Len(w) = Len(u) + Len(c)
        /\ \A x \in 1..Len(u) + Len(c) : w[x] = IF x <= Len(u) THEN u[x] ELSE c[x - Len(u)]
    BY <1>1, <1>3, ConcatProperties
  <2> HIDE DEF w
  <2>2. w[a + 1] = c[1]
    BY <1>1, <1>3, <2>1
  <2>3. \A x \in 1..a : w[x] = u[x]
    BY <1>1, <1>3, <2>1
  <2> QED BY <1>1, <1>3, <2>1, <2>2, <2>3
<1> HIDE DEF w
<1>5. m = w \o v
  BY DEF Replaced, w, u, v, c, n
<1>6. /\ m \in Seq(S) /\ Len(m) = Len(w) + Len(v)
      /\ \A x \in 1..Len(w) + Len(v) : m[x] = IF x <= Len(w) THEN w[x] ELSE v[x - Len(w)]
  <2>1. w \in Seq(S) /\ v \in Seq(S)
    BY <1>2, <1>4
  <2> QED BY <1>5, <2>1, ConcatProperties
<1>7. Len(m) = a + 1 + (n + 1 - b)
  BY <1>2, <1>4, <1>6
<1>8. \A x \in 1..a + 1 : m[x] = w[x]
  BY <1>0, <1>2, <1>4, <1>6
<1>9. ASSUME NEW x \in a + 2..Len(m) PROVE m[x] = l[x - (a + 2) + b]
  <2>1. ~(x <= a + 1) /\ x \in 1..(a + 1) + (n + 1 - b)
    BY <1>0, <1>7
  <2>2. m[x] = v[x - (a + 1)] /\ x - (a + 1) \in 1..n + 1 - b
    BY <1>0, <1>2, <1>4, <1>6, <2>1
  <2>3. (x - (a + 1)) + b - 1 = x - (a + 2) + b
    BY <2>1
  <2> QED BY <1>2, <2>2, <2>3
<1>10. m[a + 1] = j /\ \A x \in 1..a : m[x] = l[x]
  BY <1>4, <1>8
<1> QED BY <1>6, <1>7, <1>9, <1>10 DEF Replaces, n

LEMMA SortedReplaced ==
    ASSUME Paged!SlabAssumption, NEW l, Sorted(l), NEW j \in Paged!Runs, NEW a \in Nat,
           NEW b \in Nat,
           a < b, b =< Len(l) + 1, a > 0 => PageBehind(l[a]) < j.page,
           b =< Len(l) => PageBehind(j) < l[b].page,
           NEW m \in Seq(Paged!Runs), Replaces(m, l, j, a, b)
    PROVE  /\ Sorted(m)
           /\ Range(m) = {l[x] : x \in 1..a} \union {j} \union {l[x] : x \in b..Len(l)}
<1> DEFINE n == Len(l)
           at(x) == x - (a + 2) + b
<1>0. l \in Seq(Paged!Runs) /\ DOMAIN l = 1..n /\ n \in Nat /\ DOMAIN m = 1..Len(m)
  BY DEF Sorted
<1>1. /\ Len(m) = a + 1 + (n + 1 - b) /\ m[a + 1] = j
      /\ \A x \in 1..a : m[x] = l[x]
      /\ \A x \in a + 2..Len(m) : m[x] = l[at(x)]
  BY DEF Replaces
<1>2. \A i \in 1..n : l[i].page \in Nat /\ PageBehind(l[i]) \in Nat /\ l[i].page =< PageBehind(l[i])
  <2> SUFFICES ASSUME NEW i \in 1..n
               PROVE  l[i].page \in Nat /\ PageBehind(l[i]) \in Nat
                      /\ l[i].page =< PageBehind(l[i])
    OBVIOUS
  <2>1. l[i].page \in Nat /\ l[i].n \in Nat
    BY <1>0, RunLemma, PagesLemma
  <2> QED BY <2>1 DEF PageBehind
<1>3. j.page \in Nat /\ PageBehind(j) \in Nat /\ j.page =< PageBehind(j)
  <2>1. j.page \in Nat /\ j.n \in Nat
    BY PagesLemma DEF Paged!Runs
  <2> QED BY <2>1 DEF PageBehind
<1>4. \A x, y \in 1..n : x < y => PageBehind(l[x]) < l[y].page
  BY <1>0, RunLemma
<1>5. \A x \in 1..a : PageBehind(l[x]) < j.page
  <2> SUFFICES ASSUME NEW x \in 1..a PROVE PageBehind(l[x]) < j.page
    OBVIOUS
  <2>1. x \in 1..n /\ a \in 1..n /\ a > 0
    BY <1>0
  <2>2. CASE x = a
    BY <2>1, <2>2
  <2>3. CASE x # a
    <3>1. PageBehind(l[x]) < l[a].page
      BY <1>4, <2>1, <2>3
    <3> QED BY <1>2, <1>3, <2>1, <3>1
  <2> QED BY <2>2, <2>3
<1>6. \A y \in b..n : PageBehind(j) < l[y].page
  <2> SUFFICES ASSUME NEW y \in b..n PROVE PageBehind(j) < l[y].page
    OBVIOUS
  <2>1. y \in 1..n /\ b \in 1..n
    BY <1>0
  <2>2. CASE y = b
    BY <2>1, <2>2
  <2>3. CASE y # b
    <3>1. PageBehind(l[b]) < l[y].page
      BY <1>4, <2>1, <2>3
    <3> QED BY <1>2, <1>3, <2>1, <3>1
  <2> QED BY <2>2, <2>3
<1>7. \A x \in 1..a : x \in 1..n
  BY <1>0
<1>8. \A x \in a + 2..Len(m) : at(x) \in b..n /\ at(x) \in 1..n
  BY <1>0, <1>1
<1>9. \A x, y \in a + 2..Len(m) : x < y => at(x) < at(y)
  BY <1>0, <1>1
<1>10. \A y \in b..n : \E x \in a + 2..Len(m) : at(x) = y
  <2> SUFFICES ASSUME NEW y \in b..n PROVE \E x \in a + 2..Len(m) : at(x) = y
    OBVIOUS
  <2>1. y - b + (a + 2) \in a + 2..Len(m) /\ at(y - b + (a + 2)) = y
    BY <1>0, <1>1
  <2> QED BY <2>1
<1>11. \A x \in DOMAIN m : x \in 1..a \/ x = a + 1 \/ x \in a + 2..Len(m)
  BY <1>0, <1>1
<1>12. /\ \A x \in 1..a : x \in DOMAIN m
       /\ a + 1 \in DOMAIN m
       /\ \A x \in a + 2..Len(m) : x \in DOMAIN m
  BY <1>0, <1>1
<1> HIDE DEF n, at
<1>13. ASSUME NEW x \in DOMAIN m, NEW y \in DOMAIN m, x < y PROVE PageBehind(m[x]) < m[y].page
  <2>1. CASE y \in 1..a
    <3>1. x \in 1..a
      BY <1>0, <1>13, <2>1
    <3> QED BY <1>1, <1>4, <1>7, <1>13, <2>1, <3>1
  <2>2. CASE y = a + 1
    <3>1. x \in 1..a
      BY <1>0, <1>13, <2>2
    <3> QED BY <1>1, <1>5, <2>2, <3>1
  <2>3. CASE y \in a + 2..Len(m)
    <3>1. m[y] = l[at(y)] /\ at(y) \in b..n /\ at(y) \in 1..n
      BY <1>1, <1>8, <2>3
    <3>2. CASE x \in 1..a
      <4>1. PageBehind(l[x]) < j.page /\ PageBehind(j) < l[at(y)].page /\ m[x] = l[x] /\ x \in 1..n
        BY <1>1, <1>5, <1>6, <1>7, <3>1, <3>2
      <4> QED BY <1>2, <1>3, <3>1, <4>1
    <3>3. CASE x = a + 1
      BY <1>1, <1>6, <3>1, <3>3
    <3>4. CASE x \in a + 2..Len(m)
      <4>1. m[x] = l[at(x)] /\ at(x) \in 1..n /\ at(x) < at(y)
        BY <1>1, <1>8, <1>9, <1>13, <2>3, <3>4
      <4> QED BY <1>4, <3>1, <4>1
    <3> QED BY <1>11, <3>2, <3>3, <3>4
  <2> QED BY <1>11, <2>1, <2>2, <2>3
<1>14. Sorted(m)
  BY <1>13 DEF Sorted, PageBehind
<1>15. ASSUME NEW r
       PROVE  r \in Range(m) <=> ((\E x \in 1..a : r = l[x]) \/ r = j \/ (\E x \in b..n : r = l[x]))
  <2>1. ASSUME r \in Range(m)
        PROVE (\E x \in 1..a : r = l[x]) \/ r = j \/ (\E x \in b..n : r = l[x])
    <3>1. PICK x \in DOMAIN m : r = m[x]
      BY <2>1 DEF Range
    <3> QED BY <1>1, <1>8, <1>11, <3>1
  <2>2. ASSUME NEW x \in 1..a, r = l[x] PROVE r \in Range(m)
    BY <1>1, <1>12, <2>2 DEF Range
  <2>3. ASSUME r = j PROVE r \in Range(m)
    BY <1>1, <1>12, <2>3 DEF Range
  <2>4. ASSUME NEW x \in b..n, r = l[x] PROVE r \in Range(m)
    <3>1. PICK y \in a + 2..Len(m) : at(y) = x
      BY <1>10
    <3> QED BY <1>1, <1>12, <2>4, <3>1 DEF Range
  <2> QED BY <2>1, <2>2, <2>3, <2>4
<1>16. Range(m) = {l[x] : x \in 1..a} \union {j} \union {l[x] : x \in b..n}
  BY <1>15
<1> QED BY <1>14, <1>16 DEF n

\* The pages of j are those of r and of the runs of R.
Merges(j, r, R) ==
    /\ j \in Paged!Runs
    /\ \A q : q \in Paged!Area(j.page, j.n) <=>
                (q \in Paged!Area(r.page, r.n) \/ \E x \in R : q \in Paged!Area(x.page, x.n))

\* r has no page of the runs of the list.
Clear(l, r) == \A i \in DOMAIN l : Paged!Area(l[i].page, l[i].n) \intersect Paged!Area(r.page, r.n) = {}

LEMMA ClearLemma ==
    ASSUME Paged!SlabAssumption, NEW x \in Paged!Runs, NEW r \in Paged!Runs,
           Paged!Area(x.page, x.n) \intersect Paged!Area(r.page, r.n) = {}
    PROVE  PageBehind(x) =< r.page \/ PageBehind(r) =< x.page
<1>1. x.page \in Nat /\ x.n \in Nat /\ x.n >= 1 /\ r.page \in Nat /\ r.n \in Nat /\ r.n >= 1
  BY PagesLemma DEF Paged!Runs
<1>2. x.page \notin Paged!Area(r.page, r.n) \/ x.page \notin Paged!Area(x.page, x.n)
  OBVIOUS
<1>3. r.page \notin Paged!Area(r.page, r.n) \/ r.page \notin Paged!Area(x.page, x.n)
  OBVIOUS
<1>4. x.page < r.page \/ x.page > r.page + r.n - 1
  BY <1>1, <1>2 DEF Paged!Area
<1>5. r.page < x.page \/ r.page > x.page + x.n - 1
  BY <1>1, <1>3 DEF Paged!Area
<1> QED BY <1>1, <1>4, <1>5 DEF PageBehind

LEMMA MergesLemma ==
    ASSUME Paged!SlabAssumption, NEW x, NEW r,
           x.page \in Nat, x.n \in Nat, r.page \in Nat, r.n \in Nat, PageBehind(x) = r.page
    PROVE  \A q : q \in Paged!Area(x.page, x.n + r.n) <=>
                (q \in Paged!Area(x.page, x.n) \/ q \in Paged!Area(r.page, r.n))
BY DEF PageBehind, Paged!Area

\* Where a returned run goes: behind the k that begin before it.
PlaceOf(r) == Max({i \in DOMAIN runs : runs[i].page < r.page} \union {0})

LEMMA PlaceLemma ==
    ASSUME Paged!SlabAssumption, Sorted(runs), NEW r \in Paged!Runs, Clear(runs, r), NEW k,
           k = PlaceOf(r)
    PROVE  /\ k \in 0..Len(runs)
           /\ \A i \in DOMAIN runs : i =< k => PageBehind(runs[i]) =< r.page
           /\ \A i \in DOMAIN runs : k < i => PageBehind(r) =< runs[i].page
<1> DEFINE l == runs
           S == {i \in DOMAIN l : l[i].page < r.page} \union {0}
<1>0. /\ DOMAIN l = 1..Len(l) /\ Len(l) \in Nat
      /\ \A i \in DOMAIN l : l[i] \in Paged!Runs
  BY DEF Sorted
<1>1. r.page \in Nat /\ r.n \in Nat /\ r.n >= 1
  BY PagesLemma DEF Paged!Runs
<1>2. \A i \in DOMAIN l : l[i].page \in Nat /\ l[i].n \in Nat /\ l[i].n >= 1
  <2>1. \A i \in DOMAIN l : l[i].page \in Paged!Pages /\ l[i].n \in Paged!Pages
    BY RunLemma
  <2> QED BY <2>1, PagesLemma
<1>3. S \in SUBSET (0..Len(l)) /\ S # {}
  BY <1>0
<1>4. k \in S /\ \A y \in S : y =< k
  <2>1. k = Max(S)
    BY DEF PlaceOf
  <2> HIDE DEF S
  <2> QED BY <1>0, <1>3, <2>1, LastLemma
<1>5. \A i \in DOMAIN l : PageBehind(l[i]) =< r.page \/ PageBehind(r) =< l[i].page
  BY <1>0, ClearLemma DEF Clear
<1>6. k \in 0..Len(l)
  BY <1>3, <1>4
<1>7. ASSUME NEW i \in DOMAIN l, i =< k PROVE PageBehind(l[i]) =< r.page
  <2>1. l[i].page < r.page
    <3>1. k \in DOMAIN l /\ l[k].page < r.page
      <4>1. k # 0
        BY <1>0, <1>6, <1>7
      <4> QED BY <1>4, <4>1
    <3>2. CASE i = k
      BY <3>1, <3>2
    <3>3. CASE i # k
      <4>1. PageBehind(l[i]) < l[k].page
        BY <1>0, <1>6, <1>7, <3>1, <3>3, RunLemma
      <4> QED BY <1>1, <1>2, <3>1, <4>1 DEF PageBehind
    <3> QED BY <3>2, <3>3
  <2>2. l[i].page \in Nat /\ PageBehind(r) > r.page /\ PageBehind(r) \in Nat
    BY <1>1, <1>2 DEF PageBehind
  <2> QED BY <1>1, <1>5, <2>1, <2>2
<1>8. ASSUME NEW i \in DOMAIN l, k < i PROVE PageBehind(r) =< l[i].page
  <2>1. ~(l[i].page < r.page)
    <3>1. i \notin S
      BY <1>0, <1>4, <1>6, <1>8
    <3> QED BY <3>1
  <2>2. l[i].page \in Nat /\ PageBehind(l[i]) > l[i].page /\ PageBehind(l[i]) \in Nat
    BY <1>2 DEF PageBehind
  <2> QED BY <1>1, <1>5, <2>1, <2>2
<1> QED BY <1>6, <1>7, <1>8

\* A run joins the one before it and the one behind it.
TouchesLeft(l, k, r) == k > 0 /\ PageBehind(l[k]) = r.page
TouchesRight(l, k, r) == k < Len(l) /\ PageBehind(r) = l[k + 1].page
LeftEnd(l, k, r) == IF TouchesLeft(l, k, r) THEN k - 1 ELSE k
RightEnd(l, k, r) == IF TouchesRight(l, k, r) THEN k + 2 ELSE k + 1
JoinedLeft(l, k, r) ==
    IF TouchesLeft(l, k, r) THEN [page |-> l[k].page, n |-> l[k].n + r.n] ELSE r
JoinedRun(l, k, r) ==
    LET j == JoinedLeft(l, k, r)
    IN  IF TouchesRight(l, k, r) THEN [page |-> j.page, n |-> j.n + l[k + 1].n] ELSE j
MergedRuns(l, k, r) == {l[x] : x \in LeftEnd(l, k, r) + 1..RightEnd(l, k, r) - 1}

LEMMA JoinedRunLemma ==
    ASSUME Paged!SlabAssumption, Sorted(runs), NEW r \in Paged!Runs, Clear(runs, r), NEW k,
           k = PlaceOf(r),
           PageBehind(r) =< LastPage + 1,
           \A i \in DOMAIN runs : PageBehind(runs[i]) =< LastPage + 1,
           NEW j, j = JoinedRun(runs, k, r), NEW R, R = MergedRuns(runs, k, r)
    PROVE  /\ Merges(j, r, R)
           /\ LeftEnd(runs, k, r) > 0 => PageBehind(runs[LeftEnd(runs, k, r)]) < j.page
           /\ RightEnd(runs, k, r) =< Len(runs) =>
                 PageBehind(j) < runs[RightEnd(runs, k, r)].page
<1> DEFINE l == runs
           n == Len(l)
           i == JoinedLeft(l, k, r)
           a == LeftEnd(l, k, r)
           b == RightEnd(l, k, r)
           left == TouchesLeft(l, k, r)
           right == TouchesRight(l, k, r)
<1>0. /\ DOMAIN l = 1..n /\ n \in Nat /\ \A x \in 1..n : l[x] \in Paged!Runs
      /\ LastPage \in Nat /\ Paged!Pages = 1..LastPage
  BY PagesLemma DEF Sorted
<1>1. /\ r.page \in Nat /\ r.n \in Nat /\ r.n >= 1 /\ r.page >= 1
      /\ r = [page |-> r.page, n |-> r.n]
  BY PagesLemma DEF Paged!Runs
<1>2. /\ \A x \in 1..n : l[x].page \in Nat /\ l[x].page >= 1 /\ l[x].n \in Nat /\ l[x].n >= 1
      /\ \A x, y \in 1..n : x < y => PageBehind(l[x]) < l[y].page
  <2>1. \A x \in DOMAIN l : l[x].page \in Paged!Pages /\ l[x].n \in Paged!Pages
    BY RunLemma
  <2>2. \A x, y \in DOMAIN l : x < y => PageBehind(l[x]) < l[y].page
    BY RunLemma
  <2> QED BY <1>0, <2>1, <2>2
<1>3. /\ k \in 0..n
      /\ \A x \in 1..n : x =< k => PageBehind(l[x]) =< r.page
      /\ \A x \in 1..n : k < x => PageBehind(r) =< l[x].page
  BY <1>0, PlaceLemma
<1>4. /\ \A x \in 1..n : PageBehind(l[x]) = l[x].page + l[x].n /\ PageBehind(l[x]) =< LastPage + 1
      /\ PageBehind(r) = r.page + r.n /\ PageBehind(r) =< LastPage + 1
  BY <1>0 DEF PageBehind
<1>5. /\ left => k \in 1..n /\ a = k - 1 /\ PageBehind(l[k]) = r.page
                 /\ i = [page |-> l[k].page, n |-> l[k].n + r.n]
      /\ ~left => a = k /\ i = r /\ (k > 0 => PageBehind(l[k]) # r.page)
      /\ right => k + 1 \in 1..n /\ b = k + 2 /\ PageBehind(r) = l[k + 1].page
                  /\ j = [page |-> i.page, n |-> i.n + l[k + 1].n]
      /\ ~right => b = k + 1 /\ j = i /\ (k < n => PageBehind(r) # l[k + 1].page)
  BY <1>0, <1>3 DEF LeftEnd, RightEnd, JoinedLeft, JoinedRun, TouchesLeft, TouchesRight
<1>6. R = {l[x] : x \in a + 1..b - 1}
  BY DEF MergedRuns
<1> HIDE DEF l, n, i, a, b, left, right
<1>7. /\ i.page \in Nat /\ i.page >= 1 /\ i.n \in Nat /\ i.n >= 1 /\ PageBehind(i) = PageBehind(r)
      /\ i = [page |-> i.page, n |-> i.n]
      /\ a > 0 => PageBehind(l[a]) < i.page
  <2>1. CASE left
    <3> HIDE DEF PageBehind
    <3>1. i.page = l[k].page /\ i.n = l[k].n + r.n /\ i = [page |-> i.page, n |-> i.n]
      BY <1>5, <2>1
    <3>2. PageBehind(i) = i.page + i.n
      BY DEF PageBehind
    <3>3. i.page + i.n = r.page + r.n
      BY <1>1, <1>2, <1>4, <1>5, <2>1, <3>1
    <3>4. a > 0 => PageBehind(l[a]) < l[k].page
      BY <1>0, <1>2, <1>5, <2>1
    <3> QED BY <1>1, <1>2, <1>4, <1>5, <2>1, <3>1, <3>2, <3>3, <3>4
  <2>2. CASE ~left
    <3>1. i = r /\ a = k /\ (k > 0 => PageBehind(l[k]) # r.page)
      BY <1>5, <2>2
    <3>2. k > 0 => PageBehind(l[k]) =< r.page /\ PageBehind(l[k]) \in Nat
      BY <1>0, <1>2, <1>3, <1>4
    <3> QED BY <1>1, <3>1, <3>2
  <2> QED BY <2>1, <2>2
<1>8. /\ j.page = i.page /\ j.n \in Nat /\ j.n >= 1 /\ PageBehind(j) =< LastPage + 1
      /\ j = [page |-> j.page, n |-> j.n]
      /\ b =< n => PageBehind(j) < l[b].page
  <2>1. CASE right
    <3>1. j.page = i.page /\ j.n = i.n + l[k + 1].n /\ j = [page |-> j.page, n |-> j.n]
      BY <1>5, <2>1
    <3>2. PageBehind(j) = j.page + j.n /\ PageBehind(i) = i.page + i.n
      BY DEF PageBehind
    <3>3. j.page + j.n = PageBehind(l[k + 1]) /\ k + 1 \in 1..n
      BY <1>2, <1>4, <1>5, <1>7, <2>1, <3>1, <3>2
    <3>4. b =< n => PageBehind(l[k + 1]) < l[b].page
      BY <1>0, <1>2, <1>3, <1>5, <2>1
    <3> QED BY <1>2, <1>4, <1>5, <1>7, <2>1, <3>1, <3>2, <3>3, <3>4
  <2>2. CASE ~right
    <3>1. j = i /\ b = k + 1 /\ (k < n => PageBehind(r) # l[k + 1].page)
      BY <1>5, <2>2
    <3>2. k < n => PageBehind(r) =< l[k + 1].page /\ PageBehind(r) \in Nat /\ l[k + 1].page \in Nat
      BY <1>0, <1>1, <1>2, <1>3, <1>4
    <3>3. b =< n => k < n
      BY <1>0, <1>3, <3>1
    <3> QED BY <1>1, <1>4, <1>7, <3>1, <3>2, <3>3
  <2> QED BY <2>1, <2>2
<1>9. j \in Paged!Runs
  <2>1. j.page + j.n =< LastPage + 1
    BY <1>8 DEF PageBehind
  <2>2. j.page \in Paged!Pages /\ j.n \in Paged!Pages
    BY <1>0, <1>7, <1>8, <2>1
  <2> QED BY <1>8, <2>2 DEF Paged!Runs
<1>10. ASSUME NEW q
       PROVE  q \in Paged!Area(j.page, j.n) <=>
                 (q \in Paged!Area(r.page, r.n) \/ \E x \in R : q \in Paged!Area(x.page, x.n))
  <2>1. q \in Paged!Area(i.page, i.n) <=>
           (q \in Paged!Area(r.page, r.n) \/ (left /\ q \in Paged!Area(l[k].page, l[k].n)))
    <3>1. CASE left
      <4>1. /\ i.page = l[k].page /\ i.n = l[k].n + r.n /\ k \in 1..n
            /\ PageBehind(l[k]) = r.page
        BY <1>5, <3>1
      <4>2. \A y : y \in Paged!Area(l[k].page, l[k].n + r.n) <=>
                      (y \in Paged!Area(l[k].page, l[k].n) \/ y \in Paged!Area(r.page, r.n))
        BY <1>1, <1>2, <4>1, MergesLemma
      <4> QED BY <3>1, <4>1, <4>2
    <3>2. CASE ~left
      BY <1>5, <3>2
    <3> QED BY <3>1, <3>2
  <2>2. q \in Paged!Area(j.page, j.n) <=>
           (q \in Paged!Area(i.page, i.n) \/ (right /\ q \in Paged!Area(l[k + 1].page, l[k + 1].n)))
    <3>1. CASE right
      <4>1. /\ j.page = i.page /\ j.n = i.n + l[k + 1].n /\ k + 1 \in 1..n
            /\ PageBehind(i) = l[k + 1].page
        BY <1>5, <1>7, <3>1
      <4>2. \A y : y \in Paged!Area(i.page, i.n + l[k + 1].n) <=>
                      (y \in Paged!Area(i.page, i.n) \/ y \in Paged!Area(l[k + 1].page, l[k + 1].n))
        BY <1>2, <1>7, <4>1, MergesLemma
      <4> QED BY <3>1, <4>1, <4>2
    <3>2. CASE ~right
      BY <1>5, <3>2
    <3> QED BY <3>1, <3>2
  <2>3. \A x : x \in a + 1..b - 1 <=> ((left /\ x = k) \/ (right /\ x = k + 1))
    <3>1. /\ k \in Nat /\ a = IF left THEN k - 1 ELSE k
          /\ b = IF right THEN k + 2 ELSE k + 1
      BY <1>0, <1>3, <1>5
    <3> HIDE DEF a, b, left, right
    <3> QED BY <3>1
  <2>4. \A x : x \in R <=> ((left /\ x = l[k]) \/ (right /\ x = l[k + 1]))
    BY <1>6, <2>3
  <2> QED BY <2>1, <2>2, <2>4
<1> QED BY <1>7, <1>8, <1>9, <1>10 DEF Merges, l, a, b, n

LEMMA ReturnedIs ==
    ASSUME Paged!SlabAssumption, Sorted(runs), NEW r \in Paged!Runs, NEW k, k = PlaceOf(r),
           k \in 0..Len(runs)
    PROVE  Paged!Returned(r) = Replaced(runs, JoinedRun(runs, k, r), LeftEnd(runs, k, r),
                                  RightEnd(runs, k, r))
<1> DEFINE l == runs
           left == k > 0 /\ l[k].page + l[k].n = r.page
           right == k < Len(l) /\ r.page + r.n = l[k + 1].page
           j == [page |-> IF left THEN l[k].page ELSE r.page,
                 n |-> r.n + (IF left THEN l[k].n ELSE 0) + (IF right THEN l[k + 1].n ELSE 0)]
           i == JoinedLeft(l, k, r)
           m == JoinedRun(l, k, r)
<1>0. /\ DOMAIN l = 1..Len(l) /\ Len(l) \in Nat
      /\ r.n \in Nat /\ r = [page |-> r.page, n |-> r.n]
  BY PagesLemma DEF Sorted, Paged!Runs
<1>1. /\ left => k \in 1..Len(l) /\ l[k].n \in Nat
      /\ right => k + 1 \in 1..Len(l) /\ l[k + 1].n \in Nat
  <2>1. \A x \in DOMAIN l : l[x].n \in Nat
    BY RunLemma, PagesLemma
  <2>2. (left => k \in 1..Len(l)) /\ (right => k + 1 \in 1..Len(l))
    BY <1>0
  <2> QED BY <1>0, <2>1, <2>2
<1>2. /\ left <=> TouchesLeft(l, k, r)
      /\ right <=> TouchesRight(l, k, r)
  BY DEF TouchesLeft, TouchesRight, PageBehind
<1>3. Paged!Returned(r) = SubSeq(l, 1, IF left THEN k - 1 ELSE k) \o <<j>>
                    \o SubSeq(l, IF right THEN k + 2 ELSE k + 1, Len(l))
  BY PagedWords DEF Paged!Returned, PlaceOf
<1>4. /\ LeftEnd(l, k, r) = IF left THEN k - 1 ELSE k
      /\ RightEnd(l, k, r) = IF right THEN k + 2 ELSE k + 1
  BY <1>2 DEF LeftEnd, RightEnd
<1>5. /\ i = IF left THEN [page |-> l[k].page, n |-> l[k].n + r.n] ELSE r
      /\ m = IF right THEN [page |-> i.page, n |-> i.n + l[k + 1].n] ELSE i
  BY <1>2 DEF JoinedLeft, JoinedRun
<1>6. j = m
  <2> DEFINE x == l[k]
             y == l[k + 1]
  <2>1. j = [page |-> IF left THEN x.page ELSE r.page,
             n |-> r.n + (IF left THEN x.n ELSE 0) + (IF right THEN y.n ELSE 0)]
    OBVIOUS
  <2>2. /\ i = IF left THEN [page |-> x.page, n |-> x.n + r.n] ELSE r
        /\ m = IF right THEN [page |-> i.page, n |-> i.n + y.n] ELSE i
        /\ left => x.n \in Nat
        /\ right => y.n \in Nat
    BY <1>1, <1>5
  <2> HIDE DEF left, right, j, m, i, x, y
  <2>3. CASE left /\ right
    <3>1. i.page = x.page /\ i.n = x.n + r.n /\ m = [page |-> i.page, n |-> i.n + y.n]
      BY <2>2, <2>3
    <3>2. m = [page |-> x.page, n |-> (x.n + r.n) + y.n]
      BY <3>1
    <3>3. j = [page |-> x.page, n |-> r.n + x.n + y.n]
      BY <2>1, <2>3
    <3>4. (x.n + r.n) + y.n = r.n + x.n + y.n
      BY <1>0, <2>2, <2>3
    <3> QED BY <3>2, <3>3, <3>4
  <2>4. CASE left /\ ~right
    <3>1. m = [page |-> x.page, n |-> x.n + r.n]
      BY <2>2, <2>4
    <3>2. j = [page |-> x.page, n |-> r.n + x.n + 0]
      BY <2>1, <2>4
    <3>3. x.n + r.n = r.n + x.n + 0
      BY <1>0, <2>2, <2>4
    <3> QED BY <3>1, <3>2, <3>3
  <2>5. CASE ~left /\ right
    <3>1. m = [page |-> r.page, n |-> r.n + y.n]
      BY <2>2, <2>5
    <3>2. j = [page |-> r.page, n |-> r.n + 0 + y.n]
      BY <2>1, <2>5
    <3>3. r.n + y.n = r.n + 0 + y.n
      BY <1>0, <2>2, <2>5
    <3> QED BY <3>1, <3>2, <3>3
  <2>6. CASE ~left /\ ~right
    <3>1. m = r
      BY <2>2, <2>6
    <3>2. j = [page |-> r.page, n |-> r.n + 0 + 0]
      BY <2>1, <2>6
    <3>3. r.n = r.n + 0 + 0
      BY <1>0
    <3> QED BY <1>0, <3>1, <3>2, <3>3
  <2> QED BY <2>3, <2>4, <2>5, <2>6
<1> HIDE DEF left, right, j, m
<1>7. Paged!Returned(r) = SubSeq(l, 1, LeftEnd(l, k, r)) \o <<m>>
                    \o SubSeq(l, RightEnd(l, k, r), Len(l))
  BY <1>3, <1>4, <1>6
<1> QED BY <1>7 DEF Replaced, m

LEMMA ReturnedLemma ==
    ASSUME Paged!SlabAssumption, Sorted(runs), NEW r \in Paged!Runs, Clear(runs, r),
           PageBehind(r) =< LastPage + 1,
           \A i \in DOMAIN runs : PageBehind(runs[i]) =< LastPage + 1
    PROVE  \E j \in Paged!Runs : \E R \in SUBSET Range(runs) :
              /\ Merges(j, r, R) /\ Sorted(Paged!Returned(r))
              /\ Range(Paged!Returned(r)) = (Range(runs) \ R) \union {j}
<1> DEFINE l == runs
           n == Len(l)
           k == PlaceOf(r)
           a == LeftEnd(l, k, r)
           b == RightEnd(l, k, r)
           j == JoinedRun(l, k, r)
           R == MergedRuns(l, k, r)
           m == Paged!Returned(r)
<1>0. l \in Seq(Paged!Runs) /\ DOMAIN l = 1..n /\ n \in Nat
  BY DEF Sorted
<1>1. k \in 0..n
  BY PlaceLemma
<1>2. m = Replaced(l, j, a, b)
  BY <1>1, ReturnedIs
<1>3. /\ Merges(j, r, R)
      /\ a > 0 => PageBehind(l[a]) < j.page
      /\ b =< n => PageBehind(j) < l[b].page
  BY JoinedRunLemma
<1>4. a \in Nat /\ b \in Nat /\ a < b /\ b =< n + 1
  BY <1>0, <1>1 DEF LeftEnd, RightEnd, TouchesLeft, TouchesRight
<1>5. j \in Paged!Runs
  BY <1>3 DEF Merges
<1>6. R = {l[x] : x \in a + 1..b - 1}
  BY DEF MergedRuns
<1> HIDE DEF k, a, b, j, R, m, n
<1>7. m \in Seq(Paged!Runs) /\ Replaces(m, l, j, a, b)
  BY <1>0, <1>2, <1>4, <1>5, ReplacedLemma DEF n
<1>8. /\ Sorted(m)
      /\ Range(m) = {l[x] : x \in 1..a} \union {j} \union {l[x] : x \in b..n}
  BY <1>3, <1>4, <1>5, <1>7, SortedReplaced DEF n
<1>9. R \in SUBSET Range(l)
  <2>1. \A x \in a + 1..b - 1 : x \in DOMAIN l
    BY <1>0, <1>4
  <2> QED BY <1>6, <2>1 DEF Range
<1>10. ASSUME NEW x
       PROVE  x \in Range(m) <=> ((x \in Range(l) /\ x \notin R) \/ x = j)
  <2>1. ASSUME NEW y \in 1..n, y \in 1..a \/ y \in b..n, x = l[y]
        PROVE  x \in Range(l) /\ x \notin R
    <3>1. y \notin a + 1..b - 1 /\ y \in DOMAIN l
      BY <1>0, <1>4, <2>1
    <3>2. ASSUME NEW z \in a + 1..b - 1, l[z] = x PROVE FALSE
      <4>1. z \in DOMAIN l
        BY <1>0, <1>4
      <4>2. z = y
        BY <2>1, <3>1, <3>2, <4>1, RunsApart
      <4> QED BY <3>1, <4>2
    <3> QED BY <1>6, <2>1, <3>1, <3>2 DEF Range
  <2>2. (\A y \in 1..a : y \in 1..n) /\ (\A y \in b..n : y \in 1..n)
    BY <1>0, <1>4
  <2>3. ASSUME x \in Range(m) PROVE (x \in Range(l) /\ x \notin R) \/ x = j
    <3>1. (\E y \in 1..a : x = l[y]) \/ x = j \/ (\E y \in b..n : x = l[y])
      BY <1>8, <2>3
    <3> QED BY <2>1, <2>2, <3>1
  <2>4. ASSUME x \in Range(l), x \notin R PROVE x \in Range(m)
    <3>1. PICK y \in DOMAIN l : x = l[y]
      BY <2>4 DEF Range
    <3>2. y \notin a + 1..b - 1
      BY <1>6, <2>4, <3>1
    <3>3. y \in 1..a \/ y \in b..n
      BY <1>0, <1>4, <3>1, <3>2
    <3> QED BY <1>8, <3>1, <3>3
  <2> QED BY <1>8, <2>3, <2>4
<1>11. Range(m) = (Range(l) \ R) \union {j}
  BY <1>10
<1> QED BY <1>3, <1>5, <1>8, <1>9, <1>11 DEF m

-----------------------------------------------------------------------------
(* Chunks and what callers have                                             *)

LEMMA ShareLemma ==
    ASSUME NEW m \in Nat, NEW n \in Nat, n > 0, NEW i \in Nat, i < n
    PROVE  m > 0 => (i * m) \div n \in 0..m - 1
<1> SUFFICES ASSUME m > 0 PROVE (i * m) \div n \in 0..m - 1
  OBVIOUS
<1> DEFINE x == i * m
           q == x \div n
<1>1. x \in Nat /\ x < n * m
  <2>1. (n - i) * m > 0
    <3>1. n - i >= 1 /\ n - i \in Nat
      OBVIOUS
    <3> HIDE DEF x, q
    <3>2. \A d \in Nat : d >= 1 => d * m > 0
      OBVIOUS
    <3> QED BY <3>1, <3>2
  <2>2. (n - i) * m = n * m - i * m
    OBVIOUS
  <2> QED BY <2>1, <2>2
<1>2. q \in Nat /\ n * q =< x
  <2> HIDE DEF x
  <2> QED BY <1>1
<1>3. n * m > n * q
  <2>1. n * m \in Nat /\ n * q \in Nat
    BY <1>2
  <2> HIDE DEF q, x
  <2> QED BY <1>1, <1>2, <2>1
<1>4. q < m
  <2> SUFFICES ASSUME q >= m PROVE FALSE
    BY <1>2
  <2> HIDE DEF q, x
  <2>1. n * (q - m) >= 0
    <3>1. q - m \in Nat
      BY <1>2
    <3>2. \A d \in Nat : n * d >= 0
      OBVIOUS
    <3> QED BY <3>1, <3>2
  <2>2. n * (q - m) = n * q - n * m
    BY <1>2
  <2>3. n * q \in Nat /\ n * m \in Nat
    BY <1>2
  <2> DEFINE a == n * q
             b == n * m
             d == n * (q - m)
  <2>4. d >= 0 /\ d = a - b /\ a \in Nat /\ b \in Nat /\ b > a
    BY <1>3, <2>1, <2>2, <2>3
  <2> HIDE DEF a, b, d
  <2> QED BY <2>4
<1> QED BY <1>2, <1>4

\* A chunk begins on a page of its zone.
LEMMA ChunkLemma ==
    ASSUME Paged!SlabAssumption, NEW z \in Paged!Pages, NEW c \in Paged!Classes,
           NEW i \in 0..Chunks[c] - 1
    PROVE  /\ Paged!PageOf(z, c, i) \in Paged!Area(z, ZonePages)
           /\ Paged!Pointer(z, c, i).page = Paged!PageOf(z, c, i)
           /\ Paged!Pointer(z, c, i).chunk = i
           /\ i \in Nat
<1>1. /\ Chunks[c] \in Nat /\ Chunks[c] > 0 /\ ZonePages \in Nat /\ ZonePages > 0
      /\ z \in Nat
  BY PagesLemma
<1> DEFINE s == (i * ZonePages) \div Chunks[c]
<1>2. s \in 0..ZonePages - 1
  BY <1>1, ShareLemma
<1>3. Paged!PageOf(z, c, i) = z + s
  BY DEF Paged!PageOf
<1> HIDE DEF s
<1>4. Paged!PageOf(z, c, i) \in Paged!Area(z, ZonePages)
  BY <1>1, <1>2, <1>3 DEF Paged!Area
<1> QED BY <1>1, <1>4 DEF Paged!Pointer

LEMMA AreaLemma ==
    ASSUME NEW kind, NEW who, NEW p, NEW n
    PROVE  /\ Span(Key(kind, who, p, n)) = Paged!Area(p, n)
           /\ Key(kind, who, p, n).page = p /\ Key(kind, who, p, n).n = n
           /\ Key(kind, who, p, n).kind = kind /\ Key(kind, who, p, n).who = who
BY DEF Key, Span, Paged!Area

\* Free chunks of a zone: all that were given if there are as many.
LEMMA AllFreeLemma ==
    ASSUME NEW n \in Nat, NEW list \in Seq(0..n), IsInjective(list)
    PROVE  /\ Len(list) =< n + 1
           /\ Len(list) = n + 1 <=> Range(list) = 0..n
<1> DEFINE D == 1..Len(list)
           T == 0..n
<1>1. Len(list) \in Nat /\ DOMAIN list = D /\ \A x \in D : list[x] \in T
  OBVIOUS
<1>2. list \in [D -> T] /\ \A a, b \in D : list[a] = list[b] => a = b
  BY <1>1 DEF IsInjective
<1>3. list \in Injection(D, T)
  BY <1>2 DEF Injection
<1>4. IsFiniteSet(T) /\ Cardinality(T) = n + 1
  <2>1. IsFiniteSet(T) /\ Cardinality(T) = IF 0 > n THEN 0 ELSE n - 0 + 1
    BY FS_Interval
  <2> HIDE DEF T
  <2> QED BY <2>1
<1>5. IsFiniteSet(D) /\ Cardinality(D) = Len(list)
  <2> DEFINE m == Len(list)
  <2>0. m \in Nat /\ D = 1..m
    BY <1>1
  <2> HIDE DEF D, m
  <2>1. IsFiniteSet(D) /\ Cardinality(D) = IF 1 > m THEN 0 ELSE m - 1 + 1
    BY <2>0, FS_Interval
  <2>2. Cardinality(D) = m
    BY <2>0, <2>1
  <2> QED BY <2>1, <2>2 DEF m
<1> HIDE DEF T, D
<1>6. /\ Cardinality(D) =< Cardinality(T)
      /\ Cardinality(D) = Cardinality(T) <=> list \in Surjection(D, T)
  BY <1>3, <1>4, FS_Injection
<1>7. list \in Surjection(D, T) <=> Range(list) = T
  <2>1. list \in Surjection(D, T) => T \subseteq Range(list)
    BY <1>1, <1>2 DEF Surjection, Range
  <2>2. Range(list) \subseteq T
    BY <1>1 DEF Range
  <2>3. Range(list) = T => list \in Surjection(D, T)
    BY <1>1, <1>2 DEF Surjection, Range
  <2> QED BY <2>1, <2>2, <2>3
<1> QED BY <1>4, <1>5, <1>6, <1>7 DEF T

-----------------------------------------------------------------------------
(* How the holders of pages change                                          *)

\* N is M with B for A.
Swaps(N, M, A, B) == A \subseteq M /\ N = (M \ A) \union B

LEMMA Stays == ASSUME NEW M PROVE Swaps(M, M, {}, {})
BY DEF Swaps

Kinds(K, kind) == \A k \in K : k.kind = kind

LEMMA KindsLemma ==
    ASSUME NEW R, NEW Z, NEW Y, NEW d, NEW k
    PROVE  /\ Kinds(RunKeys(R), "run") /\ Kinds(ZoneKeys(Z), "zone")
           /\ Kinds(SpareKeys(Y), "spare") /\ Kinds(LargeKeys(d), "large")
           /\ Kinds(CallKeys(k), "call")
<1>1. Kinds(RunKeys(R), "run")
  BY AreaLemma DEF Kinds, RunKeys, RunKey
<1>2. Kinds(ZoneKeys(Z), "zone")
  BY AreaLemma DEF Kinds, ZoneKeys, ZoneKey
<1>3. Kinds(SpareKeys(Y), "spare")
  BY AreaLemma DEF Kinds, SpareKeys, SpareKey
<1>4. Kinds(LargeKeys(d), "large")
  BY AreaLemma DEF Kinds, LargeKeys, LargeKey
<1>5. Kinds(CallKeys(k), "call")
  BY AreaLemma DEF Kinds, CallKeys, CallKey
<1> QED BY <1>1, <1>2, <1>3, <1>4, <1>5

\* Each kind of holders may change.
LEMMA KeysChange ==
    ASSUME NEW R, NEW Z, NEW Y, NEW d, NEW k, NEW R1, NEW Z1, NEW Y1, NEW d1, NEW k1,
           NEW A1, NEW A2, NEW A3, NEW A4, NEW A5, NEW B1, NEW B2, NEW B3, NEW B4, NEW B5,
           Swaps(RunKeys(R1), RunKeys(R), A1, B1), Swaps(ZoneKeys(Z1), ZoneKeys(Z), A2, B2),
           Swaps(SpareKeys(Y1), SpareKeys(Y), A3, B3),
           Swaps(LargeKeys(d1), LargeKeys(d), A4, B4),
           Swaps(CallKeys(k1), CallKeys(k), A5, B5),
           NEW A, A = A1 \union A2 \union A3 \union A4 \union A5,
           NEW B, B = B1 \union B2 \union B3 \union B4 \union B5
    PROVE  Swaps(Keys(R1, Z1, Y1, d1, k1), Keys(R, Z, Y, d, k), A, B)
<1> DEFINE U1 == RunKeys(R)
           U2 == ZoneKeys(Z)
           U3 == SpareKeys(Y)
           U4 == LargeKeys(d)
           U5 == CallKeys(k)
           V1 == RunKeys(R1)
           V2 == ZoneKeys(Z1)
           V3 == SpareKeys(Y1)
           V4 == LargeKeys(d1)
           V5 == CallKeys(k1)
<1>1. /\ \A x \in U1 : x.kind = "run"
      /\ \A x \in U2 : x.kind = "zone"
      /\ \A x \in U3 : x.kind = "spare"
      /\ \A x \in U4 : x.kind = "large"
      /\ \A x \in U5 : x.kind = "call"
  BY KindsLemma DEF Kinds
<1>2. /\ Keys(R, Z, Y, d, k) = U1 \union U2 \union U3 \union U4 \union U5
      /\ Keys(R1, Z1, Y1, d1, k1) = V1 \union V2 \union V3 \union V4 \union V5
  BY DEF Keys
<1> HIDE DEF U1, U2, U3, U4, U5, V1, V2, V3, V4, V5
<1>3. /\ A1 \subseteq U1 /\ V1 = (U1 \ A1) \union B1
      /\ A2 \subseteq U2 /\ V2 = (U2 \ A2) \union B2
      /\ A3 \subseteq U3 /\ V3 = (U3 \ A3) \union B3
      /\ A4 \subseteq U4 /\ V4 = (U4 \ A4) \union B4
      /\ A5 \subseteq U5 /\ V5 = (U5 \ A5) \union B5
  BY DEF Swaps, U1, U2, U3, U4, U5, V1, V2, V3, V4, V5
<1>4. A \subseteq U1 \union U2 \union U3 \union U4 \union U5
  BY <1>3
<1>5. /\ \A x \in U1 : x \in A <=> x \in A1
      /\ \A x \in U2 : x \in A <=> x \in A2
      /\ \A x \in U3 : x \in A <=> x \in A3
      /\ \A x \in U4 : x \in A <=> x \in A4
      /\ \A x \in U5 : x \in A <=> x \in A5
  <2>1. /\ \A x \in A1 : x.kind = "run"
        /\ \A x \in A2 : x.kind = "zone"
        /\ \A x \in A3 : x.kind = "spare"
        /\ \A x \in A4 : x.kind = "large"
        /\ \A x \in A5 : x.kind = "call"
    BY <1>1, <1>3
  <2>2. \A x \in A : x \in A1 \/ x \in A2 \/ x \in A3 \/ x \in A4 \/ x \in A5
    OBVIOUS
  <2>3. A1 \subseteq A /\ A2 \subseteq A /\ A3 \subseteq A /\ A4 \subseteq A /\ A5 \subseteq A
    OBVIOUS
  <2>4. \A x \in U1 : x \in A <=> x \in A1
    BY <1>1, <2>1, <2>2, <2>3
  <2>5. \A x \in U2 : x \in A <=> x \in A2
    BY <1>1, <2>1, <2>2, <2>3
  <2>6. \A x \in U3 : x \in A <=> x \in A3
    BY <1>1, <2>1, <2>2, <2>3
  <2>7. \A x \in U4 : x \in A <=> x \in A4
    BY <1>1, <2>1, <2>2, <2>3
  <2>8. \A x \in U5 : x \in A <=> x \in A5
    BY <1>1, <2>1, <2>2, <2>3
  <2> QED BY <2>4, <2>5, <2>6, <2>7, <2>8
<1>6. /\ U1 \ A1 = U1 \ A /\ U2 \ A2 = U2 \ A /\ U3 \ A3 = U3 \ A
      /\ U4 \ A4 = U4 \ A /\ U5 \ A5 = U5 \ A
  BY <1>5
<1>7. V1 \union V2 \union V3 \union V4 \union V5
      = ((U1 \union U2 \union U3 \union U4 \union U5) \ A) \union B
  BY <1>3, <1>6
<1> QED BY <1>2, <1>4, <1>7 DEF Swaps

\* Runs, zones and spare zones come and go.
LEMMA RunsMove ==
    ASSUME NEW R, NEW S \in SUBSET R, NEW T, NEW R1, R1 = (R \ S) \union T
    PROVE  Swaps(RunKeys(R1), RunKeys(R), RunKeys(S), RunKeys(T))
<1>1. \A x, y : RunKey(x) = RunKey(y) => x = y
  BY AreaLemma DEF RunKey
<1> QED BY <1>1 DEF Swaps, RunKeys

LEMMA ZonesMove ==
    ASSUME NEW R, NEW S \in SUBSET R, NEW T, NEW R1, R1 = (R \ S) \union T
    PROVE  Swaps(ZoneKeys(R1), ZoneKeys(R), ZoneKeys(S), ZoneKeys(T))
<1>1. \A x, y : ZoneKey(x) = ZoneKey(y) => x = y
  BY AreaLemma DEF ZoneKey
<1> QED BY <1>1 DEF Swaps, ZoneKeys

LEMMA SparesMove ==
    ASSUME NEW R, NEW S \in SUBSET R, NEW T, NEW R1, R1 = (R \ S) \union T
    PROVE  Swaps(SpareKeys(R1), SpareKeys(R), SpareKeys(S), SpareKeys(T))
<1>1. \A x, y : SpareKey(x) = SpareKey(y) => x = y
  BY AreaLemma DEF SpareKey
<1> QED BY <1>1 DEF Swaps, SpareKeys

\* A caller gets a block, and gives one back.
WithBlock(d, p, w) == [x \in DOMAIN d \union {p} |-> IF x = p THEN w ELSE d[x]]
WithoutBlock(d, p) == [x \in DOMAIN d \ {p} |-> d[x]]
LargeGiven(p, w) == IF w \in PageCounts THEN {LargeKey(p, w)} ELSE {}
LargeDropped(d, p) == IF d[p] \in PageCounts THEN {LargeKey(p, d[p])} ELSE {}

LEMMA GivenMoves ==
    ASSUME NEW d, NEW p, p \notin DOMAIN d, NEW w
    PROVE  Swaps(LargeKeys(WithBlock(d, p, w)), LargeKeys(d), {}, LargeGiven(p, w))
<1> DEFINE e == WithBlock(d, p, w)
<1>1. DOMAIN e = DOMAIN d \union {p} /\ e[p] = w /\ \A x \in DOMAIN d : e[x] = d[x]
  BY DEF WithBlock
<1> HIDE DEF e
<1>2. ASSUME NEW k PROVE k \in LargeKeys(e) <=> (k \in LargeKeys(d) \/ k \in LargeGiven(p, w))
  <2>1. k \in LargeKeys(e) <=>
           \E x \in DOMAIN d \union {p} : e[x] \in PageCounts /\ k = LargeKey(x, e[x])
    BY <1>1 DEF LargeKeys, LargeOf
  <2>2. k \in LargeKeys(d) <=> \E x \in DOMAIN d : d[x] \in PageCounts /\ k = LargeKey(x, d[x])
    BY DEF LargeKeys, LargeOf
  <2>3. k \in LargeGiven(p, w) <=> (w \in PageCounts /\ k = LargeKey(p, w))
    BY DEF LargeGiven
  <2> QED BY <1>1, <2>1, <2>2, <2>3
<1>3. LargeKeys(e) = (LargeKeys(d) \ {}) \union LargeGiven(p, w)
  BY <1>2
<1> QED BY <1>3 DEF Swaps, e

LEMMA DroppedMoves ==
    ASSUME NEW d, NEW p \in DOMAIN d
    PROVE  Swaps(LargeKeys(WithoutBlock(d, p)), LargeKeys(d), LargeDropped(d, p), {})
<1> DEFINE e == WithoutBlock(d, p)
<1>1. DOMAIN e = DOMAIN d \ {p} /\ \A x \in DOMAIN e : e[x] = d[x]
  BY DEF WithoutBlock
<1> HIDE DEF e
<1>0. \A x, y, m, n : LargeKey(x, m) = LargeKey(y, n) => x = y
  BY AreaLemma DEF LargeKey
<1>2. ASSUME NEW k
      PROVE k \in LargeKeys(e) <=> (k \in LargeKeys(d) /\ k \notin LargeDropped(d, p))
  <2>1. k \in LargeKeys(e) <=>
           \E x \in DOMAIN d \ {p} : d[x] \in PageCounts /\ k = LargeKey(x, d[x])
    BY <1>1 DEF LargeKeys, LargeOf
  <2>2. k \in LargeKeys(d) <=> \E x \in DOMAIN d : d[x] \in PageCounts /\ k = LargeKey(x, d[x])
    BY DEF LargeKeys, LargeOf
  <2>3. k \in LargeDropped(d, p) <=> (d[p] \in PageCounts /\ k = LargeKey(p, d[p]))
    BY DEF LargeDropped
  <2> QED BY <1>0, <2>1, <2>2, <2>3
<1>3. LargeKeys(e) = (LargeKeys(d) \ LargeDropped(d, p)) \union {}
  BY <1>2
<1>4. LargeDropped(d, p) \subseteq LargeKeys(d)
  BY DEF LargeDropped, LargeKeys, LargeOf
<1> QED BY <1>3, <1>4 DEF Swaps, e

\* A call goes on.
OwnKey(t, c) == IF HasRun(c) THEN {CallKey(t, c.run)} ELSE {}

LEMMA CallMoves ==
    ASSUME NEW k, NEW t \in Threads, k = [u \in Threads |-> k[u]], NEW c,
           NEW k1, k1 = [k EXCEPT ![t] = c]
    PROVE  Swaps(CallKeys(k1), CallKeys(k), OwnKey(t, k[t]), OwnKey(t, c))
<1>1. k1[t] = c /\ \A u \in Threads : u # t => k1[u] = k[u]
  OBVIOUS
<1>0. \A x, y, m, n : CallKey(x, m) = CallKey(y, n) => x = y
  BY AreaLemma DEF CallKey
<1>2. ASSUME NEW x
      PROVE  x \in CallKeys(k1) <=>
                ((x \in CallKeys(k) /\ x \notin OwnKey(t, k[t])) \/ x \in OwnKey(t, c))
  <2>1. x \in CallKeys(k1) <=> \E u \in Threads : HasRun(k1[u]) /\ x = CallKey(u, k1[u].run)
    BY DEF CallKeys
  <2>2. x \in CallKeys(k) <=> \E u \in Threads : HasRun(k[u]) /\ x = CallKey(u, k[u].run)
    BY DEF CallKeys
  <2>3. x \in OwnKey(t, k[t]) <=> (HasRun(k[t]) /\ x = CallKey(t, k[t].run))
    BY DEF OwnKey
  <2>4. x \in OwnKey(t, c) <=> (HasRun(c) /\ x = CallKey(t, c.run))
    BY DEF OwnKey
  <2> QED BY <1>0, <1>1, <2>1, <2>2, <2>3, <2>4
<1>3. OwnKey(t, k[t]) \subseteq CallKeys(k)
  BY DEF OwnKey, CallKeys
<1> QED BY <1>2, <1>3 DEF Swaps

-----------------------------------------------------------------------------
(* Calls                                                                    *)

LEMMA CallsChange ==
    ASSUME NEW k, NEW d, NEW e, CallsOk(k, d), NEW t \in Threads, NEW c,
           c = NoCall \/ (CallOk(c, e) /\ c \in Paged!Calls),
           \A u \in Threads : u # t /\ k[u] # NoCall =>
              /\ k[u].old # NoCall => k[u].old \in DOMAIN e
              /\ OtherOld(k[u], c),
           NEW k1, k1 = [k EXCEPT ![t] = c]
    PROVE  CallsOk(k1, e)
<1>1. /\ k \in [Threads -> Paged!Calls \union {NoCall}]
      /\ \A u \in Threads : k[u] # NoCall => CallOk(k[u], d)
      /\ \A u, v \in Threads : u # v => OtherOld(k[u], k[v])
  BY DEF CallsOk
<1>2. k1 \in [Threads -> Paged!Calls \union {NoCall}] /\ k1[t] = c /\ \A u \in Threads : u # t => k1[u] = k[u]
  BY <1>1
<1>3. ASSUME NEW u \in Threads, k1[u] # NoCall PROVE CallOk(k1[u], e)
  <2>1. CASE u = t
    BY <1>2, <1>3, <2>1
  <2>2. CASE u # t
    <3>1. k1[u] = k[u] /\ k[u] # NoCall
      BY <1>2, <1>3, <2>2
    <3>2. CallOk(k[u], d) /\ (k[u].old # NoCall => k[u].old \in DOMAIN e)
      BY <1>1, <2>2, <3>1
    <3>3. CallOk(k[u], e)
      BY <3>2 DEF CallOk
    <3> QED BY <3>1, <3>3
  <2> QED BY <2>1, <2>2
<1>4. ASSUME NEW u \in Threads, NEW v \in Threads, u # v PROVE OtherOld(k1[u], k1[v])
  <2>1. CASE u = t
    <3>1. k1[u] = c /\ k1[v] = k[v] /\ v # t
      BY <1>2, <1>4, <2>1
    <3>2. k[v] # NoCall => OtherOld(k[v], c)
      BY <3>1
    <3> QED BY <3>1, <3>2 DEF OtherOld
  <2>2. CASE v = t
    <3>1. k1[v] = c /\ k1[u] = k[u] /\ u # t
      BY <1>2, <1>4, <2>2
    <3>2. k[u] # NoCall => OtherOld(k[u], c)
      BY <3>1
    <3> QED BY <3>1, <3>2 DEF OtherOld
  <2>3. CASE u # t /\ v # t
    BY <1>1, <1>2, <1>4, <2>3
  <2> QED BY <2>1, <2>2, <2>3
<1> QED BY <1>2, <1>3, <1>4 DEF CallsOk

\* A call ends with more blocks held, or goes on without another block to free.
LEMMA CallEnds ==
    ASSUME NEW k, NEW d, NEW e, CallsOk(k, d), NEW t \in Threads,
           \A u \in Threads : u # t /\ k[u] # NoCall /\ k[u].old # NoCall => k[u].old \in DOMAIN e,
           NEW k1, k1 = [k EXCEPT ![t] = NoCall]
    PROVE  CallsOk(k1, e)
<1>1. \A u \in Threads : OtherOld(k[u], NoCall)
  BY DEF OtherOld
<1> QED BY <1>1, CallsChange

\* What the call of t is from now on.
AtFree(old) == [at |-> "free", what |-> NoCall, run |-> NoCall, old |-> old]
Onward(old) == IF old = NoCall THEN NoCall ELSE AtFree(old)
AtRelease(r) == [at |-> "release", what |-> NoCall, run |-> r, old |-> NoCall]
Ending(r) == IF r = NoCall THEN NoCall ELSE AtRelease(r)

\* No other call frees p.
NotOthers(k, t, p) == \A u \in Threads : u # t /\ k[u] # NoCall => k[u].old # p

LEMMA OnwardLemma ==
    ASSUME NEW k, NEW d, NEW e, CallsOk(k, d),
           DOMAIN d \subseteq Paged!Pointers, DOMAIN d \subseteq DOMAIN e,
           NEW t \in Threads, NEW old, old = NoCall \/ (old \in DOMAIN d /\ NotOthers(k, t, old)),
           NEW k1, k1 = [k EXCEPT ![t] = Onward(old)]
    PROVE  CallsOk(k1, e) /\ OwnKey(t, Onward(old)) = {}
<1>1. \A u \in Threads : k[u] # NoCall /\ k[u].old # NoCall => k[u].old \in DOMAIN e
  BY DEF CallsOk, CallOk
<1>2. CASE old = NoCall
  <2>1. Onward(old) = NoCall
    BY <1>2 DEF Onward
  <2> QED BY <1>1, <2>1, CallEnds DEF OwnKey, HasRun
<1>3. CASE old # NoCall
  <2> DEFINE c == AtFree(old)
  <2>1. /\ c.at = "free" /\ c.what = NoCall /\ c.run = NoCall /\ c.old = old
        /\ c = [at |-> c.at, what |-> c.what, run |-> c.run, old |-> c.old]
    BY DEF AtFree
  <2>2. old \in DOMAIN e /\ old \in Paged!Pointers /\ NotOthers(k, t, old)
    BY <1>3
  <2>3. c \in Paged!Calls
    BY <2>2 DEF AtFree, Paged!Calls
  <2>4. Onward(old) = c
    BY <1>3 DEF Onward
  <2> HIDE DEF c
  <2>5. CallOk(c, e)
    BY <1>3, <2>1, <2>2, <2>3 DEF CallOk
  <2>6. \A u \in Threads : u # t /\ k[u] # NoCall => OtherOld(k[u], c)
    BY <2>1, <2>2 DEF NotOthers, OtherOld
  <2>7. CallsOk(k1, e)
    <3>1. k1 = [k EXCEPT ![t] = c]
      BY <2>4
    <3> QED BY <1>1, <2>3, <2>5, <2>6, <3>1, CallsChange
  <2> QED BY <2>1, <2>4, <2>7 DEF OwnKey, HasRun
<1> QED BY <1>2, <1>3

\* A block p is gone; the call goes to return a run, or ends.
LEMMA EndingLemma ==
    ASSUME Paged!SlabAssumption, NEW k, NEW d, NEW e, CallsOk(k, d), NEW p,
           DOMAIN e = DOMAIN d \ {p}, NEW t \in Threads, NotOthers(k, t, p),
           NEW r, r = NoCall \/ r \in Paged!Runs,
           NEW k1, k1 = [k EXCEPT ![t] = Ending(r)]
    PROVE  /\ CallsOk(k1, e)
           /\ OwnKey(t, Ending(r)) = IF r = NoCall THEN {} ELSE {CallKey(t, r)}
<1>1. \A u \in Threads : u # t /\ k[u] # NoCall /\ k[u].old # NoCall => k[u].old \in DOMAIN e
  <2>1. \A u \in Threads : k[u] # NoCall /\ k[u].old # NoCall => k[u].old \in DOMAIN d
    BY DEF CallsOk, CallOk
  <2> QED BY <2>1 DEF NotOthers
<1>2. CASE r = NoCall
  <2>1. Ending(r) = NoCall
    BY <1>2 DEF Ending
  <2> QED BY <1>1, <1>2, <2>1, CallEnds DEF OwnKey, HasRun
<1>3. CASE r # NoCall
  <2> DEFINE c == AtRelease(r)
  <2>1. /\ c.at = "release" /\ c.what = NoCall /\ c.run = r /\ c.old = NoCall
        /\ c = [at |-> c.at, what |-> c.what, run |-> c.run, old |-> c.old]
    BY DEF AtRelease
  <2>3. c \in Paged!Calls
    BY <1>3 DEF AtRelease, Paged!Calls
  <2>4. Ending(r) = c
    BY <1>3 DEF Ending
  <2> HIDE DEF c
  <2>5. CallOk(c, e)
    BY <1>3, <2>1, <2>3 DEF CallOk
  <2>6. \A u \in Threads : OtherOld(k[u], c)
    BY <2>1 DEF OtherOld
  <2>7. CallsOk(k1, e)
    <3>1. k1 = [k EXCEPT ![t] = c]
      BY <2>4
    <3> QED BY <1>1, <2>3, <2>5, <2>6, <3>1, CallsChange
  <2>8. HasRun(c)
    <3>1. c # NoCall
      BY <2>3, PagesLemma
    <3> QED BY <1>3, <2>1, <3>1 DEF HasRun
  <2> QED BY <1>3, <2>1, <2>4, <2>7, <2>8 DEF OwnKey, HasRun
<1> QED BY <1>2, <1>3

-----------------------------------------------------------------------------
(* Who holds a page                                                         *)

LEMMA KeysAre ==
    ASSUME NEW R, NEW Z, NEW Y, NEW d, NEW k
    PROVE  /\ \A r \in R : RunKey(r) \in Keys(R, Z, Y, d, k)
           /\ \A z \in Z : ZoneKey(z) \in Keys(R, Z, Y, d, k)
           /\ \A z \in Y : SpareKey(z) \in Keys(R, Z, Y, d, k)
           /\ \A p \in LargeOf(d) : LargeKey(p, d[p]) \in Keys(R, Z, Y, d, k)
           /\ \A t \in Threads : HasRun(k[t]) => CallKey(t, k[t].run) \in Keys(R, Z, Y, d, k)
BY DEF Keys, RunKeys, ZoneKeys, SpareKeys, LargeKeys, CallKeys

LEMMA KeyLemma ==
    ASSUME NEW r, NEW z, NEW p, NEW n, NEW t
    PROVE  /\ Span(RunKey(r)) = Paged!Area(r.page, r.n)
           /\ Span(ZoneKey(z)) = Paged!Area(z, ZonePages)
           /\ Span(SpareKey(z)) = Paged!Area(z, ZonePages)
           /\ Span(LargeKey(p, n)) = Paged!Area(p.page, n)
           /\ Span(CallKey(t, r)) = Paged!Area(r.page, r.n)
           /\ RunKey(r).page = r.page /\ RunKey(r).n = r.n
           /\ ZoneKey(z).page = z /\ ZoneKey(z).n = ZonePages
           /\ SpareKey(z).page = z /\ SpareKey(z).n = ZonePages
           /\ LargeKey(p, n).page = p.page /\ LargeKey(p, n).n = n
           /\ CallKey(t, r).page = r.page /\ CallKey(t, r).n = r.n
           /\ RunKey(r).kind = "run" /\ ZoneKey(z).kind = "zone" /\ SpareKey(z).kind = "spare"
           /\ LargeKey(p, n).kind = "large" /\ CallKey(t, r).kind = "call"
           /\ RunKey(r).who = r /\ ZoneKey(z).who = z /\ SpareKey(z).who = z
           /\ LargeKey(p, n).who = p /\ CallKey(t, r).who = t
BY AreaLemma DEF RunKey, ZoneKey, SpareKey, LargeKey, CallKey

\* Chunk i of z, which has zs[z] chunks.
IsChunk(zs, z, i, p) ==
    z \in DOMAIN zs /\ i \in 0..Chunks[zs[z].class] - 1 /\ p = Paged!Pointer(z, zs[z].class, i)

LEMMA ZoneLemma ==
    ASSUME Paged!SlabAssumption, NEW zs, NEW a, NEW d, Zoned(zs, a, d), NEW z \in DOMAIN zs
    PROVE  /\ z \in Paged!Pages /\ ZoneOk(z, zs[z], d) /\ zs[z].class \in Paged!Classes
           /\ zs[z] \in Paged!Zones
           /\ \A i, p : IsChunk(zs, z, i, p) =>
                 p.page \in Paged!Area(z, ZonePages) /\ p.chunk = i /\ i \in Nat
<1>1. z \in Paged!Pages /\ ZoneOk(z, zs[z], d)
  BY DEF Zoned
<1>2. zs[z] \in Paged!Zones /\ zs[z].class \in Paged!Classes
  BY <1>1 DEF ZoneOk, Paged!Zones
<1>3. ASSUME NEW i, NEW p, IsChunk(zs, z, i, p)
      PROVE p.page \in Paged!Area(z, ZonePages) /\ p.chunk = i /\ i \in Nat
  BY <1>1, <1>2, <1>3, ChunkLemma DEF IsChunk
<1> QED BY <1>1, <1>2, <1>3

\* A chunk is in one zone.
LEMMA ChunkOnce ==
    ASSUME Paged!SlabAssumption, NEW R, NEW Y, NEW d, NEW k, NEW zs, NEW a, Zoned(zs, a, d),
           Divided(Keys(R, DOMAIN zs, Y, d, k)), NEW p, NEW y, NEW z, NEW i, NEW j,
           IsChunk(zs, y, i, p), IsChunk(zs, z, j, p)
    PROVE  y = z /\ i = j
<1> DEFINE K == Keys(R, DOMAIN zs, Y, d, k)
<1>1. y \in DOMAIN zs /\ z \in DOMAIN zs
  BY DEF IsChunk
<1>2. /\ p.page \in Paged!Area(y, ZonePages) /\ p.page \in Paged!Area(z, ZonePages)
      /\ p.chunk = i /\ p.chunk = j
  BY <1>1, ZoneLemma
<1>3. ZoneKey(y) \in K /\ ZoneKey(z) \in K
  BY <1>1, KeysAre
<1>4. p.page \in Span(ZoneKey(y)) /\ p.page \in Span(ZoneKey(z))
  BY <1>2, KeyLemma
<1> HIDE DEF K
<1>5. ZoneKey(y) = ZoneKey(z)
  BY <1>3, <1>4, OneKey DEF K
<1>6. ZoneKey(y).who = y /\ ZoneKey(z).who = z
  BY KeyLemma
<1> QED BY <1>2, <1>5, <1>6

\* A block a caller has is on pages he has, or on those of a zone.
LEMMA HeldLemma ==
    ASSUME Paged!SlabAssumption, NEW R, NEW Y, NEW d, NEW k, NEW zs, NEW a, Zoned(zs, a, d),
           Divided(Keys(R, DOMAIN zs, Y, d, k)), Owners(zs, d), NEW p \in DOMAIN d
    PROVE  \/ /\ p \in LargeOf(d) /\ d[p] \in PageCounts
              /\ LargeKey(p, d[p]) \in Keys(R, DOMAIN zs, Y, d, k)
              /\ p.page \in Span(LargeKey(p, d[p]))
           \/ /\ p \notin LargeOf(d) /\ d[p] \in Paged!Classes
              /\ \E z \in DOMAIN zs : \E i \in 0..Chunks[d[p]] - 1 :
                    /\ zs[z].class = d[p] /\ IsChunk(zs, z, i, p)
                    /\ ZoneKey(z) \in Keys(R, DOMAIN zs, Y, d, k)
                    /\ p.page \in Span(ZoneKey(z))
<1> DEFINE K == Keys(R, DOMAIN zs, Y, d, k)
<1>1. CASE d[p] \in PageCounts
  <2>1. p \in LargeOf(d)
    BY <1>1 DEF LargeOf
  <2>2. LargeKey(p, d[p]) \in K
    BY <2>1, KeysAre
  <2>3. LargeKey(p, d[p]).page = p.page
    BY KeyLemma
  <2> HIDE DEF K
  <2>4. p.page \in Span(LargeKey(p, d[p]))
    <3>1. LargeKey(p, d[p]).page \in Span(LargeKey(p, d[p]))
      BY <2>2, SpanLemma DEF K
    <3> QED BY <2>3, <3>1
  <2> QED BY <1>1, <2>1, <2>2, <2>4 DEF K
<1>2. CASE d[p] \notin PageCounts
  <2>1. d[p] \in Paged!Classes /\ p \notin LargeOf(d)
    BY <1>2 DEF Owners, LargeOf
  <2>2. PICK z \in DOMAIN zs, i \in 0..Chunks[d[p]] - 1 :
           zs[z].class = d[p] /\ p = Paged!Pointer(z, d[p], i)
    BY <1>2 DEF Owners
  <2>3. IsChunk(zs, z, i, p)
    BY <2>2 DEF IsChunk
  <2>4. p.page \in Span(ZoneKey(z))
    <3>1. p.page \in Paged!Area(z, ZonePages)
      BY <2>3, ZoneLemma
    <3> QED BY <3>1, KeyLemma
  <2>5. ZoneKey(z) \in K
    BY KeysAre
  <2> QED BY <2>1, <2>2, <2>3, <2>4, <2>5
<1> QED BY <1>1, <1>2

\* Nobody has a block on pages that others than callers and zones have.
LEMMA NobodyHas ==
    ASSUME Paged!SlabAssumption, NEW R, NEW Y, NEW d, NEW k, NEW zs, NEW a, Zoned(zs, a, d),
           Divided(Keys(R, DOMAIN zs, Y, d, k)), Owners(zs, d),
           NEW x \in Keys(R, DOMAIN zs, Y, d, k), x.kind # "large", x.kind # "zone",
           NEW p, p.page \in Span(x)
    PROVE  /\ p \notin DOMAIN d
           /\ \A z \in DOMAIN zs : \A i : ~IsChunk(zs, z, i, p)
           /\ \A z \in DOMAIN zs : p.page \notin Paged!Area(z, ZonePages)
           /\ \A q \in LargeOf(d) : q.page # p.page
<1> DEFINE K == Keys(R, DOMAIN zs, Y, d, k)
<1>1. ASSUME NEW z \in DOMAIN zs, p.page \in Paged!Area(z, ZonePages) PROVE FALSE
  <2>1. ZoneKey(z) \in K /\ Span(ZoneKey(z)) = Paged!Area(z, ZonePages) /\ ZoneKey(z).kind = "zone"
    BY KeysAre, KeyLemma
  <2> HIDE DEF K
  <2>2. x = ZoneKey(z)
    BY <1>1, <2>1, OneKey DEF K
  <2> QED BY <2>1, <2>2
<1>2. ASSUME NEW q \in LargeOf(d), q.page = p.page PROVE FALSE
  <2>1. /\ LargeKey(q, d[q]) \in K /\ LargeKey(q, d[q]).page = q.page
        /\ LargeKey(q, d[q]).kind = "large"
    BY KeysAre, KeyLemma
  <2> HIDE DEF K
  <2>2. q.page \in Span(LargeKey(q, d[q]))
    <3>1. LargeKey(q, d[q]).page \in Span(LargeKey(q, d[q]))
      BY <2>1, SpanLemma DEF K
    <3> QED BY <2>1, <3>1
  <2>3. x = LargeKey(q, d[q])
    BY <1>2, <2>1, <2>2, OneKey DEF K
  <2> QED BY <2>1, <2>3
<1>3. ASSUME NEW z \in DOMAIN zs, NEW i, IsChunk(zs, z, i, p) PROVE FALSE
  <2>1. p.page \in Paged!Area(z, ZonePages)
    BY <1>3, ZoneLemma
  <2> QED BY <1>1, <2>1
<1>4. ASSUME p \in DOMAIN d PROVE FALSE
  <2>1. p \in LargeOf(d) \/ \E z \in DOMAIN zs : \E i \in 0..Chunks[d[p]] - 1 : IsChunk(zs, z, i, p)
    BY <1>4, HeldLemma
  <2> QED BY <1>2, <1>3, <2>1
<1> QED BY <1>1, <1>2, <1>3, <1>4

\* The pages of a large block are its own.
LEMMA LargeLemma ==
    ASSUME Paged!SlabAssumption, NEW R, NEW Z, NEW Y, NEW d, NEW k,
           Divided(Keys(R, Z, Y, d, k)), NEW p \in LargeOf(d)
    PROVE  /\ \A z \in Z \union Y : p.page \notin Paged!Area(z, ZonePages)
           /\ \A q \in LargeOf(d) : q.page = p.page => q = p
<1> DEFINE K == Keys(R, Z, Y, d, k)
           x == LargeKey(p, d[p])
<1>1. x \in K /\ x.page = p.page /\ x.kind = "large" /\ x.who = p
  BY KeysAre, KeyLemma
<1> HIDE DEF K, x
<1>2. p.page \in Span(x)
  <2>1. x.page \in Span(x)
    BY <1>1, SpanLemma DEF K
  <2> QED BY <1>1, <2>1
<1>3. ASSUME NEW z \in Z \union Y, p.page \in Paged!Area(z, ZonePages) PROVE FALSE
  <2>1. \E y \in K : Span(y) = Paged!Area(z, ZonePages) /\ y.kind # "large"
    <3>1. CASE z \in Z
      <4>1. ZoneKey(z) \in K
        BY <3>1, KeysAre DEF K
      <4> QED BY <4>1, KeyLemma
    <3>2. CASE z \in Y
      <4>1. SpareKey(z) \in K
        BY <3>2, KeysAre DEF K
      <4> QED BY <4>1, KeyLemma
    <3> QED BY <3>1, <3>2
  <2>2. PICK y \in K : Span(y) = Paged!Area(z, ZonePages) /\ y.kind # "large"
    BY <2>1
  <2>3. x = y
    BY <1>1, <1>2, <1>3, <2>2, OneKey DEF K
  <2> QED BY <1>1, <2>2, <2>3
<1>4. ASSUME NEW q \in LargeOf(d), q.page = p.page PROVE q = p
  <2>1. LargeKey(q, d[q]) \in K /\ LargeKey(q, d[q]).page = q.page /\ LargeKey(q, d[q]).who = q
    BY KeysAre, KeyLemma DEF K
  <2>2. q.page \in Span(LargeKey(q, d[q]))
    <3>1. LargeKey(q, d[q]).page \in Span(LargeKey(q, d[q]))
      BY <2>1, SpanLemma DEF K
    <3> QED BY <2>1, <3>1
  <2>3. x = LargeKey(q, d[q])
    BY <1>1, <1>2, <1>4, <2>1, <2>2, OneKey DEF K
  <2> QED BY <1>1, <2>1, <2>3
<1> QED BY <1>3, <1>4

\* p is held as before, or not.
SameAt(d, e, p) == (p \in DOMAIN e <=> p \in DOMAIN d) /\ (p \in DOMAIN d => e[p] = d[p])

IsGiven(d, e, p, w) ==
    /\ DOMAIN e = DOMAIN d \union {p} /\ e[p] = w
    /\ \A x : x # p => SameAt(d, e, x)
    /\ \A x \in DOMAIN d : x # p => e[x] = d[x]
    /\ \A x : x \in LargeOf(e) <=> (IF x = p THEN w \in PageCounts ELSE x \in LargeOf(d))
IsDropped(d, e, p) ==
    /\ DOMAIN e = DOMAIN d \ {p}
    /\ \A x : x # p => SameAt(d, e, x)
    /\ \A x \in DOMAIN e : e[x] = d[x]
    /\ \A x : x \in LargeOf(e) <=> (x # p /\ x \in LargeOf(d))

LEMMA GivenLemma ==
    ASSUME NEW d, NEW p, NEW w, NEW e, e = WithBlock(d, p, w)
    PROVE  IsGiven(d, e, p, w)
BY DEF WithBlock, SameAt, LargeOf, IsGiven

LEMMA DroppedLemma ==
    ASSUME NEW d, NEW p, NEW e, e = WithoutBlock(d, p)
    PROVE  IsDropped(d, e, p)
BY DEF WithoutBlock, SameAt, LargeOf, IsDropped

LEMMA ZoneKeeps ==
    ASSUME NEW z, NEW h, NEW d, NEW e, ZoneOk(z, h, d),
           \A i \in 0..Chunks[h.class] - 1 : SameAt(d, e, Paged!Pointer(z, h.class, i))
    PROVE  ZoneOk(z, h, e)
BY DEF ZoneOk, SameAt

\* The zones stay as they are when none of their chunks comes or goes.
LEMMA ZonedKeeps ==
    ASSUME NEW zs, NEW a, NEW d, NEW e, Zoned(zs, a, d),
           \A z \in DOMAIN zs : \A i \in 0..Chunks[zs[z].class] - 1 :
              SameAt(d, e, Paged!Pointer(z, zs[z].class, i))
    PROVE  Zoned(zs, a, e)
<1>1. \A z \in DOMAIN zs : ZoneOk(z, zs[z], d)
  BY DEF Zoned
<1>2. \A z \in DOMAIN zs : ZoneOk(z, zs[z], e)
  BY <1>1, ZoneKeeps
<1> QED BY <1>2 DEF Zoned

\* One zone changes, with one of its chunks.
LEMMA OthersKeep ==
    ASSUME Paged!SlabAssumption, NEW R, NEW Y, NEW d, NEW k, NEW zs, NEW a, Zoned(zs, a, d),
           Divided(Keys(R, DOMAIN zs, Y, d, k)), NEW z, NEW i, NEW p, IsChunk(zs, z, i, p),
           NEW e, \A x : x # p => SameAt(d, e, x)
    PROVE  \A y \in DOMAIN zs : y # z => ZoneOk(y, zs[y], e)
<1> SUFFICES ASSUME NEW y \in DOMAIN zs, y # z PROVE ZoneOk(y, zs[y], e)
  OBVIOUS
<1>1. ZoneOk(y, zs[y], d)
  BY ZoneLemma
<1>2. ASSUME NEW j \in 0..Chunks[zs[y].class] - 1
      PROVE  SameAt(d, e, Paged!Pointer(y, zs[y].class, j))
  <2>1. IsChunk(zs, y, j, Paged!Pointer(y, zs[y].class, j))
    BY DEF IsChunk
  <2>2. Paged!Pointer(y, zs[y].class, j) # p
    BY <2>1, ChunkOnce
  <2> QED BY <2>2
<1> QED BY <1>1, <1>2, ZoneKeeps

\* memusage is as before, or tells about the new zone and the new block.
KeepsLeading(u, v, Z, Y, d, e) ==
    /\ v \in [Paged!Pages -> Paged!Usages]
    /\ \A z \in Y : \/ z \in Z /\ \A q \in Paged!Area(z, ZonePages) : v[q] = u[q]
                    \/ \A q \in Paged!Area(z, ZonePages) : v[q] = [type |-> "small", size |-> q - z]
    /\ \A p \in LargeOf(e) : \/ p \in LargeOf(d) /\ e[p] = d[p] /\ v[p.page] = u[p.page]
                             \/ v[p.page] = [type |-> "large", size |-> e[p]]

LEMMA LeadsChange ==
    ASSUME NEW u, NEW Z, NEW d, Leads(u, Z, d), NEW v, NEW Y, NEW e,
           KeepsLeading(u, v, Z, Y, d, e)
    PROVE  Leads(v, Y, e)
<1>1. ASSUME NEW z \in Y, NEW q \in Paged!Area(z, ZonePages)
      PROVE  v[q] = [type |-> "small", size |-> q - z]
  BY <1>1 DEF Leads, KeepsLeading
<1>2. ASSUME NEW p \in LargeOf(e) PROVE v[p.page] = [type |-> "large", size |-> e[p]]
  BY <1>2 DEF Leads, KeepsLeading
<1> QED BY <1>1, <1>2 DEF Leads, KeepsLeading

-----------------------------------------------------------------------------
(* The steps                                                                *)

\* The holders of pages, and what the invariant says of them.
Shares == Keys(Range(runs), DOMAIN zones, Range(spare), held, call)

LEMMA SlabLemma ==
    ASSUME Paged!SlabAssumption, SlabInv
    PROVE  /\ Sorted(runs) /\ Divided(Shares)
           /\ Divided(Keys(Range(runs), DOMAIN zones, Range(spare), held, call))
           /\ Leads(usage, DOMAIN zones \union Range(spare), held)
           /\ Enumerates(spare, Range(spare)) /\ Len(spare) =< Threshold /\ Len(spare) \in Nat
           /\ Zoned(zones, avail, held) /\ Owners(zones, held) /\ CallsOk(call, held)
           /\ DOMAIN zones \subseteq Paged!Pages /\ DOMAIN held \subseteq Paged!Pointers
           /\ call \in [Threads -> Paged!Calls \union {NoCall}]
           /\ call = [t \in Threads |-> call[t]]
           /\ usage \in [Paged!Pages -> Paged!Usages]
           /\ \A r \in Range(runs) : RunKey(r) \in Shares
           /\ \A z \in DOMAIN zones : ZoneKey(z) \in Shares
           /\ \A z \in Range(spare) : SpareKey(z) \in Shares
           /\ \A p \in LargeOf(held) : LargeKey(p, held[p]) \in Shares
           /\ \A t \in Threads : HasRun(call[t]) => CallKey(t, call[t].run) \in Shares
<1>1. /\ Sorted(runs) /\ Divided(Shares)
      /\ Leads(usage, DOMAIN zones \union Range(spare), held)
      /\ Enumerates(spare, Range(spare)) /\ Len(spare) =< Threshold
      /\ Zoned(zones, avail, held) /\ Owners(zones, held) /\ CallsOk(call, held)
  BY DEF SlabInv, Shares
<1>2. Len(spare) \in Nat
  <2>1. spare \in Seq(Range(spare))
    BY <1>1 DEF Enumerates
  <2> QED BY <2>1
<1>3. DOMAIN zones \subseteq Paged!Pages /\ DOMAIN held \subseteq Paged!Pointers
  BY <1>1 DEF Zoned, Owners
<1>4. call \in [Threads -> Paged!Calls \union {NoCall}] /\ call = [t \in Threads |-> call[t]]
  BY <1>1 DEF CallsOk
<1>5. usage \in [Paged!Pages -> Paged!Usages]
  BY <1>1 DEF Leads
<1>6. /\ \A r \in Range(runs) : RunKey(r) \in Shares
      /\ \A z \in DOMAIN zones : ZoneKey(z) \in Shares
      /\ \A z \in Range(spare) : SpareKey(z) \in Shares
      /\ \A p \in LargeOf(held) : LargeKey(p, held[p]) \in Shares
      /\ \A t \in Threads : HasRun(call[t]) => CallKey(t, call[t].run) \in Shares
  BY KeysAre DEF Shares
<1> QED BY <1>1, <1>2, <1>3, <1>4, <1>5, <1>6 DEF Shares

RestOf(r, n) == IF r.n = n THEN {} ELSE {Rest(r, n)}

LEMMA FitLemma ==
    ASSUME Paged!SlabAssumption, SlabInv, NEW n \in Nat, n > 0, Paged!Fits(n) # {}, NEW i,
           i = Paged!FirstFit(n)
    PROVE  /\ i \in DOMAIN runs /\ runs[i] \in Range(runs) /\ runs[i].page \in Paged!Pages
           /\ runs[i].n \in Nat /\ runs[i].n >= n /\ RunKey(runs[i]) \in Shares
           /\ Sorted(Paged!Taken(i, n))
           /\ Range(Paged!Taken(i, n)) = (Range(runs) \ {runs[i]}) \union RestOf(runs[i], n)
           /\ n \in Paged!Pages
<1>1. Sorted(runs) /\ Divided(Shares)
  BY SlabLemma
<1>2. DOMAIN runs = 1..Len(runs) /\ Len(runs) \in Nat
  BY <1>1 DEF Sorted
<1>3. i \in Paged!Fits(n)
  <2>1. Paged!Fits(n) \in SUBSET Nat
    BY <1>2 DEF Paged!Fits
  <2> QED BY <2>1, FirstLemma, PagedWords DEF Paged!FirstFit
<1>4. i \in DOMAIN runs /\ runs[i].n >= n
  BY <1>3 DEF Paged!Fits
<1>5. /\ runs[i] \in Range(runs) /\ runs[i].page \in Paged!Pages /\ runs[i].n \in Paged!Pages
      /\ runs[i].n \in Nat /\ runs[i].page \in Nat
  BY <1>1, <1>4, RunLemma, PagesLemma
<1>6. RunKey(runs[i]) \in Shares
  BY <1>5, SlabLemma
<1>7. PageBehind(runs[i]) =< LastPage + 1
  <2>1. RunKey(runs[i]).page + RunKey(runs[i]).n - 1 =< LastPage
    BY <1>1, <1>6, SpanLemma
  <2>2. runs[i].page + runs[i].n - 1 =< LastPage
    BY <2>1 DEF RunKey, Key
  <2> QED BY <1>5, <2>2, PagesLemma DEF PageBehind
<1>8. Sorted(Paged!Taken(i, n)) /\ Range(Paged!Taken(i, n)) = Without(runs, i, n)
  BY <1>1, <1>4, <1>7, TakenLemma
<1>9. n \in Paged!Pages
  <2>1. Paged!Pages = 1..LastPage /\ LastPage \in Nat
    BY PagesLemma
  <2> QED BY <1>4, <1>5, <2>1
<1> QED BY <1>4, <1>5, <1>6, <1>8, <1>9 DEF Without, RestOf

\* The first pages of a run go to x.
LEMMA TakesPages ==
    ASSUME Paged!SlabAssumption, SlabInv, NEW n \in Nat, n > 0, Paged!Fits(n) # {}, NEW i,
           i = Paged!FirstFit(n),
           NEW x, x.page = runs[i].page, x.n = n,
           NEW J, Swaps(J, Shares, {RunKey(runs[i])}, RunKeys(RestOf(runs[i], n)) \union {x})
    PROVE  Divided(J)
<1> DEFINE r == runs[i]
           a == RunKey(r)
<1>1. a \in Shares /\ Divided(Shares) /\ r.n \in Nat /\ r.n >= n
  BY SlabLemma, FitLemma
<1>2. a.page = r.page /\ a.n = r.n
  BY DEF RunKey, Key
<1> HIDE DEF a
<1>3. CASE r.n = n
  <2>1. RunKeys(RestOf(r, n)) = {}
    BY <1>3 DEF RestOf, RunKeys
  <2>2. J = (Shares \ {a}) \union {x}
    BY <2>1 DEF Swaps, a
  <2>3. x.page = a.page /\ x.n = a.n
    BY <1>2, <1>3
  <2> HIDE DEF r
  <2> QED BY <1>1, <2>2, <2>3, Handed
<1>4. CASE r.n # n
  <2> DEFINE c == RunKey(Rest(r, n))
  <2>1. RunKeys(RestOf(r, n)) = {c}
    BY <1>4 DEF RestOf, RunKeys
  <2>2. J = (Shares \ {a}) \union {x, c}
    BY <2>1 DEF Swaps, a
  <2>3. c.page = r.page + n /\ c.n = r.n - n
    <3>1. \A s : RunKey(s).page = s.page /\ RunKey(s).n = s.n
      BY KeyLemma
    <3>2. c.page = Rest(r, n).page /\ c.n = Rest(r, n).n
      BY <3>1
    <3> QED BY <3>2 DEF Rest
  <2>4. x.n \in Nat /\ x.n >= 1 /\ x.n < a.n
    BY <1>1, <1>2, <1>4
  <2>5. x.page = a.page /\ c.page = a.page + x.n /\ c.n = a.n - x.n
    BY <1>2, <2>3
  <2> HIDE DEF r, c
  <2> QED BY <1>1, <2>2, <2>4, <2>5, HandedFirst
<1> QED BY <1>3, <1>4

\* No other call frees what a call of t frees at its end.
OldIs(t, old) == old = NoCall \/ (old \in DOMAIN held /\ NotOthers(call, t, old))

LEMMA ReturnLemma ==
    ASSUME Paged!SlabAssumption, SlabInv, NEW t \in Threads, NEW old, OldIs(t, old),
           NEW p, NEW w, Paged!Return(t, p, w, old), p \notin DOMAIN held
    PROVE  /\ IsGiven(held, held', p, w)
           /\ CallsOk(call', held')
           /\ Swaps(LargeKeys(held'), LargeKeys(held), {}, LargeGiven(p, w))
           /\ Swaps(CallKeys(call'), CallKeys(call), OwnKey(t, call[t]), {})
<1>1. held' = WithBlock(held, p, w)
  BY DEF Paged!Return, WithBlock
<1>2. call' = [call EXCEPT ![t] = Onward(old)]
  BY DEF Paged!Return, Paged!Goto, Onward, AtFree
<1>0. IsGiven(held, held', p, w)
  BY <1>1, GivenLemma
<1>3. DOMAIN held \subseteq DOMAIN held'
  BY <1>0 DEF IsGiven
<1>4. /\ CallsOk(call, held) /\ call = [u \in Threads |-> call[u]]
      /\ DOMAIN held \subseteq Paged!Pointers
  BY SlabLemma
<1>5. CallsOk(call', held') /\ OwnKey(t, Onward(old)) = {}
  BY <1>2, <1>3, <1>4, OnwardLemma DEF OldIs
<1>6. Swaps(CallKeys(call'), CallKeys(call), OwnKey(t, call[t]), {})
  <2>1. Swaps(CallKeys(call'), CallKeys(call), OwnKey(t, call[t]), OwnKey(t, Onward(old)))
    BY <1>2, <1>4, CallMoves
  <2> QED BY <1>5, <2>1
<1>7. Swaps(LargeKeys(held'), LargeKeys(held), {}, LargeGiven(p, w))
  BY <1>1, GivenMoves
<1> QED BY <1>0, <1>5, <1>6, <1>7

LEMMA OutsideKey == ASSUME NEW t, Paged!Outside(t) PROVE OwnKey(t, call[t]) = {}
BY DEF Paged!Outside, OwnKey, HasRun

LEMMA MallocLargeSteps ==
    ASSUME Paged!SlabAssumption, SlabInv, NEW t \in Threads, Paged!Outside(t), NEW old,
           OldIs(t, old),
           NEW n \in PageCounts, Paged!MallocLarge(t, n, old)
    PROVE  SlabInv'
<1> DEFINE i == Paged!FirstFit(n)
           r == runs[i]
           p == [page |-> r.page, chunk |-> 0]
<1>1. /\ Paged!Fits(n) # {} /\ usage' = [usage EXCEPT ![p.page] = [type |-> "large", size |-> n]]
      /\ Paged!Return(t, p, n, old) /\ runs' = Paged!Taken(i, n)
      /\ zones' = zones /\ avail' = avail /\ spare' = spare
  BY DEF Paged!MallocLarge
<1>0. n \in Nat /\ n > 0 /\ p.page = r.page
  BY PagesLemma
<1>2. /\ i \in DOMAIN runs /\ r \in Range(runs) /\ r.page \in Paged!Pages
      /\ RunKey(r) \in Shares
      /\ Sorted(runs')
      /\ Range(runs') = (Range(runs) \ {r}) \union RestOf(r, n)
      /\ n \in Paged!Pages
  BY <1>0, <1>1, FitLemma
<1>3. /\ p \notin DOMAIN held
      /\ \A z \in DOMAIN zones : \A j : ~IsChunk(zones, z, j, p)
      /\ \A q \in LargeOf(held) : q.page # r.page
  <2>1. r.page \in Span(RunKey(r)) /\ RunKey(r).kind = "run"
    <3>1. RunKey(r).page \in Span(RunKey(r))
      BY <1>2, SlabLemma, SpanLemma
    <3> QED BY <3>1, KeyLemma
  <2>2. RunKey(r) \in Keys(Range(runs), DOMAIN zones, Range(spare), held, call)
    BY <1>2 DEF Shares
  <2> HIDE DEF r
  <2> QED BY <1>0, <2>1, <2>2, SlabLemma, NobodyHas
<1>4. \A z \in DOMAIN zones \union Range(spare) : r.page \notin Paged!Area(z, ZonePages)
  <2> SUFFICES ASSUME NEW z \in DOMAIN zones \union Range(spare),
                      r.page \in Paged!Area(z, ZonePages)
               PROVE  FALSE
    OBVIOUS
  <2>1. r.page \in Span(RunKey(r)) /\ RunKey(r).kind = "run"
    <3>1. RunKey(r).page \in Span(RunKey(r))
      BY <1>2, SlabLemma, SpanLemma
    <3> QED BY <3>1, KeyLemma
  <2>2. \E y \in Shares : Span(y) = Paged!Area(z, ZonePages) /\ y.kind # "run"
    <3>1. z \in DOMAIN zones => ZoneKey(z) \in Shares
      BY SlabLemma
    <3>2. z \in Range(spare) => SpareKey(z) \in Shares
      BY SlabLemma
    <3> QED BY <3>1, <3>2, KeyLemma
  <2>3. PICK y \in Shares : Span(y) = Paged!Area(z, ZonePages) /\ y.kind # "run"
    BY <2>2
  <2>4. y = RunKey(r)
    BY <1>2, <2>1, <2>3, SlabLemma, OneKey
  <2> QED BY <2>1, <2>3, <2>4
<1>5. /\ IsGiven(held, held', p, n)
      /\ CallsOk(call', held')
      /\ Swaps(LargeKeys(held'), LargeKeys(held), {}, {LargeKey(p, n)})
      /\ Swaps(CallKeys(call'), CallKeys(call), {}, {})
  <2>1. /\ IsGiven(held, held', p, n)
        /\ CallsOk(call', held')
        /\ Swaps(LargeKeys(held'), LargeKeys(held), {}, LargeGiven(p, n))
        /\ Swaps(CallKeys(call'), CallKeys(call), OwnKey(t, call[t]), {})
    BY <1>1, <1>3, ReturnLemma
  <2>2. LargeGiven(p, n) = {LargeKey(p, n)}
    BY DEF LargeGiven
  <2> QED BY <2>1, <2>2, OutsideKey
<1>6. Divided(Keys(Range(runs'), DOMAIN zones', Range(spare'), held', call'))
  <2> DEFINE J == Keys(Range(runs'), DOMAIN zones, Range(spare), held', call')
  <2>1. Swaps(RunKeys(Range(runs')), RunKeys(Range(runs)), RunKeys({r}), RunKeys(RestOf(r, n)))
    BY <1>2, RunsMove
  <2>2. RunKeys({r}) = {RunKey(r)}
    BY DEF RunKeys
  <2>3. Swaps(J, Shares, RunKeys({r}) \union {} \union {} \union {} \union {},
              RunKeys(RestOf(r, n)) \union {} \union {} \union {LargeKey(p, n)} \union {})
    BY <1>5, <2>1, Stays, KeysChange DEF Shares
  <2> HIDE DEF J
  <2>4. Swaps(J, Shares, {RunKey(r)}, RunKeys(RestOf(r, n)) \union {LargeKey(p, n)})
    BY <2>2, <2>3
  <2>5. LargeKey(p, n).page = r.page /\ LargeKey(p, n).n = n
    BY <1>0, KeyLemma
  <2>6. Divided(J)
    BY <1>0, <1>1, <2>4, <2>5, TakesPages
  <2> QED BY <1>1, <2>6 DEF J
<1> HIDE DEF p, i, r
<1>7. Leads(usage', DOMAIN zones' \union Range(spare'), held')
  <2>1. /\ \A x : x \in LargeOf(held') => x = p \/ x \in LargeOf(held)
        /\ held'[p] = n
        /\ \A x \in DOMAIN held : x # p => held'[x] = held[x]
    BY <1>5 DEF IsGiven
  <2>2. /\ usage'[r.page] = [type |-> "large", size |-> n]
        /\ \A q \in Paged!Pages : q # r.page => usage'[q] = usage[q]
        /\ usage' \in [Paged!Pages -> Paged!Usages]
    <3>1. n \in 0..LastPage
      BY <1>0, <1>2, PagesLemma
    <3>2. [type |-> "large", size |-> n] \in Paged!Usages
      BY <3>1 DEF Paged!Usages
    <3> QED BY <1>0, <1>1, <1>2, <3>2, SlabLemma
  <2>3. \A z \in DOMAIN zones \union Range(spare) : \A q \in Paged!Area(z, ZonePages) :
           usage'[q] = usage[q]
    <3> SUFFICES ASSUME NEW z \in DOMAIN zones \union Range(spare),
                        NEW q \in Paged!Area(z, ZonePages)
                 PROVE  usage'[q] = usage[q]
      OBVIOUS
    <3>1. q \in Paged!Pages
      <4>1. \E y \in Shares : Span(y) = Paged!Area(z, ZonePages)
        <5>1. z \in DOMAIN zones => ZoneKey(z) \in Shares
          BY SlabLemma
        <5>2. z \in Range(spare) => SpareKey(z) \in Shares
          BY SlabLemma
        <5> QED BY <5>1, <5>2, KeyLemma
      <4> QED BY <4>1, SlabLemma DEF Divided
    <3> QED BY <1>4, <2>2, <3>1
  <2>4. \A x \in LargeOf(held) : x # p /\ x.page \in Paged!Pages /\ x \in DOMAIN held
    <3> SUFFICES ASSUME NEW x \in LargeOf(held)
                 PROVE  x # p /\ x.page \in Paged!Pages /\ x \in DOMAIN held
      OBVIOUS
    <3>1. x \in DOMAIN held
      BY DEF LargeOf
    <3>2. x \in Paged!Pointers
      BY <3>1, SlabLemma
    <3> QED BY <1>3, <3>1, <3>2 DEF Paged!Pointers
  <2>5. \A x \in LargeOf(held') : \/ x \in LargeOf(held) /\ held'[x] = held[x]
                                     /\ usage'[x.page] = usage[x.page]
                                  \/ usage'[x.page] = [type |-> "large", size |-> held'[x]]
    BY <1>0, <1>3, <2>1, <2>2, <2>4
  <2>6. Leads(usage, DOMAIN zones \union Range(spare), held)
    BY SlabLemma
  <2>7. KeepsLeading(usage, usage', DOMAIN zones \union Range(spare),
                     DOMAIN zones \union Range(spare), held, held')
    BY <2>2, <2>3, <2>5 DEF KeepsLeading
  <2> QED BY <1>1, <2>6, <2>7, LeadsChange
<1>8. Zoned(zones', avail', held')
  <2>1. \A z \in DOMAIN zones : \A j \in 0..Chunks[zones[z].class] - 1 :
           SameAt(held, held', Paged!Pointer(z, zones[z].class, j))
    <3> SUFFICES ASSUME NEW z \in DOMAIN zones, NEW j \in 0..Chunks[zones[z].class] - 1
                 PROVE  SameAt(held, held', Paged!Pointer(z, zones[z].class, j))
      OBVIOUS
    <3>1. IsChunk(zones, z, j, Paged!Pointer(z, zones[z].class, j))
      BY DEF IsChunk
    <3>2. Paged!Pointer(z, zones[z].class, j) # p
      BY <1>3, <3>1
    <3> QED BY <1>5, <3>2 DEF IsGiven
  <2>2. Zoned(zones, avail, held)
    BY SlabLemma
  <2> QED BY <1>1, <2>1, <2>2, ZonedKeeps
<1>9. Owners(zones', held')
  <2>1. p \in Paged!Pointers
    BY <1>2 DEF p, Paged!Pointers
  <2>2. DOMAIN held' = DOMAIN held \union {p} /\ held'[p] = n
        /\ \A x \in DOMAIN held : x # p => held'[x] = held[x]
    BY <1>5 DEF IsGiven
  <2>3. Owners(zones, held)
    BY SlabLemma
  <2> QED BY <1>1, <2>1, <2>2, <2>3 DEF Owners
<1>10. Enumerates(spare', Range(spare')) /\ Len(spare') =< Threshold
  BY <1>1, SlabLemma
<1> QED BY <1>2, <1>5, <1>6, <1>7, <1>8, <1>9, <1>10 DEF SlabInv

-----------------------------------------------------------------------------
(* Zones that give and get chunks                                           *)

LEMMA RangeLemma ==
    ASSUME NEW S, NEW list \in Seq(S)
    PROVE  Range(list) \subseteq S
BY DEF Range

LEMMA ZoneHas ==
    ASSUME Paged!SlabAssumption, NEW z, NEW h, NEW d, ZoneOk(z, h, d)
    PROVE  /\ h \in Paged!Zones /\ h.class \in Paged!Classes /\ h.nfree \in Nat /\ h.uindex \in Nat
           /\ h.free \in Seq(0..h.uindex) /\ IsInjective(h.free) /\ Len(h.free) \in Nat
           /\ Enumerates(h.free, Range(h.free)) /\ Range(h.free) \subseteq 0..h.uindex
           /\ Chunks[h.class] \in Nat /\ Chunks[h.class] > 1 /\ h.uindex < Chunks[h.class]
           /\ h.nfree = Chunks[h.class] - 1 - h.uindex + Len(h.free)
           /\ h.nfree =< Chunks[h.class] /\ Len(h.free) =< h.uindex + 1
           /\ h = [class |-> h.class, nfree |-> h.nfree, uindex |-> h.uindex, free |-> h.free]
           /\ h.nfree = Chunks[h.class] <=> Range(h.free) = 0..h.uindex
<1>1. /\ h \in Paged!Zones /\ h.free \in Seq(0..h.uindex) /\ IsInjective(h.free)
      /\ h.uindex < Chunks[h.class]
      /\ h.nfree = Chunks[h.class] - 1 - h.uindex + Len(h.free)
  BY DEF ZoneOk
<1>2. /\ h.class \in Paged!Classes /\ h.nfree \in Nat /\ h.uindex \in Nat
      /\ h = [class |-> h.class, nfree |-> h.nfree, uindex |-> h.uindex, free |-> h.free]
  BY <1>1 DEF Paged!Zones
<1>3. Chunks[h.class] \in Nat /\ Chunks[h.class] > 1
  BY <1>2, PagesLemma
<1>4. /\ Len(h.free) =< h.uindex + 1 /\ Len(h.free) \in Nat
      /\ Len(h.free) = h.uindex + 1 <=> Range(h.free) = 0..h.uindex
  <2>1. /\ Len(h.free) =< h.uindex + 1
        /\ Len(h.free) = h.uindex + 1 <=> Range(h.free) = 0..h.uindex
    BY <1>1, <1>2, AllFreeLemma
  <2> QED BY <1>1, <2>1
<1>5. Range(h.free) \subseteq 0..h.uindex
  BY <1>1, RangeLemma
<1>6. Enumerates(h.free, Range(h.free))
  <2>1. h.free \in Seq(Range(h.free))
    BY <1>1 DEF Range
  <2> QED BY <1>1, <2>1 DEF Enumerates
<1>7. /\ h.nfree =< Chunks[h.class]
      /\ h.nfree = Chunks[h.class] <=> Len(h.free) = h.uindex + 1
  BY <1>1, <1>2, <1>3, <1>4
<1> QED BY <1>1, <1>2, <1>3, <1>4, <1>5, <1>6, <1>7

LEMMA ChunksApart ==
    ASSUME NEW z, NEW c, NEW i, NEW j, Paged!Pointer(z, c, i) = Paged!Pointer(z, c, j)
    PROVE  i = j
<1>1. Paged!Pointer(z, c, i).chunk = i /\ Paged!Pointer(z, c, j).chunk = j
  BY DEF Paged!Pointer
<1> QED BY <1>1

\* What MallocChunk gives, and what the zone is then.
IsFresh(h) == h.uindex + 1 # Chunks[h.class]
GivesChunk(h) == IF IsFresh(h) THEN h.uindex + 1 ELSE Head(h.free)
GaveChunk(h) ==
    [h EXCEPT !.nfree = @ - 1, !.uindex = IF IsFresh(h) THEN @ + 1 ELSE @,
              !.free = IF IsFresh(h) THEN @ ELSE Tail(@)]

LEMMA ZoneGives ==
    ASSUME Paged!SlabAssumption, NEW z, NEW h, NEW d, ZoneOk(z, h, d), h.nfree > 0,
           NEW i, i = GivesChunk(h), NEW g, g = GaveChunk(h), NEW e,
           IsGiven(d, e, Paged!Pointer(z, h.class, i), h.class)
    PROVE  /\ i \in 0..Chunks[h.class] - 1 /\ ZoneOk(z, g, e)
           /\ Paged!Pointer(z, h.class, i) \notin DOMAIN d
           /\ g.class = h.class /\ g.nfree = h.nfree - 1
<1> DEFINE c == h.class
           n == Chunks[c]
           p == Paged!Pointer(z, c, i)
<1>1. /\ h.class \in Paged!Classes /\ h.nfree \in Nat /\ h.uindex \in Nat
      /\ h.free \in Seq(0..h.uindex) /\ IsInjective(h.free) /\ Len(h.free) \in Nat
      /\ Enumerates(h.free, Range(h.free)) /\ Range(h.free) \subseteq 0..h.uindex
      /\ n \in Nat /\ n > 1 /\ h.uindex < n
      /\ h.nfree = n - 1 - h.uindex + Len(h.free)
  BY ZoneHas
<1>a. /\ h.nfree \in Nat /\ h.uindex \in Nat /\ n \in Nat /\ n > 1 /\ h.uindex < n
      /\ Len(h.free) \in Nat /\ h.nfree = n - 1 - h.uindex + Len(h.free) /\ h.nfree > 0
  BY <1>1
<1>0. h = [class |-> h.class, nfree |-> h.nfree, uindex |-> h.uindex, free |-> h.free]
  BY ZoneHas
<1>2. \A j \in 0..n - 1 :
         /\ (Paged!Pointer(z, c, j) \in DOMAIN d) <=> (j =< h.uindex /\ j \notin Range(h.free))
         /\ Paged!Pointer(z, c, j) \in DOMAIN d => d[Paged!Pointer(z, c, j)] = c
  BY DEF ZoneOk
<1>3. \A j : j # i => SameAt(d, e, Paged!Pointer(z, c, j))
  <2>1. \A j : j # i => Paged!Pointer(z, c, j) # p
    BY ChunksApart
  <2> QED BY <2>1 DEF IsGiven
<1>4. p \in DOMAIN e /\ e[p] = c
  BY DEF IsGiven
<1>5. g.class = c /\ g.nfree = h.nfree - 1
  BY <1>0 DEF GaveChunk
<1>9. g = [class |-> g.class, nfree |-> g.nfree, uindex |-> g.uindex, free |-> g.free]
  BY <1>0 DEF GaveChunk
<1>6. \A j \in 0..n - 1 : j # i =>
         /\ (Paged!Pointer(z, c, j) \in DOMAIN e) <=> (j =< h.uindex /\ j \notin Range(h.free))
         /\ Paged!Pointer(z, c, j) \in DOMAIN e => e[Paged!Pointer(z, c, j)] = c
  BY <1>2, <1>3 DEF SameAt
<1>7. CASE IsFresh(h)
  <2>1. i = h.uindex + 1 /\ g.uindex = h.uindex + 1 /\ g.free = h.free
    BY <1>0, <1>7 DEF GivesChunk, GaveChunk
  <2>2. i \in 0..n - 1 /\ ~(i =< h.uindex) /\ i \notin Range(h.free) /\ i = g.uindex
        /\ g.uindex \in Nat /\ g.uindex < n /\ g.nfree \in Nat
    BY <1>1, <1>5, <1>7, <2>1 DEF IsFresh
  <2>3. g.free \in Seq(0..g.uindex) /\ IsInjective(g.free)
    BY <1>1, <2>1
  <2>4. g.nfree = n - 1 - g.uindex + Len(g.free)
    <3>1. Len(g.free) = Len(h.free) /\ g.uindex = h.uindex + 1 /\ g.nfree = h.nfree - 1
      BY <1>5, <2>1
    <3>2. h.nfree - 1 = n - 1 - (h.uindex + 1) + Len(h.free)
      <4> DEFINE f == h.nfree
                 u == h.uindex
                 l == Len(h.free)
      <4>1. f = n - 1 - u + l /\ n \in Int /\ u \in Int /\ l \in Int
        BY <1>a
      <4> HIDE DEF f, u, l, n
      <4>2. f - 1 = n - 1 - (u + 1) + l
        BY <4>1
      <4> QED BY <4>2 DEF f, u, l
    <3> QED BY <3>1, <3>2
  <2>5. g \in Paged!Zones
    <3>1. g.free \in Seq(Nat)
      BY <2>2, <2>3
    <3> QED BY <1>1, <1>5, <1>9, <2>2, <3>1 DEF Paged!Zones
  <2>6. \A j \in 0..n - 1 :
           /\ (Paged!Pointer(z, c, j) \in DOMAIN e) <=> (j =< g.uindex /\ j \notin Range(g.free))
           /\ Paged!Pointer(z, c, j) \in DOMAIN e => e[Paged!Pointer(z, c, j)] = c
    <3> SUFFICES ASSUME NEW j \in 0..n - 1
                 PROVE  /\ (Paged!Pointer(z, c, j) \in DOMAIN e) <=> (j =< g.uindex /\ j \notin Range(g.free))
                        /\ Paged!Pointer(z, c, j) \in DOMAIN e => e[Paged!Pointer(z, c, j)] = c
      OBVIOUS
    <3>1. CASE j = i
      BY <1>4, <2>1, <2>2, <3>1
    <3>2. CASE j # i
      <4>1. j =< h.uindex <=> j =< g.uindex
        BY <1>1, <2>1, <2>2, <3>2
      <4> QED BY <1>6, <2>1, <3>2, <4>1
    <3> QED BY <3>1, <3>2
  <2>7. ZoneOk(z, g, e)
    BY <1>5, <2>2, <2>3, <2>4, <2>5, <2>6 DEF ZoneOk
  <2>8. p \notin DOMAIN d
    BY <1>2, <2>2
  <2> QED BY <1>5, <2>2, <2>7, <2>8
<1>8. CASE ~IsFresh(h)
  <2>1. i = Head(h.free) /\ g.uindex = h.uindex /\ g.free = Tail(h.free)
    BY <1>0, <1>8 DEF GivesChunk, GaveChunk
  <2>2. h.uindex = n - 1 /\ Len(h.free) = h.nfree /\ h.free # <<>>
    <3>1. h.uindex = n - 1
      BY <1>1, <1>8 DEF IsFresh
    <3>2. Len(h.free) = h.nfree
      BY <1>1, <3>1
    <3> QED BY <3>1, <3>2
  <2>3. i \in Range(h.free) /\ Enumerates(g.free, Range(h.free) \ {i})
    BY <1>1, <2>1, <2>2, BehindHead
  <2>4. i \in 0..n - 1 /\ i =< g.uindex /\ g.nfree \in Nat
    <3>1. i \in 0..h.uindex
      BY <1>1, <2>3
    <3>2. i \in 0..n - 1
      BY <1>a, <3>1
    <3>3. g.uindex = h.uindex /\ g.nfree = h.nfree - 1
      BY <1>5, <2>1
    <3> QED BY <1>a, <3>1, <3>2, <3>3
  <2>5. /\ g.free \in Seq(0..g.uindex) /\ IsInjective(g.free)
        /\ Range(g.free) = Range(h.free) \ {i} /\ Len(g.free) = Len(h.free) - 1
    <3>1. g.free \in Seq(0..h.uindex) /\ Len(g.free) = Len(h.free) - 1
      BY <1>1, <2>1, <2>2, HeadTailProperties
    <3> QED BY <2>1, <2>3, <3>1 DEF Enumerates
  <2>6. g.nfree = n - 1 - g.uindex + Len(g.free)
    <3>1. Len(g.free) = Len(h.free) - 1 /\ g.uindex = h.uindex /\ g.nfree = h.nfree - 1
      BY <1>5, <2>1, <2>5
    <3>2. h.nfree - 1 = n - 1 - h.uindex + (Len(h.free) - 1)
      <4> DEFINE f == h.nfree
                 u == h.uindex
                 l == Len(h.free)
      <4>1. f = n - 1 - u + l /\ n \in Int /\ u \in Int /\ l \in Int
        BY <1>a
      <4> HIDE DEF f, u, l, n
      <4>2. f - 1 = n - 1 - u + (l - 1)
        BY <4>1
      <4> QED BY <4>2 DEF f, u, l
    <3> QED BY <3>1, <3>2
  <2>7. g \in Paged!Zones
    <3>1. g.free \in Seq(Nat) /\ g.uindex \in Nat
      BY <1>1, <2>1, <2>5
    <3> QED BY <1>1, <1>5, <1>9, <2>4, <3>1 DEF Paged!Zones
  <2>8. \A j \in 0..n - 1 :
           /\ (Paged!Pointer(z, c, j) \in DOMAIN e) <=> (j =< g.uindex /\ j \notin Range(g.free))
           /\ Paged!Pointer(z, c, j) \in DOMAIN e => e[Paged!Pointer(z, c, j)] = c
    <3> SUFFICES ASSUME NEW j \in 0..n - 1
                 PROVE  /\ (Paged!Pointer(z, c, j) \in DOMAIN e) <=> (j =< g.uindex /\ j \notin Range(g.free))
                        /\ Paged!Pointer(z, c, j) \in DOMAIN e => e[Paged!Pointer(z, c, j)] = c
      OBVIOUS
    <3>1. CASE j = i
      BY <1>4, <2>4, <2>5, <3>1
    <3>2. CASE j # i
      BY <1>6, <2>1, <2>5, <3>2
    <3> QED BY <3>1, <3>2
  <2>9. ZoneOk(z, g, e)
    BY <1>1, <1>5, <2>1, <2>5, <2>6, <2>7, <2>8 DEF ZoneOk
  <2>10. p \notin DOMAIN d
    BY <1>2, <2>3, <2>4
  <2> QED BY <1>5, <2>4, <2>9, <2>10
<1> QED BY <1>7, <1>8

\* What a zone is when chunk i came back.
GotChunk(h, i) == [h EXCEPT !.nfree = @ + 1, !.free = <<i>> \o @]

LEMMA ZoneGets ==
    ASSUME Paged!SlabAssumption, NEW z, NEW h, NEW d, ZoneOk(z, h, d),
           NEW i \in 0..Chunks[h.class] - 1,
           Paged!Pointer(z, h.class, i) \in DOMAIN d, NEW g, g = GotChunk(h, i), NEW e,
           IsDropped(d, e, Paged!Pointer(z, h.class, i))
    PROVE  /\ ZoneOk(z, g, e)
           /\ g.class = h.class /\ g.nfree = h.nfree + 1
<1> DEFINE c == h.class
           n == Chunks[c]
           p == Paged!Pointer(z, c, i)
<1>1. /\ h.class \in Paged!Classes /\ h.nfree \in Nat /\ h.uindex \in Nat
      /\ h.free \in Seq(0..h.uindex) /\ IsInjective(h.free) /\ Len(h.free) \in Nat
      /\ Enumerates(h.free, Range(h.free)) /\ Range(h.free) \subseteq 0..h.uindex
      /\ n \in Nat /\ n > 1 /\ h.uindex < n
      /\ h.nfree = n - 1 - h.uindex + Len(h.free)
  BY ZoneHas
<1>a. /\ h.nfree \in Nat /\ h.uindex \in Nat /\ n \in Nat
      /\ Len(h.free) \in Nat /\ h.nfree = n - 1 - h.uindex + Len(h.free)
  BY <1>1
<1>0. h = [class |-> h.class, nfree |-> h.nfree, uindex |-> h.uindex, free |-> h.free]
  BY ZoneHas
<1>2. \A j \in 0..n - 1 :
         /\ (Paged!Pointer(z, c, j) \in DOMAIN d) <=> (j =< h.uindex /\ j \notin Range(h.free))
         /\ Paged!Pointer(z, c, j) \in DOMAIN d => d[Paged!Pointer(z, c, j)] = c
  BY DEF ZoneOk
<1>3. \A j : j # i => SameAt(d, e, Paged!Pointer(z, c, j))
  <2>1. \A j : j # i => Paged!Pointer(z, c, j) # p
    BY ChunksApart
  <2> QED BY <2>1 DEF IsDropped
<1>4. p \notin DOMAIN e
  BY DEF IsDropped
<1>5. /\ g.class = c /\ g.nfree = h.nfree + 1 /\ g.uindex = h.uindex /\ g.free = <<i>> \o h.free
      /\ g = [class |-> g.class, nfree |-> g.nfree, uindex |-> g.uindex, free |-> g.free]
  <2> DEFINE m == h.nfree + 1
             l == <<i>> \o h.free
  <2>1. g = [h EXCEPT !.nfree = m, !.free = l]
    BY DEF GotChunk
  <2> HIDE DEF m, l
  <2>2. g = [class |-> h.class, nfree |-> m, uindex |-> h.uindex, free |-> l]
    BY <1>0, <2>1
  <2>3. g.class = h.class /\ g.nfree = m /\ g.uindex = h.uindex /\ g.free = l
    BY <2>2
  <2> QED BY <2>2, <2>3 DEF m, l
<1>6. i =< h.uindex /\ i \notin Range(h.free) /\ i \in Nat
  BY <1>2
<1>7. /\ Enumerates(g.free, Range(h.free) \union {i})
  <2> DEFINE F == Range(h.free)
             m == h.free
  <2>1. Enumerates(m, F) /\ i \notin F
    BY <1>1, <1>6
  <2>2. g.free = <<i>> \o m
    BY <1>5
  <2> HIDE DEF F, m, n, c, p
  <2>3. Enumerates(<<i>> \o m, F \union {i})
    BY <2>1, PrependLemma
  <2> QED BY <2>2, <2>3 DEF F
<1>8. g.free \in Seq(0..g.uindex) /\ Len(g.free) = Len(h.free) + 1
  <2>1. i \in 0..h.uindex
    BY <1>1, <1>6
  <2> DEFINE S == 0..h.uindex
             l == <<i>>
             m == h.free
  <2>2. i \in S /\ m \in Seq(S) /\ Len(m) \in Nat /\ g.free = l \o m
    BY <1>1, <1>5, <2>1
  <2> HIDE DEF n, c, S, m
  <2>3. l \in Seq(S) /\ Len(l) = 1
    BY <2>2
  <2> HIDE DEF l
  <2>4. g.free \in Seq(S) /\ Len(g.free) = Len(l) + Len(m)
    BY <2>2, <2>3, ConcatProperties
  <2>5. Len(g.free) = Len(m) + 1
    BY <2>2, <2>3, <2>4
  <2> QED BY <1>5, <2>4, <2>5 DEF S, m
<1>9. IsInjective(g.free) /\ Range(g.free) = Range(h.free) \union {i}
  BY <1>7 DEF Enumerates
<1>10. g.nfree = n - 1 - g.uindex + Len(g.free)
  <2>1. g.nfree = h.nfree + 1 /\ g.uindex = h.uindex
    BY <1>5
  <2>2. h.nfree + 1 = n - 1 - h.uindex + (Len(h.free) + 1)
    <3> DEFINE f == h.nfree
               u == h.uindex
               l == Len(h.free)
    <3>1. f = n - 1 - u + l /\ n \in Int /\ u \in Int /\ l \in Int
      BY <1>a
    <3> HIDE DEF f, u, l, n
    <3>2. f + 1 = n - 1 - u + (l + 1)
      BY <3>1
    <3> QED BY <3>2 DEF f, u, l
  <2> QED BY <1>8, <2>1, <2>2
<1>11. g \in Paged!Zones /\ g.uindex < n
  <2>1. g.free \in Seq(Nat)
    BY <1>1, <1>5, <1>8
  <2>2. g.nfree \in Nat /\ g.uindex \in Nat /\ g.uindex < n
    BY <1>1, <1>5
  <2> QED BY <1>1, <1>5, <2>1, <2>2 DEF Paged!Zones
<1>12. \A j \in 0..n - 1 :
          /\ (Paged!Pointer(z, c, j) \in DOMAIN e) <=> (j =< g.uindex /\ j \notin Range(g.free))
          /\ Paged!Pointer(z, c, j) \in DOMAIN e => e[Paged!Pointer(z, c, j)] = c
  <2> SUFFICES ASSUME NEW j \in 0..n - 1
               PROVE  /\ (Paged!Pointer(z, c, j) \in DOMAIN e) <=> (j =< g.uindex /\ j \notin Range(g.free))
                      /\ Paged!Pointer(z, c, j) \in DOMAIN e => e[Paged!Pointer(z, c, j)] = c
    OBVIOUS
  <2>1. CASE j = i
    BY <1>4, <1>9, <2>1
  <2>2. CASE j # i
    <3>1. /\ (Paged!Pointer(z, c, j) \in DOMAIN e) <=> (j =< h.uindex /\ j \notin Range(h.free))
          /\ Paged!Pointer(z, c, j) \in DOMAIN e => e[Paged!Pointer(z, c, j)] = c
      BY <1>2, <1>3, <2>2 DEF SameAt
    <3> QED BY <1>5, <1>9, <2>2, <3>1
  <2> QED BY <2>1, <2>2
<1>13. ZoneOk(z, g, e)
  BY <1>5, <1>8, <1>9, <1>10, <1>11, <1>12 DEF ZoneOk
<1> QED BY <1>5, <1>13

\* The zone with header g, on the list of its class or not.
ZonePut(zs, z, g) == [zs EXCEPT ![z] = g]
ListPut(a, c, list) == [a EXCEPT ![c] = list]
OpenIs(zs, z, g) ==
    IF g.nfree > 0 THEN OpenZones(zs, g.class) \union {z} ELSE OpenZones(zs, g.class) \ {z}

MayPut(zs, z, g, list, e) ==
    /\ z \in DOMAIN zs /\ g.class = zs[z].class /\ ZoneOk(z, g, e)
    /\ \A y \in DOMAIN zs : y # z => ZoneOk(y, zs[y], e)
    /\ Enumerates(list, OpenIs(zs, z, g))
    /\ g.nfree = Chunks[g.class] => WholeZones(zs, g.class) \subseteq {z}
SameClasses(zs, f) == DOMAIN f = DOMAIN zs /\ \A y \in DOMAIN zs : f[y].class = zs[y].class

LEMMA ZonedChange ==
    ASSUME Paged!SlabAssumption, NEW zs, NEW a, NEW d, Zoned(zs, a, d), NEW z, NEW g, NEW e,
           NEW list,
           MayPut(zs, z, g, list, e),
           NEW f, f = ZonePut(zs, z, g), NEW b, b = ListPut(a, g.class, list)
    PROVE  Zoned(f, b, e) /\ SameClasses(zs, f)
<1> DEFINE c == g.class
<1>0. /\ z \in DOMAIN zs /\ g.class = zs[z].class /\ ZoneOk(z, g, e)
      /\ \A y \in DOMAIN zs : y # z => ZoneOk(y, zs[y], e)
      /\ Enumerates(list, OpenIs(zs, z, g))
      /\ g.nfree = Chunks[g.class] => WholeZones(zs, g.class) \subseteq {z}
  BY DEF MayPut
<1>1. /\ DOMAIN zs \subseteq Paged!Pages /\ a = [x \in Paged!Classes |-> a[x]]
      /\ c \in Paged!Classes
      /\ \A x \in Paged!Classes : /\ Enumerates(a[x], OpenZones(zs, x))
                                  /\ \A y, w \in WholeZones(zs, x) : y = w
  BY <1>0, ZoneLemma DEF Zoned
<1>3. DOMAIN f = DOMAIN zs /\ f[z] = g /\ \A y \in DOMAIN zs : y # z => f[y] = zs[y]
  BY <1>0 DEF ZonePut
<1>4. /\ b = [x \in Paged!Classes |-> b[x]] /\ b[c] = list
      /\ \A x \in Paged!Classes : x # c => b[x] = a[x]
  BY <1>1 DEF ListPut
<1>5. \A y \in DOMAIN f : ZoneOk(y, f[y], e)
  BY <1>0, <1>3
<1>6. ASSUME NEW x \in Paged!Classes, x # c
      PROVE OpenZones(f, x) = OpenZones(zs, x) /\ WholeZones(f, x) = WholeZones(zs, x)
  BY <1>0, <1>3, <1>6 DEF OpenZones, WholeZones
<1>7. OpenZones(f, c) = OpenIs(zs, z, g)
  BY <1>0, <1>3 DEF OpenZones, OpenIs
<1>8. \A y, w \in WholeZones(f, c) : y = w
  <2>1. CASE g.nfree = Chunks[c]
    <3>1. WholeZones(f, c) \subseteq {z}
      BY <1>0, <1>3, <2>1 DEF WholeZones
    <3> QED BY <3>1
  <2>2. CASE g.nfree # Chunks[c]
    <3>1. WholeZones(f, c) \subseteq WholeZones(zs, c)
      BY <1>3, <2>2 DEF WholeZones
    <3> QED BY <1>1, <3>1
  <2> QED BY <2>1, <2>2
<1>9. \A x \in Paged!Classes : /\ Enumerates(b[x], OpenZones(f, x))
                               /\ \A y, w \in WholeZones(f, x) : y = w
  <2> SUFFICES ASSUME NEW x \in Paged!Classes
               PROVE  /\ Enumerates(b[x], OpenZones(f, x))
                      /\ \A y, w \in WholeZones(f, x) : y = w
    OBVIOUS
  <2>1. CASE x = c
    BY <1>0, <1>4, <1>7, <1>8, <2>1
  <2>2. CASE x # c
    BY <1>1, <1>4, <1>6, <2>2
  <2> QED BY <2>1, <2>2
<1>10. SameClasses(zs, f)
  BY <1>0, <1>3 DEF SameClasses
<1> HIDE DEF c
<1> QED BY <1>1, <1>3, <1>4, <1>5, <1>9, <1>10 DEF Zoned

LEMMA OwnersGiven ==
    ASSUME Paged!SlabAssumption, NEW zs, NEW d, Owners(zs, d), NEW f, NEW e,
           NEW p \in Paged!Pointers, NEW w,
           \A z \in DOMAIN zs : z \in DOMAIN f /\ f[z].class = zs[z].class,
           IsGiven(d, e, p, w),
           w \in PageCounts \/ (w \in Paged!Classes /\ \E z, i : IsChunk(f, z, i, p) /\ f[z].class = w)
    PROVE  Owners(f, e)
<1>1. DOMAIN e = DOMAIN d \union {p} /\ e[p] = w /\ \A x \in DOMAIN d : x # p => e[x] = d[x]
  BY DEF IsGiven
<1>2. ASSUME NEW x \in DOMAIN e
      PROVE  \/ e[x] \in PageCounts
             \/ e[x] \in Paged!Classes /\ \E z \in DOMAIN f : \E i \in 0..Chunks[e[x]] - 1 :
                   f[z].class = e[x] /\ x = Paged!Pointer(z, e[x], i)
  <2>1. CASE x = p
    BY <1>1, <2>1 DEF IsChunk
  <2>2. CASE x # p
    <3>1. x \in DOMAIN d /\ e[x] = d[x]
      BY <1>1, <2>2
    <3>2. \/ d[x] \in PageCounts
          \/ d[x] \in Paged!Classes /\ \E z \in DOMAIN zs : \E i \in 0..Chunks[d[x]] - 1 :
                zs[z].class = d[x] /\ x = Paged!Pointer(z, d[x], i)
      BY <3>1 DEF Owners
    <3> QED BY <3>1, <3>2
  <2> QED BY <2>1, <2>2
<1>3. DOMAIN e \subseteq Paged!Pointers
  BY <1>1 DEF Owners
<1> QED BY <1>2, <1>3 DEF Owners

\* The pages of a zone.
LEMMA ZoneArea ==
    ASSUME Paged!SlabAssumption, SlabInv, NEW z \in DOMAIN zones \union Range(spare)
    PROVE  Paged!Area(z, ZonePages) \subseteq Paged!Pages /\ z \in Paged!Pages
           /\ z \in Paged!Area(z, ZonePages)
<1>1. \E y \in Shares : Span(y) = Paged!Area(z, ZonePages) /\ y.page = z
  <2>1. z \in DOMAIN zones => ZoneKey(z) \in Shares
    BY SlabLemma
  <2>2. z \in Range(spare) => SpareKey(z) \in Shares
    BY SlabLemma
  <2> QED BY <2>1, <2>2, KeyLemma
<1>2. PICK y \in Shares : Span(y) = Paged!Area(z, ZonePages) /\ y.page = z
  BY <1>1
<1>3. y.page \in Paged!Pages /\ y.page \in Span(y) /\ Span(y) \subseteq Paged!Pages
  BY SlabLemma, SpanLemma
<1> QED BY <1>2, <1>3

\* When only chunks are given memusage stays true.
LEMMA LeadsKept ==
    ASSUME NEW u, NEW Z, NEW d, Leads(u, Z, d), NEW e,
           \A p \in LargeOf(e) : p \in LargeOf(d) /\ e[p] = d[p]
    PROVE  Leads(u, Z, e)
BY DEF Leads

LEMMA MallocChunkSteps ==
    ASSUME Paged!SlabAssumption, SlabInv, NEW t \in Threads, Paged!Outside(t), NEW old,
           OldIs(t, old),
           NEW c \in Paged!Classes, Paged!MallocChunk(t, c, old)
    PROVE  SlabInv'
<1> DEFINE z == Head(avail[c])
           h == zones[z]
           i == GivesChunk(h)
           g == GaveChunk(h)
           p == Paged!Pointer(z, c, i)
           list == IF h.nfree = 1 THEN Tail(avail[c]) ELSE avail[c]
<1>0. avail[c] # <<>>
  BY DEF Paged!MallocChunk
<1>2. /\ Zoned(zones, avail, held) /\ Owners(zones, held)
      /\ Leads(usage, DOMAIN zones \union Range(spare), held)
      /\ Sorted(runs) /\ Divided(Shares)
      /\ Enumerates(spare, Range(spare)) /\ Len(spare) =< Threshold
  BY SlabLemma
<1>3. /\ z \in OpenZones(zones, c)
      /\ Enumerates(avail[c], OpenZones(zones, c))
      /\ Enumerates(Tail(avail[c]), OpenZones(zones, c) \ {z})
  <2>1. Enumerates(avail[c], OpenZones(zones, c))
    BY <1>2 DEF Zoned
  <2> QED BY <1>0, <2>1, BehindHead
<1>1. /\ zones' = ZonePut(zones, z, g)
      /\ avail' = IF h.nfree = 1 THEN [avail EXCEPT ![c] = Tail(@)] ELSE avail
      /\ Paged!Return(t, p, c, old)
      /\ runs' = runs /\ usage' = usage /\ spare' = spare
  <2>1. h.class = c
    BY <1>3 DEF OpenZones
  <2>2. IsFresh(h) <=> h.uindex + 1 # Chunks[c]
    BY <2>1 DEF IsFresh
  <2> QED BY <2>2 DEF Paged!MallocChunk, ZonePut, GaveChunk, GivesChunk
<1>4. avail' = ListPut(avail, c, list)
  <2>1. avail = [x \in Paged!Classes |-> avail[x]]
    BY <1>2 DEF Zoned
  <2>2. avail = [avail EXCEPT ![c] = avail[c]]
    BY <2>1
  <2> QED BY <1>1, <2>2 DEF ListPut
<1>5. z \in DOMAIN zones /\ h.class = c /\ h.nfree > 0 /\ ZoneOk(z, h, held) /\ h.nfree \in Nat
  <2>1. z \in DOMAIN zones /\ h.class = c /\ h.nfree > 0
    BY <1>3 DEF OpenZones
  <2>2. ZoneOk(z, h, held)
    BY <1>2, <2>1, ZoneLemma
  <2>3. h.nfree \in Nat
    BY <2>2, ZoneHas
  <2> QED BY <2>1, <2>2, <2>3
<1>6. IsGiven(held, held', p, c)
  <2>1. held' = WithBlock(held, p, c)
    BY <1>1 DEF Paged!Return, WithBlock
  <2> QED BY <2>1, GivenLemma
<1> HIDE DEF z, h, i, g, p, list
<1>7. /\ i \in 0..Chunks[c] - 1 /\ ZoneOk(z, g, held') /\ p \notin DOMAIN held
      /\ g.class = c /\ g.nfree = h.nfree - 1
  <2>1. p = Paged!Pointer(z, h.class, i)
        /\ IsGiven(held, held', Paged!Pointer(z, h.class, i), h.class)
    BY <1>5, <1>6 DEF p
  <2> QED BY <1>5, <2>1, ZoneGives DEF i, g
<1>8. IsChunk(zones, z, i, p) /\ p.page \in Paged!Area(z, ZonePages) /\ p.chunk = i /\ i \in Nat
  <2>1. IsChunk(zones, z, i, p)
    BY <1>5, <1>7 DEF IsChunk, p, h
  <2> QED BY <1>2, <1>5, <2>1, ZoneLemma
<1>9. /\ CallsOk(call', held')
      /\ Swaps(LargeKeys(held'), LargeKeys(held), {}, {})
      /\ Swaps(CallKeys(call'), CallKeys(call), {}, {})
  <2>1. /\ CallsOk(call', held')
        /\ Swaps(LargeKeys(held'), LargeKeys(held), {}, LargeGiven(p, c))
        /\ Swaps(CallKeys(call'), CallKeys(call), OwnKey(t, call[t]), {})
    BY <1>1, <1>7, ReturnLemma
  <2>2. LargeGiven(p, c) = {}
    BY PagesLemma DEF LargeGiven
  <2> QED BY <2>1, <2>2, OutsideKey
<1>10. Zoned(zones', avail', held') /\ SameClasses(zones, zones')
  <2>1. \A y \in DOMAIN zones : y # z => ZoneOk(y, zones[y], held')
    <3>1. \A x : x # p => SameAt(held, held', x)
      BY <1>6 DEF IsGiven
    <3>2. Divided(Keys(Range(runs), DOMAIN zones, Range(spare), held, call))
      BY SlabLemma
    <3> QED BY <1>2, <1>8, <3>1, <3>2, OthersKeep
  <2>2. Enumerates(list, OpenIs(zones, z, g))
    <3>1. CASE h.nfree = 1
      <4>1. OpenIs(zones, z, g) = OpenZones(zones, c) \ {z}
        BY <1>7, <3>1 DEF OpenIs
      <4> QED BY <1>3, <3>1, <4>1 DEF list
    <3>2. CASE h.nfree # 1
      <4>1. g.nfree > 0
        BY <1>5, <1>7, <3>2
      <4>2. OpenIs(zones, z, g) = OpenZones(zones, c)
        BY <1>3, <1>7, <4>1 DEF OpenIs
      <4> QED BY <1>3, <3>2, <4>2 DEF list
    <3> QED BY <3>1, <3>2
  <2>3. g.nfree # Chunks[g.class]
    <3>1. h.nfree =< Chunks[c] /\ Chunks[c] \in Nat
      BY <1>5, ZoneHas
    <3> QED BY <1>5, <1>7, <3>1
  <2>4. g.class = zones[z].class
    BY <1>5, <1>7 DEF h
  <2>5. avail' = ListPut(avail, g.class, list)
    BY <1>4, <1>7
  <2>6. MayPut(zones, z, g, list, held')
    BY <1>5, <1>7, <2>1, <2>2, <2>3, <2>4 DEF MayPut
  <2> QED BY <1>1, <1>2, <2>5, <2>6, ZonedChange
<1>11. Divided(Keys(Range(runs'), DOMAIN zones', Range(spare'), held', call'))
  <2>1. Keys(Range(runs'), DOMAIN zones', Range(spare'), held', call') = Shares
    <3>1. LargeKeys(held') = LargeKeys(held) /\ CallKeys(call') = CallKeys(call)
      BY <1>9 DEF Swaps
    <3> QED BY <1>1, <1>10, <3>1 DEF Keys, Shares, SameClasses
  <2> QED BY <1>2, <2>1
<1>12. Leads(usage', DOMAIN zones' \union Range(spare'), held')
  <2>1. \A x \in LargeOf(held') : x \in LargeOf(held) /\ held'[x] = held[x]
    <3>1. c \notin PageCounts
      BY PagesLemma
    <3> QED BY <1>6, <3>1 DEF IsGiven, LargeOf
  <2> QED BY <1>1, <1>2, <1>10, <2>1, LeadsKept DEF SameClasses
<1>13. Owners(zones', held')
  <2>1. p \in Paged!Pointers
    <3>1. p.page \in Paged!Pages
      BY <1>5, <1>8, ZoneArea
    <3>2. p = [page |-> p.page, chunk |-> p.chunk]
      BY DEF p, Paged!Pointer
    <3> QED BY <1>8, <3>1, <3>2 DEF Paged!Pointers
  <2>2. IsChunk(zones', z, i, p) /\ zones'[z].class = c
    BY <1>5, <1>8, <1>10 DEF IsChunk, h, SameClasses
  <2>3. \A y \in DOMAIN zones : y \in DOMAIN zones' /\ zones'[y].class = zones[y].class
    BY <1>10 DEF SameClasses
  <2> QED BY <1>2, <1>6, <2>1, <2>2, <2>3, OwnersGiven
<1> QED BY <1>1, <1>2, <1>9, <1>10, <1>11, <1>12, <1>13 DEF SlabInv

\* A new zone of class c, which has given its first chunk.
NewHeader(c) == [class |-> c, nfree |-> Chunks[c] - 1, uindex |-> 0, free |-> <<>>]
ZoneAdd(zs, z, h) == [x \in DOMAIN zs \union {z} |-> IF x = z THEN h ELSE zs[x]]

LEMMA NewZoneOk ==
    ASSUME Paged!SlabAssumption, NEW z, NEW c \in Paged!Classes, NEW d, NEW e,
           \A i \in 0..Chunks[c] - 1 : Paged!Pointer(z, c, i) \notin DOMAIN d,
           IsGiven(d, e, Paged!Pointer(z, c, 0), c)
    PROVE  ZoneOk(z, NewHeader(c), e)
<1> DEFINE h == NewHeader(c)
<1>1. /\ h.class = c /\ h.nfree = Chunks[c] - 1 /\ h.uindex = 0 /\ h.free = <<>>
      /\ h = [class |-> c, nfree |-> Chunks[c] - 1, uindex |-> 0, free |-> <<>>]
  BY DEF NewHeader
<1>2. Chunks[c] \in Nat /\ Chunks[c] > 1
  BY PagesLemma
<1> HIDE DEF h
<1>3. h \in Paged!Zones
  <2>1. Chunks[c] - 1 \in Nat
    BY <1>2
  <2> QED BY <1>1, <2>1 DEF Paged!Zones
<1>4. /\ h.uindex < Chunks[h.class] /\ h.free \in Seq(0..h.uindex) /\ IsInjective(h.free)
      /\ Range(h.free) = {} /\ Len(h.free) = 0
  BY <1>1, <1>2 DEF IsInjective, Range
<1>5. h.nfree = Chunks[h.class] - 1 - h.uindex + Len(h.free)
  <2>1. Chunks[c] - 1 = Chunks[c] - 1 - 0 + 0
    BY <1>2
  <2> QED BY <1>1, <1>4, <2>1
<1>6. \A i \in 0..Chunks[c] - 1 :
         /\ (Paged!Pointer(z, c, i) \in DOMAIN e) <=> (i =< 0 /\ i \notin {})
         /\ Paged!Pointer(z, c, i) \in DOMAIN e => e[Paged!Pointer(z, c, i)] = c
  <2> SUFFICES ASSUME NEW i \in 0..Chunks[c] - 1
               PROVE  /\ (Paged!Pointer(z, c, i) \in DOMAIN e) <=> i =< 0
                      /\ Paged!Pointer(z, c, i) \in DOMAIN e => e[Paged!Pointer(z, c, i)] = c
    OBVIOUS
  <2>1. CASE i = 0
    BY <2>1 DEF IsGiven
  <2>2. CASE i # 0
    <3>1. Paged!Pointer(z, c, i) # Paged!Pointer(z, c, 0)
      BY <2>2, ChunksApart
    <3>2. Paged!Pointer(z, c, i) \notin DOMAIN e
      BY <3>1 DEF IsGiven, SameAt
    <3>3. ~(i =< 0)
      BY <1>2, <2>2
    <3> QED BY <3>2, <3>3
  <2> QED BY <2>1, <2>2
<1> QED BY <1>1, <1>3, <1>4, <1>5, <1>6 DEF ZoneOk, h

LEMMA ZonedAdds ==
    ASSUME Paged!SlabAssumption, NEW zs, NEW a, NEW d, Zoned(zs, a, d), NEW z \in Paged!Pages,
           z \notin DOMAIN zs,
           NEW e, NEW c \in Paged!Classes, ZoneOk(z, NewHeader(c), e),
           \A y \in DOMAIN zs : ZoneOk(y, zs[y], e),
           NEW f, f = ZoneAdd(zs, z, NewHeader(c)), NEW b, b = ListPut(a, c, <<z>> \o a[c])
    PROVE  /\ Zoned(f, b, e) /\ DOMAIN f = DOMAIN zs \union {z} /\ f[z].class = c
           /\ \A y \in DOMAIN zs : y \in DOMAIN f /\ f[y].class = zs[y].class
<1> DEFINE g == NewHeader(c)
<1>1. /\ DOMAIN zs \subseteq Paged!Pages /\ a = [x \in Paged!Classes |-> a[x]]
      /\ \A x \in Paged!Classes : /\ Enumerates(a[x], OpenZones(zs, x))
                                  /\ \A y, w \in WholeZones(zs, x) : y = w
  BY DEF Zoned
<1>2. g.class = c /\ g.nfree > 0 /\ g.nfree # Chunks[c]
  <2>1. g.class = c /\ g.nfree = Chunks[c] - 1
    BY DEF NewHeader
  <2> QED BY <2>1, PagesLemma
<1> HIDE DEF g
<1>3. DOMAIN f = DOMAIN zs \union {z} /\ f[z] = g /\ \A y \in DOMAIN zs : y # z /\ f[y] = zs[y]
  BY DEF ZoneAdd, g
<1>4. /\ b = [x \in Paged!Classes |-> b[x]] /\ b[c] = <<z>> \o a[c]
      /\ \A x \in Paged!Classes : x # c => b[x] = a[x]
  BY <1>1 DEF ListPut
<1>5. \A y \in DOMAIN f : ZoneOk(y, f[y], e)
  BY <1>3 DEF g
<1>6. ASSUME NEW x \in Paged!Classes, x # c PROVE OpenZones(f, x) = OpenZones(zs, x)
  BY <1>2, <1>3, <1>6 DEF OpenZones
<1>7. OpenZones(f, c) = OpenZones(zs, c) \union {z} /\ z \notin OpenZones(zs, c)
  BY <1>2, <1>3 DEF OpenZones
<1>8. \A x \in Paged!Classes : WholeZones(f, x) = WholeZones(zs, x)
  BY <1>2, <1>3 DEF WholeZones
<1>9. Enumerates(b[c], OpenZones(f, c))
  <2>1. Enumerates(a[c], OpenZones(zs, c))
    BY <1>1
  <2>2. Enumerates(<<z>> \o a[c], OpenZones(zs, c) \union {z})
    BY <1>7, <2>1, PrependLemma
  <2> QED BY <1>4, <1>7, <2>2
<1>10. \A x \in Paged!Classes : /\ Enumerates(b[x], OpenZones(f, x))
                                /\ \A y, w \in WholeZones(f, x) : y = w
  <2> SUFFICES ASSUME NEW x \in Paged!Classes
               PROVE  /\ Enumerates(b[x], OpenZones(f, x))
                      /\ \A y, w \in WholeZones(f, x) : y = w
    OBVIOUS
  <2>1. CASE x = c
    BY <1>1, <1>8, <1>9, <2>1
  <2>2. CASE x # c
    BY <1>1, <1>4, <1>6, <1>8, <2>2
  <2> QED BY <2>1, <2>2
<1>11. Zoned(f, b, e)
  BY <1>1, <1>3, <1>4, <1>5, <1>10 DEF Zoned
<1> QED BY <1>2, <1>3, <1>11

LEMMA MadeLemma ==
    ASSUME Paged!SlabAssumption, SlabInv, NEW t \in Threads, NEW old, OldIs(t, old),
           NEW c \in Paged!Classes,
           NEW z, Paged!Made(t, z, c, old), NEW x \in Shares, x.page = z, x.n = ZonePages,
           x.kind # "large", x.kind # "zone"
    PROVE  /\ Zoned(zones', avail', held') /\ Owners(zones', held') /\ CallsOk(call', held')
           /\ z \notin DOMAIN zones /\ DOMAIN zones' = DOMAIN zones \union {z}
           /\ Swaps(LargeKeys(held'), LargeKeys(held), {}, {})
           /\ Swaps(CallKeys(call'), CallKeys(call), OwnKey(t, call[t]), {})
           /\ \A p \in LargeOf(held') : p \in LargeOf(held) /\ held'[p] = held[p]
           /\ \A p \in LargeOf(held) : p.page \notin Paged!Area(z, ZonePages)
<1> DEFINE p == Paged!Pointer(z, c, 0)
<1>1. /\ zones' = ZoneAdd(zones, z, NewHeader(c))
      /\ avail' = ListPut(avail, c, <<z>> \o avail[c])
      /\ Paged!Return(t, p, c, old)
  BY DEF Paged!Made, ZoneAdd, NewHeader, ListPut
<1>2. /\ Zoned(zones, avail, held) /\ Owners(zones, held) /\ Divided(Shares)
      /\ Divided(Keys(Range(runs), DOMAIN zones, Range(spare), held, call))
  BY SlabLemma
<1>3. /\ Span(x) = Paged!Area(z, ZonePages) /\ z \in Paged!Pages
      /\ Paged!Area(z, ZonePages) \subseteq Paged!Pages
      /\ z \in Paged!Area(z, ZonePages)
  <2>1. Span(x) = Paged!Area(z, ZonePages)
    BY DEF Span, Paged!Area
  <2> QED BY <1>2, <2>1, SpanLemma
<1>4. \A q : q.page \in Paged!Area(z, ZonePages) =>
         /\ q \notin DOMAIN held /\ \A y \in DOMAIN zones : \A j : ~IsChunk(zones, y, j, q)
         /\ \A y \in DOMAIN zones : q.page \notin Paged!Area(y, ZonePages)
         /\ \A y \in LargeOf(held) : y.page # q.page
  BY <1>2, <1>3, NobodyHas DEF Shares
<1>5. \A i \in 0..Chunks[c] - 1 : Paged!Pointer(z, c, i).page \in Paged!Area(z, ZonePages)
  BY <1>3, ChunkLemma
<1>6. 0 \in 0..Chunks[c] - 1
  BY PagesLemma
<1>7. /\ p.page \in Paged!Area(z, ZonePages) /\ p \notin DOMAIN held
      /\ \A y \in DOMAIN zones : \A j : ~IsChunk(zones, y, j, p)
  BY <1>4, <1>5, <1>6
<1>8. z \notin DOMAIN zones
  <2>1. \E q : q.page = z
    <3>1. [page |-> z].page = z
      OBVIOUS
    <3> QED BY <3>1
  <2>2. \A y \in DOMAIN zones : z \notin Paged!Area(y, ZonePages)
    BY <1>3, <1>4, <2>1
  <2> QED BY <1>3, <2>2
<1> HIDE DEF p
<1>9. /\ IsGiven(held, held', p, c) /\ CallsOk(call', held')
      /\ Swaps(LargeKeys(held'), LargeKeys(held), {}, {})
      /\ Swaps(CallKeys(call'), CallKeys(call), OwnKey(t, call[t]), {})
  <2>1. /\ IsGiven(held, held', p, c) /\ CallsOk(call', held')
        /\ Swaps(LargeKeys(held'), LargeKeys(held), {}, LargeGiven(p, c))
        /\ Swaps(CallKeys(call'), CallKeys(call), OwnKey(t, call[t]), {})
    BY <1>1, <1>7, ReturnLemma
  <2>2. LargeGiven(p, c) = {}
    BY PagesLemma DEF LargeGiven
  <2> QED BY <2>1, <2>2
<1>10. ZoneOk(z, NewHeader(c), held')
  <2>1. \A i \in 0..Chunks[c] - 1 : Paged!Pointer(z, c, i) \notin DOMAIN held
    BY <1>4, <1>5
  <2> QED BY <1>9, <2>1, NewZoneOk DEF p
<1>11. \A y \in DOMAIN zones : ZoneOk(y, zones[y], held')
  <2> SUFFICES ASSUME NEW y \in DOMAIN zones PROVE ZoneOk(y, zones[y], held')
    OBVIOUS
  <2>1. \A i \in 0..Chunks[zones[y].class] - 1 :
           SameAt(held, held', Paged!Pointer(y, zones[y].class, i))
    <3> SUFFICES ASSUME NEW i \in 0..Chunks[zones[y].class] - 1
                 PROVE  SameAt(held, held', Paged!Pointer(y, zones[y].class, i))
      OBVIOUS
    <3>1. IsChunk(zones, y, i, Paged!Pointer(y, zones[y].class, i))
      BY DEF IsChunk
    <3>2. Paged!Pointer(y, zones[y].class, i) # p
      BY <1>7, <3>1
    <3> QED BY <1>9, <3>2 DEF IsGiven
  <2>2. ZoneOk(y, zones[y], held)
    BY <1>2, ZoneLemma
  <2> QED BY <2>1, <2>2, ZoneKeeps
<1>12. /\ Zoned(zones', avail', held') /\ DOMAIN zones' = DOMAIN zones \union {z}
       /\ zones'[z].class = c
       /\ \A y \in DOMAIN zones : y \in DOMAIN zones' /\ zones'[y].class = zones[y].class
  BY <1>1, <1>2, <1>3, <1>8, <1>10, <1>11, ZonedAdds
<1>13. Owners(zones', held')
  <2>1. p \in Paged!Pointers
    <3>1. p.page \in Paged!Pages
      BY <1>3, <1>7
    <3>2. p = [page |-> p.page, chunk |-> 0]
      BY DEF p, Paged!Pointer
    <3> QED BY <3>1, <3>2 DEF Paged!Pointers
  <2>2. IsChunk(zones', z, 0, p)
    BY <1>6, <1>12 DEF IsChunk, p
  <2> QED BY <1>2, <1>9, <1>12, <2>1, <2>2, OwnersGiven
<1>14. \A q \in LargeOf(held') : q \in LargeOf(held) /\ held'[q] = held[q]
  <2>1. c \notin PageCounts
    BY PagesLemma
  <2> QED BY <1>9, <2>1 DEF IsGiven, LargeOf
<1>15. \A q \in LargeOf(held) : q.page \notin Paged!Area(z, ZonePages)
  BY <1>4
<1> QED BY <1>8, <1>9, <1>12, <1>13, <1>14, <1>15

LEMMA MallocSpareSteps ==
    ASSUME Paged!SlabAssumption, SlabInv, NEW t \in Threads, Paged!Outside(t), NEW old,
           OldIs(t, old),
           NEW c \in Paged!Classes, Paged!MallocSpare(t, c, old)
    PROVE  SlabInv'
<1> DEFINE z == Head(spare)
           x == SpareKey(z)
<1>1. /\ spare # <<>> /\ Paged!Made(t, z, c, old) /\ spare' = Tail(spare)
      /\ runs' = runs /\ usage' = usage
  BY DEF Paged!MallocSpare
<1>2. z \in Range(spare) /\ Enumerates(Tail(spare), Range(spare) \ {z})
  BY <1>1, SlabLemma, BehindHead
<1>3. Range(spare') = Range(spare) \ {z} /\ Enumerates(spare', Range(spare'))
  BY <1>1, <1>2 DEF Enumerates
<1>4. Len(spare') =< Threshold
  <2>1. spare \in Seq(Range(spare)) /\ Len(spare) =< Threshold /\ Threshold \in Nat
    BY SlabLemma, PagesLemma DEF Enumerates
  <2>2. Len(Tail(spare)) = Len(spare) - 1 /\ Len(spare) \in Nat
    BY <1>1, <2>1
  <2> QED BY <1>1, <2>1, <2>2
<1>5. x \in Shares /\ x.page = z /\ x.n = ZonePages /\ x.kind = "spare"
  BY <1>2, SlabLemma, KeyLemma
<1> HIDE DEF z, x
<1>6. /\ Zoned(zones', avail', held') /\ Owners(zones', held') /\ CallsOk(call', held')
      /\ z \notin DOMAIN zones /\ DOMAIN zones' = DOMAIN zones \union {z}
      /\ Swaps(LargeKeys(held'), LargeKeys(held), {}, {})
      /\ Swaps(CallKeys(call'), CallKeys(call), {}, {})
      /\ \A p \in LargeOf(held') : p \in LargeOf(held) /\ held'[p] = held[p]
  BY <1>1, <1>5, MadeLemma, OutsideKey
<1>7. Divided(Keys(Range(runs'), DOMAIN zones', Range(spare'), held', call'))
  <2> DEFINE J == Keys(Range(runs), DOMAIN zones', Range(spare'), held', call')
  <2>1. Swaps(ZoneKeys(DOMAIN zones'), ZoneKeys(DOMAIN zones), ZoneKeys({}), ZoneKeys({z}))
    BY <1>6, ZonesMove
  <2>2. Swaps(SpareKeys(Range(spare')), SpareKeys(Range(spare)), SpareKeys({z}), SpareKeys({}))
    BY <1>2, <1>3, SparesMove
  <2>3. /\ ZoneKeys({}) = {} /\ ZoneKeys({z}) = {ZoneKey(z)} /\ SpareKeys({z}) = {x}
        /\ SpareKeys({}) = {}
    BY DEF ZoneKeys, SpareKeys, x
  <2>4. Swaps(J, Shares, {} \union {} \union {x} \union {} \union {},
              {} \union {ZoneKey(z)} \union {} \union {} \union {})
    BY <1>6, <2>1, <2>2, <2>3, Stays, KeysChange DEF Shares
  <2> HIDE DEF J
  <2>5. J = (Shares \ {x}) \union {ZoneKey(z)}
    BY <2>4 DEF Swaps
  <2>6. ZoneKey(z).page = x.page /\ ZoneKey(z).n = x.n
    BY <1>5, KeyLemma
  <2>7. Divided(J)
    BY <1>5, <2>5, <2>6, SlabLemma, Handed
  <2> QED BY <1>1, <2>7 DEF J
<1>8. Leads(usage', DOMAIN zones' \union Range(spare'), held')
  <2>1. DOMAIN zones' \union Range(spare') = DOMAIN zones \union Range(spare)
    BY <1>2, <1>3, <1>6
  <2> QED BY <1>1, <1>6, <2>1, SlabLemma, LeadsKept
<1>9. Sorted(runs')
  BY <1>1, SlabLemma
<1> QED BY <1>3, <1>4, <1>6, <1>7, <1>8, <1>9 DEF SlabInv

\* A call goes on, and nothing else changes that callers have.
LEMMA GoesOn ==
    ASSUME Paged!SlabAssumption, SlabInv, NEW t \in Threads, NEW c \in Paged!Calls,
           CallOk(c, held),
           OldIs(t, c.old), call' = [call EXCEPT ![t] = c]
    PROVE  /\ CallsOk(call', held)
           /\ Swaps(CallKeys(call'), CallKeys(call), OwnKey(t, call[t]), OwnKey(t, c))
<1>1. CallsOk(call, held) /\ call = [u \in Threads |-> call[u]]
  BY SlabLemma
<1>2. ASSUME NEW u \in Threads, u # t, call[u] # NoCall
      PROVE  (call[u].old # NoCall => call[u].old \in DOMAIN held) /\ OtherOld(call[u], c)
  BY <1>1, <1>2 DEF CallsOk, CallOk, OtherOld, OldIs, NotOthers
<1>3. CallsOk(call', held)
  BY <1>1, <1>2, CallsChange
<1>4. Swaps(CallKeys(call'), CallKeys(call), OwnKey(t, call[t]), OwnKey(t, c))
  BY <1>1, CallMoves
<1> QED BY <1>3, <1>4

AtPages(c, old) == [at |-> "pages", what |-> c, run |-> NoCall, old |-> old]

LEMMA MallocZoneSteps ==
    ASSUME Paged!SlabAssumption, SlabInv, NEW t \in Threads, Paged!Outside(t), NEW old,
           OldIs(t, old),
           NEW c \in Paged!Classes, Paged!MallocZone(t, c, old)
    PROVE  SlabInv'
<1> DEFINE k == AtPages(c, old)
<1>1. /\ call' = [call EXCEPT ![t] = k]
      /\ runs' = runs /\ usage' = usage /\ zones' = zones /\ avail' = avail
      /\ spare' = spare /\ held' = held
  BY DEF Paged!MallocZone, Paged!Goto, AtPages
<1>2. k.at = "pages" /\ k.what = c /\ k.run = NoCall /\ k.old = old
  BY DEF AtPages
<1>3. k \in Paged!Calls
  <2>1. old \in Paged!Pointers \union {NoCall}
    BY SlabLemma DEF OldIs
  <2> QED BY <2>1 DEF Paged!Calls, AtPages
<1>4. CallOk(k, held) /\ OwnKey(t, k) = {}
  BY <1>2, <1>3 DEF CallOk, OldIs, OwnKey, HasRun
<1> HIDE DEF k
<1>5. CallsOk(call', held) /\ Swaps(CallKeys(call'), CallKeys(call), {}, {})
  BY <1>1, <1>2, <1>3, <1>4, GoesOn, OutsideKey
<1>6. Divided(Keys(Range(runs'), DOMAIN zones', Range(spare'), held', call'))
  <2>1. CallKeys(call') = CallKeys(call)
    BY <1>5 DEF Swaps
  <2>2. Keys(Range(runs'), DOMAIN zones', Range(spare'), held', call') = Shares
    BY <1>1, <2>1 DEF Keys, Shares
  <2> QED BY <2>2, SlabLemma
<1> QED BY <1>1, <1>5, <1>6 DEF SlabInv

LEMMA ObtainSteps ==
    ASSUME Paged!SlabAssumption, SlabInv, NEW t \in Threads, Paged!Outside(t), NEW old,
           OldIs(t, old),
           NEW what, Paged!Obtain(t, what, old)
    PROVE  SlabInv'
<1>1. CASE what \in PageCounts /\ Paged!MallocLarge(t, what, old)
  BY <1>1, MallocLargeSteps
<1>2. CASE what \in Paged!Classes /\ Paged!MallocChunk(t, what, old)
  BY <1>2, MallocChunkSteps
<1>3. CASE what \in Paged!Classes /\ Paged!MallocSpare(t, what, old)
  BY <1>3, MallocSpareSteps
<1>4. CASE what \in Paged!Classes /\ Paged!MallocZone(t, what, old)
  BY <1>4, MallocZoneSteps
<1> QED BY <1>1, <1>2, <1>3, <1>4 DEF Paged!Obtain

\* The block that a call will free is nobody else's to free.
LEMMA OwnOld ==
    ASSUME Paged!SlabAssumption, SlabInv, NEW t \in Threads, call[t] # NoCall
    PROVE  /\ OldIs(t, call[t].old) /\ CallOk(call[t], held) /\ call[t] \in Paged!Calls
           /\ call[t] = [at |-> call[t].at, what |-> call[t].what, run |-> call[t].run,
                         old |-> call[t].old]
<1>1. CallsOk(call, held)
  BY SlabLemma
<1>2. CallOk(call[t], held)
  BY <1>1 DEF CallsOk
<1>3. call[t] \in Paged!Calls
  BY <1>2 DEF CallOk
<1>4. ASSUME call[t].old # NoCall PROVE NotOthers(call, t, call[t].old)
  <2>1. \A u \in Threads : u # t => OtherOld(call[u], call[t])
    BY <1>1 DEF CallsOk
  <2> QED BY <1>4, <2>1 DEF NotOthers, OtherOld
<1>5. OldIs(t, call[t].old)
  BY <1>2, <1>4 DEF OldIs, CallOk
<1>6. call[t] = [at |-> call[t].at, what |-> call[t].what, run |-> call[t].run,
                 old |-> call[t].old]
  BY <1>3 DEF Paged!Calls
<1> QED BY <1>2, <1>3, <1>5, <1>6

LEMMA ZoneCall ==
    ASSUME NEW c \in Paged!Calls, NEW r
    PROVE  [c EXCEPT !.at = "zone", !.run = r] =
           [at |-> "zone", what |-> c.what, run |-> r, old |-> c.old]
<1> DEFINE a == [c EXCEPT !.at = "zone", !.run = r]
           b == [at |-> "zone", what |-> c.what, run |-> r, old |-> c.old]
<1>1. DOMAIN c = {"at", "what", "run", "old"} /\ c = [x \in DOMAIN c |-> c[x]]
  BY DEF Paged!Calls
<1>2. DOMAIN a = {"at", "what", "run", "old"} /\ a = [x \in DOMAIN a |-> a[x]]
  BY <1>1
<1>3. a.at = "zone" /\ a.what = c.what /\ a.run = r /\ a.old = c.old
  BY <1>1
<1>4. /\ DOMAIN b = {"at", "what", "run", "old"} /\ b = [x \in DOMAIN b |-> b[x]]
      /\ b.at = "zone" /\ b.what = c.what /\ b.run = r /\ b.old = c.old
  OBVIOUS
<1> HIDE DEF a, b
<1>5. \A x \in {"at", "what", "run", "old"} : a[x] = b[x]
  BY <1>3, <1>4
<1>6. a = b
  BY <1>2, <1>4, <1>5
<1> QED BY <1>6 DEF a, b

LEMMA TakePagesSteps ==
    ASSUME Paged!SlabAssumption, SlabInv, NEW t \in Threads, Paged!TakePages(t)
    PROVE  SlabInv'
<1>1. /\ call[t] # NoCall /\ call[t].at = "pages" /\ usage' = usage /\ zones' = zones
      /\ avail' = avail /\ spare' = spare /\ held' = held
  BY DEF Paged!TakePages, Paged!InCall
<1>2. /\ OldIs(t, call[t].old) /\ CallOk(call[t], held)
      /\ call[t] = [at |-> call[t].at, what |-> call[t].what, run |-> call[t].run,
                    old |-> call[t].old]
  BY <1>1, OwnOld
<1>3. call[t].what \in Paged!Classes /\ call[t].run = NoCall /\ OwnKey(t, call[t]) = {}
      /\ call[t] \in Paged!Calls
  BY <1>1, <1>2 DEF CallOk, OwnKey, HasRun
<1>4. ZonePages \in Nat /\ ZonePages > 0
  BY PagesLemma
<1>5. CASE Paged!Fits(ZonePages) = {}
  <2>1. call' = [call EXCEPT ![t] = NoCall] /\ runs' = runs
    BY <1>5 DEF Paged!TakePages, Paged!Goto
  <2>2. CallsOk(call, held) /\ call = [u \in Threads |-> call[u]]
    BY SlabLemma
  <2>3. CallsOk(call', held)
    <3>1. \A u \in Threads : u # t /\ call[u] # NoCall /\ call[u].old # NoCall =>
             call[u].old \in DOMAIN held
      BY <2>2 DEF CallsOk, CallOk
    <3> QED BY <2>1, <2>2, <3>1, CallEnds
  <2>4. OwnKey(t, NoCall) = {}
    BY DEF OwnKey, HasRun
  <2>5. CallKeys(call') = CallKeys(call)
    <3>1. Swaps(CallKeys(call'), CallKeys(call), OwnKey(t, call[t]), OwnKey(t, NoCall))
      BY <2>1, <2>2, CallMoves
    <3> QED BY <1>3, <2>4, <3>1 DEF Swaps
  <2>6. Keys(Range(runs'), DOMAIN zones', Range(spare'), held', call') = Shares
    BY <1>1, <2>1, <2>5 DEF Keys, Shares
  <2> QED BY <1>1, <2>1, <2>3, <2>6, SlabLemma DEF SlabInv
<1>6. CASE Paged!Fits(ZonePages) # {}
  <2> DEFINE i == Paged!FirstFit(ZonePages)
             r == runs[i]
             g == [page |-> r.page, n |-> ZonePages]
             k == [at |-> "zone", what |-> call[t].what, run |-> g, old |-> call[t].old]
  <2>1. /\ runs' = Paged!Taken(i, ZonePages)
        /\ call' = [call EXCEPT ![t] = [call[t] EXCEPT !.at = "zone", !.run = g]]
    BY <1>6 DEF Paged!TakePages, Paged!Goto
  <2>2. [call[t] EXCEPT !.at = "zone", !.run = g] = k
    BY <1>3, ZoneCall
  <2>3. /\ i \in DOMAIN runs /\ r \in Range(runs) /\ r.page \in Paged!Pages /\ Sorted(runs')
        /\ Range(runs') = (Range(runs) \ {r}) \union RestOf(r, ZonePages)
        /\ ZonePages \in Paged!Pages
    BY <1>4, <1>6, <2>1, FitLemma
  <2>4. g \in Paged!Runs /\ g.page = r.page /\ g.n = ZonePages
    BY <2>3 DEF Paged!Runs
  <2>5. /\ k.at = "zone" /\ k.what = call[t].what /\ k.run = g /\ k.old = call[t].old
    OBVIOUS
  <2>6. k \in Paged!Calls
    BY <1>3, <2>4 DEF Paged!Calls
  <2>7. call' = [call EXCEPT ![t] = k]
    BY <2>1, <2>2
  <2>8. g # NoCall /\ k # NoCall
    BY <2>4, <2>6, PagesLemma
  <2> HIDE DEF k, g, r, i
  <2>9. CallOk(k, held) /\ OwnKey(t, k) = {CallKey(t, g)}
    BY <1>2, <1>3, <2>4, <2>5, <2>6, <2>8 DEF CallOk, OwnKey, HasRun
  <2>10. CallsOk(call', held) /\ Swaps(CallKeys(call'), CallKeys(call), {}, {CallKey(t, g)})
    BY <1>2, <1>3, <2>5, <2>6, <2>7, <2>9, GoesOn
  <2>11. Divided(Keys(Range(runs'), DOMAIN zones', Range(spare'), held', call'))
    <3> DEFINE J == Keys(Range(runs'), DOMAIN zones, Range(spare), held, call')
    <3>1. Swaps(RunKeys(Range(runs')), RunKeys(Range(runs)), RunKeys({r}),
                RunKeys(RestOf(r, ZonePages)))
      BY <2>3, RunsMove
    <3>2. RunKeys({r}) = {RunKey(r)}
      BY DEF RunKeys
    <3>3. Swaps(J, Shares, RunKeys({r}) \union {} \union {} \union {} \union {},
                RunKeys(RestOf(r, ZonePages)) \union {} \union {} \union {} \union {CallKey(t, g)})
      BY <2>10, <3>1, Stays, KeysChange DEF Shares
    <3> HIDE DEF J
    <3>4. Swaps(J, Shares, {RunKey(r)}, RunKeys(RestOf(r, ZonePages)) \union {CallKey(t, g)})
      BY <3>2, <3>3
    <3>5. CallKey(t, g).page = r.page /\ CallKey(t, g).n = ZonePages
      BY <2>4, KeyLemma
    <3>6. Divided(J)
      BY <1>4, <1>6, <3>4, <3>5, TakesPages DEF r, i
    <3> QED BY <1>1, <3>6 DEF J
  <2> QED BY <1>1, <2>3, <2>10, <2>11, SlabLemma DEF SlabInv
<1> QED BY <1>5, <1>6

LEMMA NewZoneSteps ==
    ASSUME Paged!SlabAssumption, SlabInv, NEW t \in Threads, Paged!NewZone(t)
    PROVE  SlabInv'
<1> DEFINE r == call[t].run
           z == r.page
           x == CallKey(t, r)
           Z == DOMAIN zones \union Range(spare)
<1>1. /\ call[t] # NoCall /\ call[t].at = "zone" /\ runs' = runs /\ spare' = spare
      /\ usage' = [q \in Paged!Pages |-> IF q \in Paged!Area(z, ZonePages)
                                   THEN [type |-> "small", size |-> q - z] ELSE usage[q]]
      /\ Paged!Made(t, z, call[t].what, call[t].old)
  BY DEF Paged!NewZone, Paged!InCall, Paged!Area
<1>2. OldIs(t, call[t].old) /\ CallOk(call[t], held)
  BY <1>1, OwnOld
<1>3. call[t].what \in Paged!Classes /\ r \in Paged!Runs /\ r.n = ZonePages
  BY <1>1, <1>2 DEF CallOk
<1>4. HasRun(call[t]) /\ OwnKey(t, call[t]) = {x}
  BY <1>1, <1>3, PagesLemma DEF HasRun, OwnKey
<1>5. x \in Shares /\ x.page = z /\ x.n = ZonePages /\ x.kind = "call"
      /\ Span(x) = Paged!Area(z, ZonePages)
  BY <1>3, <1>4, SlabLemma, KeyLemma
<1> HIDE DEF x, z, r
<1>6. /\ Zoned(zones', avail', held') /\ Owners(zones', held') /\ CallsOk(call', held')
      /\ z \notin DOMAIN zones /\ DOMAIN zones' = DOMAIN zones \union {z}
      /\ Swaps(LargeKeys(held'), LargeKeys(held), {}, {})
      /\ Swaps(CallKeys(call'), CallKeys(call), {x}, {})
      /\ \A p \in LargeOf(held') : p \in LargeOf(held) /\ held'[p] = held[p]
      /\ \A p \in LargeOf(held) : p.page \notin Paged!Area(z, ZonePages)
  <2>1. x.kind # "large" /\ x.kind # "zone"
    BY <1>5
  <2> QED BY <1>1, <1>2, <1>3, <1>4, <1>5, <2>1, MadeLemma
<1>7. Divided(Keys(Range(runs'), DOMAIN zones', Range(spare'), held', call'))
  <2> DEFINE J == Keys(Range(runs), DOMAIN zones', Range(spare), held', call')
  <2>1. Swaps(ZoneKeys(DOMAIN zones'), ZoneKeys(DOMAIN zones), ZoneKeys({}), ZoneKeys({z}))
    BY <1>6, ZonesMove
  <2>2. ZoneKeys({}) = {} /\ ZoneKeys({z}) = {ZoneKey(z)}
    BY DEF ZoneKeys
  <2>a. /\ Swaps(RunKeys(Range(runs)), RunKeys(Range(runs)), {}, {})
        /\ Swaps(SpareKeys(Range(spare)), SpareKeys(Range(spare)), {}, {})
    BY Stays
  <2>b. /\ Swaps(LargeKeys(held'), LargeKeys(held), {}, {})
        /\ Swaps(CallKeys(call'), CallKeys(call), {x}, {})
        /\ Swaps(ZoneKeys(DOMAIN zones'), ZoneKeys(DOMAIN zones), {}, {ZoneKey(z)})
    BY <1>6, <2>1, <2>2
  <2>3. Swaps(J, Shares, {} \union {} \union {} \union {} \union {x},
              {} \union {ZoneKey(z)} \union {} \union {} \union {})
    BY <2>a, <2>b, KeysChange DEF Shares
  <2> HIDE DEF J
  <2>4. J = (Shares \ {x}) \union {ZoneKey(z)}
    BY <2>3 DEF Swaps
  <2>5. ZoneKey(z).page = x.page /\ ZoneKey(z).n = x.n
    BY <1>5, KeyLemma
  <2>6. Divided(J)
    BY <1>5, <2>4, <2>5, SlabLemma, Handed
  <2> QED BY <1>1, <2>6 DEF J
<1>8. Paged!Area(z, ZonePages) \subseteq Paged!Pages /\ z \in Nat /\ z >= 1
  BY <1>5, SlabLemma, SpanLemma
<1>9. usage' \in [Paged!Pages -> Paged!Usages]
  <2>1. ASSUME NEW q \in Paged!Pages, q \in Paged!Area(z, ZonePages)
        PROVE  [type |-> "small", size |-> q - z] \in Paged!Usages
    <3>1. q - z \in 0..LastPage
      BY <1>8, <2>1, PagesLemma DEF Paged!Area
    <3> QED BY <3>1 DEF Paged!Usages
  <2>2. usage \in [Paged!Pages -> Paged!Usages]
    BY SlabLemma
  <2> QED BY <1>1, <2>1, <2>2
<1>10. \A y \in Z : \A q \in Paged!Area(y, ZonePages) : usage'[q] = usage[q]
  <2> SUFFICES ASSUME NEW y \in Z, NEW q \in Paged!Area(y, ZonePages) PROVE usage'[q] = usage[q]
    OBVIOUS
  <2>1. \E w \in Shares : Span(w) = Paged!Area(y, ZonePages) /\ w.kind # "call"
    <3>1. y \in DOMAIN zones => ZoneKey(y) \in Shares
      BY SlabLemma
    <3>2. y \in Range(spare) => SpareKey(y) \in Shares
      BY SlabLemma
    <3> QED BY <3>1, <3>2, KeyLemma
  <2>2. PICK w \in Shares : Span(w) = Paged!Area(y, ZonePages) /\ w.kind # "call"
    BY <2>1
  <2>3. w # x
    BY <1>5, <2>2
  <2>4. q \notin Paged!Area(z, ZonePages)
    BY <1>5, <2>2, <2>3, SlabLemma, OneKey
  <2>5. q \in Paged!Pages
    BY ZoneArea
  <2> QED BY <1>1, <2>4, <2>5
<1>11. Leads(usage', DOMAIN zones' \union Range(spare'), held')
  <2>1. \A y \in Z \union {z} :
           \/ y \in Z /\ \A q \in Paged!Area(y, ZonePages) : usage'[q] = usage[q]
           \/ \A q \in Paged!Area(y, ZonePages) : usage'[q] = [type |-> "small", size |-> q - y]
    <3>1. \A q \in Paged!Area(z, ZonePages) : usage'[q] = [type |-> "small", size |-> q - z]
      BY <1>1, <1>8
    <3> QED BY <1>10, <3>1
  <2>2. \A p \in LargeOf(held') : /\ p \in LargeOf(held) /\ held'[p] = held[p]
                                  /\ usage'[p.page] = usage[p.page]
    <3> SUFFICES ASSUME NEW p \in LargeOf(held')
                 PROVE  /\ p \in LargeOf(held) /\ held'[p] = held[p]
                        /\ usage'[p.page] = usage[p.page]
      OBVIOUS
    <3>1. p \in LargeOf(held) /\ held'[p] = held[p] /\ p.page \notin Paged!Area(z, ZonePages)
      BY <1>6
    <3>2. p \in Paged!Pointers
      BY <3>1, SlabLemma DEF LargeOf
    <3>3. p.page \in Paged!Pages
      BY <3>2 DEF Paged!Pointers
    <3> QED BY <1>1, <3>1, <3>3
  <2>3. KeepsLeading(usage, usage', Z, Z \union {z}, held, held')
    BY <1>9, <2>1, <2>2 DEF KeepsLeading
  <2>4. DOMAIN zones' \union Range(spare') = Z \union {z}
    BY <1>1, <1>6
  <2>5. Leads(usage, Z, held)
    BY SlabLemma
  <2> HIDE DEF Z
  <2> QED BY <2>3, <2>4, <2>5, LeadsChange
<1> QED BY <1>1, <1>6, <1>7, <1>11, SlabLemma DEF SlabInv

-----------------------------------------------------------------------------
(* Blocks that come back                                                    *)

RunCallKeys(t, r) == IF r = NoCall THEN {} ELSE {CallKey(t, r)}

LEMMA GoneLemma ==
    ASSUME Paged!SlabAssumption, SlabInv, NEW t \in Threads, OwnKey(t, call[t]) = {},
           NEW p \in DOMAIN held, NotOthers(call, t, p), NEW r, r = NoCall \/ r \in Paged!Runs,
           Paged!Gone(t, p, r)
    PROVE  /\ IsDropped(held, held', p)
           /\ CallsOk(call', held')
           /\ Swaps(LargeKeys(held'), LargeKeys(held), LargeDropped(held, p), {})
           /\ Swaps(CallKeys(call'), CallKeys(call), {}, RunCallKeys(t, r))
<1>1. held' = WithoutBlock(held, p)
  BY DEF Paged!Gone, WithoutBlock
<1>2. call' = [call EXCEPT ![t] = Ending(r)]
  BY DEF Paged!Gone, Paged!Goto, Ending, AtRelease
<1>3. IsDropped(held, held', p)
  BY <1>1, DroppedLemma
<1>4. CallsOk(call, held) /\ call = [u \in Threads |-> call[u]]
  BY SlabLemma
<1>5. DOMAIN held' = DOMAIN held \ {p}
  BY <1>3 DEF IsDropped
<1>6. CallsOk(call', held') /\ OwnKey(t, Ending(r)) = RunCallKeys(t, r)
  BY <1>2, <1>4, <1>5, EndingLemma DEF RunCallKeys
<1>7. Swaps(CallKeys(call'), CallKeys(call), OwnKey(t, call[t]), OwnKey(t, Ending(r)))
  BY <1>2, <1>4, CallMoves
<1>8. Swaps(LargeKeys(held'), LargeKeys(held), LargeDropped(held, p), {})
  BY <1>1, DroppedMoves
<1> QED BY <1>3, <1>6, <1>7, <1>8

\* The zones that stay have the chunks that stay.
LEMMA OwnersDropped ==
    ASSUME NEW zs, NEW d, Owners(zs, d), NEW p, NEW e, IsDropped(d, e, p), NEW f,
           \A z \in DOMAIN zs : \/ z \in DOMAIN f /\ f[z].class = zs[z].class
                                \/ \A i, q : IsChunk(zs, z, i, q) => q \notin DOMAIN e
    PROVE  Owners(f, e)
<1>1. DOMAIN e \subseteq DOMAIN d /\ \A x \in DOMAIN e : e[x] = d[x]
  BY DEF IsDropped
<1>2. DOMAIN e \subseteq Paged!Pointers
  BY <1>1 DEF Owners
<1>3. ASSUME NEW x \in DOMAIN e
      PROVE  \/ e[x] \in PageCounts
             \/ e[x] \in Paged!Classes /\ \E z \in DOMAIN f : \E i \in 0..Chunks[e[x]] - 1 :
                   f[z].class = e[x] /\ x = Paged!Pointer(z, e[x], i)
  <2>1. CASE e[x] \in PageCounts
    BY <2>1
  <2>2. CASE e[x] \notin PageCounts
    <3>1. x \in DOMAIN d /\ d[x] = e[x]
      BY <1>1
    <3>2. e[x] \in Paged!Classes /\ \E z \in DOMAIN zs : \E i \in 0..Chunks[e[x]] - 1 :
             zs[z].class = e[x] /\ x = Paged!Pointer(z, e[x], i)
      BY <2>2, <3>1 DEF Owners
    <3>3. PICK z \in DOMAIN zs, i \in 0..Chunks[e[x]] - 1 :
             zs[z].class = e[x] /\ x = Paged!Pointer(z, e[x], i)
      BY <3>2
    <3>4. IsChunk(zs, z, i, x)
      BY <3>3 DEF IsChunk
    <3>5. z \in DOMAIN f /\ f[z].class = zs[z].class
      BY <3>4
    <3> QED BY <3>2, <3>3, <3>5
  <2> QED BY <2>1, <2>2
<1> QED BY <1>2, <1>3 DEF Owners

LEMMA FreeLargeSteps ==
    ASSUME Paged!SlabAssumption, SlabInv, NEW t \in Threads, OwnKey(t, call[t]) = {},
           NEW p \in DOMAIN held, NotOthers(call, t, p), Paged!FreeLarge(t, p)
    PROVE  SlabInv'
<1> DEFINE n == held[p]
           r == [page |-> p.page, n |-> n]
           k == LargeKey(p, n)
           Z == DOMAIN zones \union Range(spare)
<1>1. /\ usage[p.page].type = "large" /\ usage' = [usage EXCEPT ![p.page].size = 0]
      /\ Paged!Gone(t, p, [page |-> p.page, n |-> usage[p.page].size])
      /\ runs' = runs /\ zones' = zones /\ avail' = avail /\ spare' = spare
  BY DEF Paged!FreeLarge
<1>2. /\ Zoned(zones, avail, held) /\ Owners(zones, held) /\ Divided(Shares)
      /\ Divided(Keys(Range(runs), DOMAIN zones, Range(spare), held, call))
      /\ Leads(usage, Z, held)
  BY SlabLemma
<1>3. p \in LargeOf(held) /\ n \in PageCounts
  <2>1. CASE p \in LargeOf(held)
    BY <2>1 DEF LargeOf
  <2>2. CASE p \notin LargeOf(held)
    <3>1. PICK z \in DOMAIN zones : p.page \in Span(ZoneKey(z))
      BY <1>2, <2>2, HeldLemma
    <3>2. p.page \in Paged!Area(z, ZonePages)
      BY <3>1, KeyLemma
    <3>3. usage[p.page] = [type |-> "small", size |-> p.page - z]
      BY <1>2, <3>2 DEF Leads
    <3> QED BY <1>1, <3>3
  <2> QED BY <2>1, <2>2
<1>4. usage[p.page] = [type |-> "large", size |-> n] /\ usage \in [Paged!Pages -> Paged!Usages]
  BY <1>2, <1>3 DEF Leads
<1>5. k \in Shares /\ k.page = p.page /\ k.n = n
  BY <1>3, SlabLemma, KeyLemma
<1>6. p.page \in Paged!Pages /\ n \in Paged!Pages /\ r \in Paged!Runs
  <2>1. p.page \in Paged!Pages /\ n \in Paged!Pages
    BY <1>2, <1>5, SpanLemma
  <2> QED BY <2>1 DEF Paged!Runs
<1>7. Paged!Gone(t, p, r)
  BY <1>1, <1>4
<1>8. r # NoCall /\ r.page = p.page /\ r.n = n
  BY <1>6, PagesLemma
<1> HIDE DEF n, r, k
<1>9. /\ IsDropped(held, held', p) /\ CallsOk(call', held')
      /\ Swaps(LargeKeys(held'), LargeKeys(held), {k}, {})
      /\ Swaps(CallKeys(call'), CallKeys(call), {}, {CallKey(t, r)})
  <2>1. LargeDropped(held, p) = {k} /\ RunCallKeys(t, r) = {CallKey(t, r)}
    BY <1>3, <1>8 DEF LargeDropped, RunCallKeys, k, n
  <2> QED BY <1>6, <1>7, <2>1, GoneLemma
<1>10. Divided(Keys(Range(runs'), DOMAIN zones', Range(spare'), held', call'))
  <2> DEFINE J == Keys(Range(runs), DOMAIN zones, Range(spare), held', call')
  <2>0. /\ Swaps(LargeKeys(held'), LargeKeys(held), {k}, {})
        /\ Swaps(CallKeys(call'), CallKeys(call), {}, {CallKey(t, r)})
        /\ Swaps(RunKeys(Range(runs)), RunKeys(Range(runs)), {}, {})
        /\ Swaps(ZoneKeys(DOMAIN zones), ZoneKeys(DOMAIN zones), {}, {})
        /\ Swaps(SpareKeys(Range(spare)), SpareKeys(Range(spare)), {}, {})
    BY <1>9, Stays
  <2>1. Swaps(J, Shares, {} \union {} \union {} \union {k} \union {},
              {} \union {} \union {} \union {} \union {CallKey(t, r)})
    BY <2>0, KeysChange DEF Shares
  <2> HIDE DEF J
  <2>2. J = (Shares \ {k}) \union {CallKey(t, r)}
    BY <2>1 DEF Swaps
  <2>3. CallKey(t, r).page = k.page /\ CallKey(t, r).n = k.n
    BY <1>5, <1>8, KeyLemma
  <2>4. Divided(J)
    BY <1>2, <1>5, <2>2, <2>3, Handed
  <2> QED BY <1>1, <2>4 DEF J
<1>11. /\ \A z \in Z : p.page \notin Paged!Area(z, ZonePages)
       /\ \A q \in LargeOf(held) : q.page = p.page => q = p
  BY <1>2, <1>3, LargeLemma
<1>12. usage' \in [Paged!Pages -> Paged!Usages] /\ \A q \in Paged!Pages : q # p.page => usage'[q] = usage[q]
  <2>1. usage' = [usage EXCEPT ![p.page] = [type |-> "large", size |-> 0]]
    <3>1. usage' = [usage EXCEPT ![p.page] = [usage[p.page] EXCEPT !.size = 0]]
      BY <1>1
    <3>2. [usage[p.page] EXCEPT !.size = 0] = [type |-> "large", size |-> 0]
      BY <1>4
    <3> QED BY <3>1, <3>2
  <2>2. [type |-> "large", size |-> 0] \in Paged!Usages
    <3>1. 0 \in 0..LastPage
      BY PagesLemma
    <3> QED BY <3>1 DEF Paged!Usages
  <2> QED BY <1>4, <1>6, <2>1, <2>2
<1>13. Leads(usage', DOMAIN zones' \union Range(spare'), held')
  <2>1. \A z \in Z : \A q \in Paged!Area(z, ZonePages) : usage'[q] = usage[q]
    BY <1>11, <1>12, ZoneArea
  <2>2. \A q \in LargeOf(held') : /\ q \in LargeOf(held) /\ held'[q] = held[q]
                                  /\ usage'[q.page] = usage[q.page]
    <3> SUFFICES ASSUME NEW q \in LargeOf(held')
                 PROVE  /\ q \in LargeOf(held) /\ held'[q] = held[q]
                        /\ usage'[q.page] = usage[q.page]
      OBVIOUS
    <3>1. q # p /\ q \in LargeOf(held) /\ q \in DOMAIN held'
      BY <1>9 DEF IsDropped, LargeOf
    <3>2. held'[q] = held[q]
      BY <1>9, <3>1 DEF IsDropped
    <3>3. q.page \in Paged!Pages
      <4>1. q \in DOMAIN held
        BY <3>1 DEF LargeOf
      <4>2. q \in Paged!Pointers
        BY <4>1, SlabLemma
      <4> QED BY <4>2 DEF Paged!Pointers
    <3> QED BY <1>11, <1>12, <3>1, <3>2, <3>3
  <2>3. KeepsLeading(usage, usage', Z, Z, held, held')
    BY <1>12, <2>1, <2>2 DEF KeepsLeading
  <2>4. DOMAIN zones' \union Range(spare') = Z
    BY <1>1
  <2> HIDE DEF Z
  <2> QED BY <1>2, <2>3, <2>4, LeadsChange
<1>14. Zoned(zones', avail', held')
  <2>1. \A z \in DOMAIN zones : \A j \in 0..Chunks[zones[z].class] - 1 :
           SameAt(held, held', Paged!Pointer(z, zones[z].class, j))
    <3> SUFFICES ASSUME NEW z \in DOMAIN zones, NEW j \in 0..Chunks[zones[z].class] - 1
                 PROVE  SameAt(held, held', Paged!Pointer(z, zones[z].class, j))
      OBVIOUS
    <3>1. IsChunk(zones, z, j, Paged!Pointer(z, zones[z].class, j))
      BY DEF IsChunk
    <3>2. Paged!Pointer(z, zones[z].class, j) # p
      BY <1>2, <1>11, <3>1, ZoneLemma
    <3> QED BY <1>9, <3>2 DEF IsDropped
  <2> QED BY <1>1, <1>2, <2>1, ZonedKeeps
<1>15. Owners(zones', held')
  BY <1>1, <1>2, <1>9, OwnersDropped
<1> QED BY <1>1, <1>9, <1>10, <1>13, <1>14, <1>15, SlabLemma DEF SlabInv

\* memusage leads from a chunk to its zone.
LEMMA FoundChunk ==
    ASSUME Paged!SlabAssumption, SlabInv, NEW p \in DOMAIN held, usage[p.page].type # "large",
           NEW z, z = p.page - usage[p.page].size
    PROVE  /\ z \in DOMAIN zones /\ IsChunk(zones, z, p.chunk, p) /\ held[p] = zones[z].class
           /\ zones[z].class \in Paged!Classes /\ ZoneOk(z, zones[z], held)
           /\ LargeDropped(held, p) = {}
<1>1. /\ Zoned(zones, avail, held) /\ Owners(zones, held)
      /\ Divided(Keys(Range(runs), DOMAIN zones, Range(spare), held, call))
      /\ Leads(usage, DOMAIN zones \union Range(spare), held)
  BY SlabLemma
<1>2. p \notin LargeOf(held)
  <2>1. p \in LargeOf(held) => usage[p.page] = [type |-> "large", size |-> held[p]]
    BY <1>1 DEF Leads
  <2>2. [type |-> "large", size |-> held[p]].type = "large"
    OBVIOUS
  <2> QED BY <2>1, <2>2
<1>3. held[p] \in Paged!Classes /\ \E y \in DOMAIN zones : \E i \in 0..Chunks[held[p]] - 1 :
         zones[y].class = held[p] /\ IsChunk(zones, y, i, p)
  <2>1. /\ held[p] \in Paged!Classes
        /\ \E y \in DOMAIN zones : \E i \in 0..Chunks[held[p]] - 1 :
              /\ zones[y].class = held[p] /\ IsChunk(zones, y, i, p)
              /\ ZoneKey(y) \in Keys(Range(runs), DOMAIN zones, Range(spare), held, call)
              /\ p.page \in Span(ZoneKey(y))
    BY <1>1, <1>2, HeldLemma
  <2> QED BY <2>1
<1>4. PICK y \in DOMAIN zones, i \in 0..Chunks[held[p]] - 1 :
         zones[y].class = held[p] /\ IsChunk(zones, y, i, p)
  BY <1>3
<1>5. p.page \in Paged!Area(y, ZonePages) /\ p.chunk = i /\ ZoneOk(y, zones[y], held)
  BY <1>1, <1>4, ZoneLemma
<1>6. usage[p.page] = [type |-> "small", size |-> p.page - y]
  BY <1>1, <1>5 DEF Leads
<1>7. y \in Paged!Pages /\ Paged!Area(y, ZonePages) \subseteq Paged!Pages
  BY ZoneArea
<1>8. z = y
  <2>1. p.page \in Int /\ y \in Int
    BY <1>5, <1>7, PagesLemma
  <2>2. z = p.page - (p.page - y)
    BY <1>6
  <2> QED BY <2>1, <2>2
<1>9. LargeDropped(held, p) = {}
  BY <1>3, PagesLemma DEF LargeDropped
<1> QED BY <1>3, <1>4, <1>5, <1>8, <1>9

\* The list of a class when zone z has got a chunk back.
GotList(z) ==
    LET c == zones[z].class
    IN  IF zones[z].nfree + 1 = 1 THEN <<z>> \o avail[c] ELSE avail[c]

LEMMA GotListLemma ==
    ASSUME Paged!SlabAssumption, SlabInv, NEW z \in DOMAIN zones, NEW c, c = zones[z].class
    PROVE  /\ Enumerates(GotList(z), OpenZones(zones, c) \union {z})
           /\ Enumerates(RemoveFirst(GotList(z), z), OpenZones(zones, c) \ {z})
<1>1. Zoned(zones, avail, held)
  BY SlabLemma
<1>2. c \in Paged!Classes /\ ZoneOk(z, zones[z], held)
  BY <1>1, ZoneLemma
<1>3. zones[z].nfree \in Nat
  BY <1>2, ZoneHas
<1>4. Enumerates(avail[c], OpenZones(zones, c))
  BY <1>1, <1>2 DEF Zoned
<1>5. Enumerates(GotList(z), OpenZones(zones, c) \union {z})
  <2>1. CASE zones[z].nfree = 0
    <3>1. z \notin OpenZones(zones, c)
      BY <2>1 DEF OpenZones
    <3>2. GotList(z) = <<z>> \o avail[c]
      BY <2>1 DEF GotList
    <3> QED BY <1>4, <3>1, <3>2, PrependLemma
  <2>2. CASE zones[z].nfree # 0
    <3>1. OpenZones(zones, c) \union {z} = OpenZones(zones, c)
      BY <1>3, <2>2 DEF OpenZones
    <3>2. GotList(z) = avail[c]
      BY <1>3, <2>2 DEF GotList
    <3> QED BY <1>4, <3>1, <3>2
  <2> QED BY <2>1, <2>2
<1>6. Enumerates(RemoveFirst(GotList(z), z), (OpenZones(zones, c) \union {z}) \ {z})
  BY <1>5, RemoveFirstLemma
<1>7. (OpenZones(zones, c) \union {z}) \ {z} = OpenZones(zones, c) \ {z}
  OBVIOUS
<1> QED BY <1>5, <1>6, <1>7

\* What FreeChunk does: the zone stays, becomes a spare one, or goes back.
IsWhole(z, h) == h.nfree = Chunks[h.class] /\ Len(GotList(z)) > 1
FreesChunk(z, h) ==
    /\ avail' = ListPut(avail, h.class,
                        IF IsWhole(z, h) THEN RemoveFirst(GotList(z), z) ELSE GotList(z))
    /\ zones' = IF IsWhole(z, h) THEN [x \in DOMAIN zones \ {z} |-> zones[x]]
                ELSE ZonePut(zones, z, h)
    /\ runs' = runs

ZoneOf(p) == p.page - usage[p.page].size
HeaderOf(p) == [zones[ZoneOf(p)] EXCEPT !.nfree = @ + 1, !.free = <<p.chunk>> \o @]
ListOf(p) ==
    IF HeaderOf(p).nfree = 1 THEN <<ZoneOf(p)>> \o avail[HeaderOf(p).class]
    ELSE avail[HeaderOf(p).class]
WholeOf(p) == HeaderOf(p).nfree = Chunks[HeaderOf(p).class] /\ Len(ListOf(p)) > 1
ExtraOf(p) == WholeOf(p) /\ Len(spare) = Threshold

LEMMA FreesChunkLemma ==
    ASSUME Paged!SlabAssumption, SlabInv, NEW t, NEW p \in DOMAIN held, Paged!FreeChunk(t, p),
           NEW z, z = ZoneOf(p), NEW h, h = GotChunk(zones[z], p.chunk)
    PROVE  /\ usage[p.page].type # "large"
           /\ FreesChunk(z, h)
           /\ ~IsWhole(z, h) => /\ spare' = spare /\ usage' = usage /\ Paged!Gone(t, p, NoCall)
           /\ IsWhole(z, h) /\ Len(spare) # Threshold =>
                 /\ spare' = <<z>> \o spare /\ usage' = usage /\ Paged!Gone(t, p, NoCall)
           /\ IsWhole(z, h) /\ Len(spare) = Threshold =>
                 /\ spare' = spare
                 /\ usage' = [x \in Paged!Pages |-> IF x \in Paged!Area(z, ZonePages)
                                              THEN [type |-> "free", size |-> 0] ELSE usage[x]]
                 /\ Paged!Gone(t, p, [page |-> z, n |-> ZonePages])
<1>0. /\ usage[p.page].type # "large"
      /\ avail' = [avail EXCEPT ![HeaderOf(p).class] =
                      IF WholeOf(p) THEN Paged!RemoveFirst(ListOf(p), ZoneOf(p)) ELSE ListOf(p)]
      /\ zones' = IF WholeOf(p) THEN [x \in DOMAIN zones \ {ZoneOf(p)} |-> zones[x]]
                  ELSE [zones EXCEPT ![ZoneOf(p)] = HeaderOf(p)]
      /\ spare' = IF WholeOf(p) /\ ~ExtraOf(p) THEN <<ZoneOf(p)>> \o spare ELSE spare
      /\ usage' = IF ~ExtraOf(p) THEN usage
                  ELSE [x \in Paged!Pages |-> IF x \in ZoneOf(p)..ZoneOf(p) + ZonePages - 1
                                        THEN [type |-> "free", size |-> 0] ELSE usage[x]]
      /\ Paged!Gone(t, p, IF ExtraOf(p) THEN [page |-> ZoneOf(p), n |-> ZonePages] ELSE NoCall)
      /\ runs' = runs
  BY DEF Paged!FreeChunk, ZoneOf, HeaderOf, ListOf, WholeOf, ExtraOf
<1>1. /\ usage[p.page].type # "large"
      /\ avail' = [avail EXCEPT ![HeaderOf(p).class] =
                      IF WholeOf(p) THEN RemoveFirst(ListOf(p), ZoneOf(p)) ELSE ListOf(p)]
      /\ zones' = IF WholeOf(p) THEN [x \in DOMAIN zones \ {ZoneOf(p)} |-> zones[x]]
                  ELSE [zones EXCEPT ![ZoneOf(p)] = HeaderOf(p)]
      /\ spare' = IF WholeOf(p) /\ ~ExtraOf(p) THEN <<ZoneOf(p)>> \o spare ELSE spare
      /\ usage' = IF ~ExtraOf(p) THEN usage
                  ELSE [x \in Paged!Pages |-> IF x \in ZoneOf(p)..ZoneOf(p) + ZonePages - 1
                                        THEN [type |-> "free", size |-> 0] ELSE usage[x]]
      /\ Paged!Gone(t, p, IF ExtraOf(p) THEN [page |-> ZoneOf(p), n |-> ZonePages] ELSE NoCall)
      /\ runs' = runs
  BY <1>0, PagedWords
<1>2. z \in DOMAIN zones /\ ZoneOk(z, zones[z], held)
  BY <1>1, FoundChunk DEF ZoneOf
<1>3. /\ zones[z] = [class |-> zones[z].class, nfree |-> zones[z].nfree,
                     uindex |-> zones[z].uindex, free |-> zones[z].free]
      /\ zones[z].nfree \in Nat
  BY <1>2, ZoneHas
<1>4. h = HeaderOf(p) /\ h.nfree = zones[z].nfree + 1 /\ h.class = zones[z].class
  <2>1. h = HeaderOf(p)
    BY DEF GotChunk, HeaderOf
  <2> QED BY <1>3, <2>1 DEF GotChunk
<1>5. ListOf(p) = GotList(z)
  BY <1>4 DEF GotList, ListOf
<1>6. WholeOf(p) <=> IsWhole(z, h)
  BY <1>4, <1>5 DEF WholeOf, IsWhole
<1>7. ExtraOf(p) <=> IsWhole(z, h) /\ Len(spare) = Threshold
  BY <1>6 DEF ExtraOf
<1>8. FreesChunk(z, h)
  BY <1>1, <1>4, <1>5, <1>6 DEF FreesChunk, ListPut, ZonePut
<1> QED BY <1>1, <1>6, <1>7, <1>8 DEF Paged!Area

\* The zones when p has come back to zone z.
LEMMA FreedZone ==
    ASSUME Paged!SlabAssumption, SlabInv, NEW p \in DOMAIN held, usage[p.page].type # "large",
           IsDropped(held, held', p), NEW z, z = ZoneOf(p),
           NEW h, h = GotChunk(zones[z], p.chunk), NEW c, c = zones[z].class
    PROVE  /\ z \in DOMAIN zones /\ c \in Paged!Classes /\ h.class = c /\ ZoneOk(z, h, held')
           /\ h.nfree \in Nat /\ h.nfree > 0
           /\ \A y \in DOMAIN zones : y # z => ZoneOk(y, zones[y], held')
           /\ LargeDropped(held, p) = {}
           /\ \A q \in LargeOf(held') : q \in LargeOf(held) /\ held'[q] = held[q]
<1>1. /\ z \in DOMAIN zones /\ IsChunk(zones, z, p.chunk, p) /\ held[p] = c /\ c \in Paged!Classes
      /\ ZoneOk(z, zones[z], held) /\ LargeDropped(held, p) = {}
  BY FoundChunk DEF ZoneOf
<1>2. p.chunk \in 0..Chunks[c] - 1 /\ p = Paged!Pointer(z, c, p.chunk)
  BY <1>1 DEF IsChunk
<1>3. ZoneOk(z, h, held') /\ h.class = c /\ h.nfree = zones[z].nfree + 1
  <2> DEFINE g == zones[z]
             i == p.chunk
  <2>1. /\ g.class = c /\ i \in 0..Chunks[g.class] - 1 /\ ZoneOk(z, g, held)
        /\ Paged!Pointer(z, g.class, i) = p
    BY <1>1, <1>2
  <2>2. h = GotChunk(g, i)
    OBVIOUS
  <2> HIDE DEF g, i
  <2>3. ZoneOk(z, h, held') /\ h.class = g.class /\ h.nfree = g.nfree + 1
    BY <2>1, <2>2, ZoneGets
  <2> QED BY <2>1, <2>3 DEF g
<1>4. h.nfree \in Nat /\ h.nfree > 0
  BY <1>1, <1>3, ZoneHas
<1>5. \A y \in DOMAIN zones : y # z => ZoneOk(y, zones[y], held')
  <2>1. \A x : x # p => SameAt(held, held', x)
    BY DEF IsDropped
  <2>2. /\ Divided(Keys(Range(runs), DOMAIN zones, Range(spare), held, call))
        /\ Zoned(zones, avail, held)
    BY SlabLemma
  <2> QED BY <1>1, <2>1, <2>2, OthersKeep
<1>6. \A q \in LargeOf(held') : q \in LargeOf(held) /\ held'[q] = held[q]
  BY DEF IsDropped, LargeOf
<1> QED BY <1>1, <1>3, <1>4, <1>5, <1>6

\* A list that is not longer than one has one entry.
LEMMA AloneLemma ==
    ASSUME NEW list, NEW F, Enumerates(list, F), ~(Len(list) > 1), NEW x \in F
    PROVE  F = {x}
<1>1. /\ list \in Seq(F) /\ Len(list) \in Nat /\ DOMAIN list = 1..Len(list)
      /\ F = {list[i] : i \in DOMAIN list}
  BY DEF Enumerates, Range
<1>2. ASSUME NEW y \in F, NEW z \in F PROVE y = z
  <2>1. PICK i \in DOMAIN list, j \in DOMAIN list : y = list[i] /\ z = list[j]
    BY <1>1
  <2>2. i = j
    BY <1>1, <2>1
  <2> QED BY <2>1, <2>2
<1> QED BY <1>2

LEMMA FreePutSteps ==
    ASSUME Paged!SlabAssumption, SlabInv, NEW t \in Threads, OwnKey(t, call[t]) = {},
           NEW p \in DOMAIN held, NotOthers(call, t, p), Paged!FreeChunk(t, p),
           NEW z, z = ZoneOf(p), NEW h, h = GotChunk(zones[z], p.chunk), ~IsWhole(z, h)
    PROVE  SlabInv'
<1> DEFINE c == zones[z].class
<1>1. /\ usage[p.page].type # "large" /\ FreesChunk(z, h) /\ spare' = spare /\ usage' = usage
      /\ Paged!Gone(t, p, NoCall)
  BY FreesChunkLemma
<1>2. /\ IsDropped(held, held', p) /\ CallsOk(call', held')
      /\ Swaps(LargeKeys(held'), LargeKeys(held), LargeDropped(held, p), {})
      /\ Swaps(CallKeys(call'), CallKeys(call), {}, {})
  <2>1. RunCallKeys(t, NoCall) = {}
    BY DEF RunCallKeys
  <2> QED BY <1>1, <2>1, GoneLemma
<1>3. /\ z \in DOMAIN zones /\ c \in Paged!Classes /\ h.class = c /\ ZoneOk(z, h, held')
      /\ h.nfree \in Nat /\ h.nfree > 0
      /\ \A y \in DOMAIN zones : y # z => ZoneOk(y, zones[y], held')
      /\ LargeDropped(held, p) = {}
      /\ \A q \in LargeOf(held') : q \in LargeOf(held) /\ held'[q] = held[q]
  BY <1>1, <1>2, FreedZone
<1> HIDE DEF c
<1>4. /\ Zoned(zones, avail, held) /\ Owners(zones, held) /\ Divided(Shares) /\ Sorted(runs)
      /\ Leads(usage, DOMAIN zones \union Range(spare), held)
      /\ Enumerates(spare, Range(spare)) /\ Len(spare) =< Threshold
  BY SlabLemma
<1>5. /\ zones' = ZonePut(zones, z, h) /\ avail' = ListPut(avail, h.class, GotList(z))
      /\ runs' = runs
  BY <1>1 DEF FreesChunk
<1>6. Enumerates(GotList(z), OpenZones(zones, c) \union {z})
  BY <1>3, GotListLemma DEF c
<1>7. Enumerates(GotList(z), OpenIs(zones, z, h))
  BY <1>3, <1>6 DEF OpenIs
<1>8. ASSUME h.nfree = Chunks[c] PROVE WholeZones(zones, c) \subseteq {z}
  <2>1. ~(Len(GotList(z)) > 1)
    BY <1>3, <1>8 DEF IsWhole
  <2>2. OpenZones(zones, c) \union {z} = {z}
    BY <1>6, <2>1, AloneLemma
  <2>3. WholeZones(zones, c) \subseteq OpenZones(zones, c)
    BY <1>3, PagesLemma DEF WholeZones, OpenZones
  <2> QED BY <2>2, <2>3
<1>9. Zoned(zones', avail', held') /\ SameClasses(zones, zones')
  <2>1. h.class = zones[z].class
    BY <1>3 DEF c
  <2>2. h.nfree = Chunks[h.class] => WholeZones(zones, h.class) \subseteq {z}
    BY <1>3, <1>8
  <2>3. MayPut(zones, z, h, GotList(z), held')
    BY <1>3, <1>7, <2>1, <2>2 DEF MayPut
  <2> QED BY <1>4, <1>5, <2>3, ZonedChange
<1>10. Divided(Keys(Range(runs'), DOMAIN zones', Range(spare'), held', call'))
  <2>1. LargeKeys(held') = LargeKeys(held) /\ CallKeys(call') = CallKeys(call)
    BY <1>2, <1>3 DEF Swaps
  <2>2. Keys(Range(runs'), DOMAIN zones', Range(spare'), held', call') = Shares
    BY <1>1, <1>5, <1>9, <2>1 DEF Keys, Shares, SameClasses
  <2> QED BY <1>4, <2>2
<1>11. Leads(usage', DOMAIN zones' \union Range(spare'), held')
  BY <1>1, <1>3, <1>4, <1>9, LeadsKept DEF SameClasses
<1>12. Owners(zones', held')
  BY <1>2, <1>4, <1>9, OwnersDropped DEF SameClasses
<1> QED BY <1>1, <1>2, <1>4, <1>5, <1>9, <1>10, <1>11, <1>12 DEF SlabInv

\* A zone goes with all its chunks.
OthersOk(zs, z, e) == \A y \in DOMAIN zs : y # z => ZoneOk(y, zs[y], e)
WithoutZone(zs, z) == [x \in DOMAIN zs \ {z} |-> zs[x]]

LEMMA ZonedRemoves ==
    ASSUME Paged!SlabAssumption, NEW zs, NEW a, NEW d, Zoned(zs, a, d), NEW z \in DOMAIN zs,
           NEW e, OthersOk(zs, z, e),
           NEW list, Enumerates(list, OpenZones(zs, zs[z].class) \ {z})
    PROVE  /\ Zoned(WithoutZone(zs, z), ListPut(a, zs[z].class, list), e)
           /\ DOMAIN WithoutZone(zs, z) = DOMAIN zs \ {z}
<1> DEFINE c == zs[z].class
           f == WithoutZone(zs, z)
           b == ListPut(a, c, list)
<1>1. /\ DOMAIN zs \subseteq Paged!Pages /\ a = [x \in Paged!Classes |-> a[x]]
      /\ c \in Paged!Classes
      /\ \A x \in Paged!Classes : /\ Enumerates(a[x], OpenZones(zs, x))
                                  /\ \A y, w \in WholeZones(zs, x) : y = w
  BY ZoneLemma DEF Zoned
<1>2. DOMAIN f = DOMAIN zs \ {z} /\ \A y \in DOMAIN f : f[y] = zs[y]
  BY DEF WithoutZone
<1>3. /\ b = [x \in Paged!Classes |-> b[x]] /\ b[c] = list
      /\ \A x \in Paged!Classes : x # c => b[x] = a[x]
  BY <1>1 DEF ListPut
<1>4. \A y \in DOMAIN f : ZoneOk(y, f[y], e)
  BY <1>2 DEF OthersOk
<1>5. ASSUME NEW x \in Paged!Classes, x # c PROVE OpenZones(f, x) = OpenZones(zs, x)
  BY <1>2, <1>5 DEF OpenZones
<1>6. OpenZones(f, c) = OpenZones(zs, c) \ {z}
  BY <1>2 DEF OpenZones
<1>7. \A x \in Paged!Classes : WholeZones(f, x) \subseteq WholeZones(zs, x)
  BY <1>2 DEF WholeZones
<1>8. \A x \in Paged!Classes : /\ Enumerates(b[x], OpenZones(f, x))
                               /\ \A y, w \in WholeZones(f, x) : y = w
  <2> SUFFICES ASSUME NEW x \in Paged!Classes
               PROVE  /\ Enumerates(b[x], OpenZones(f, x))
                      /\ \A y, w \in WholeZones(f, x) : y = w
    OBVIOUS
  <2>1. Enumerates(b[x], OpenZones(f, x))
    BY <1>1, <1>3, <1>5, <1>6
  <2>2. \A y, w \in WholeZones(f, x) : y = w
    BY <1>1, <1>7
  <2> QED BY <2>1, <2>2
<1>9. DOMAIN f \subseteq Paged!Pages
  BY <1>1, <1>2
<1> QED BY <1>2, <1>3, <1>4, <1>8, <1>9 DEF Zoned

\* What the two ends of a whole zone have in common.
LEMMA FreeWholeLemma ==
    ASSUME Paged!SlabAssumption, SlabInv, NEW p \in DOMAIN held, usage[p.page].type # "large",
           IsDropped(held, held', p), NEW z, z = ZoneOf(p),
           NEW h, h = GotChunk(zones[z], p.chunk), FreesChunk(z, h), IsWhole(z, h)
    PROVE  /\ Zoned(zones', avail', held') /\ Owners(zones', held')
           /\ z \in DOMAIN zones /\ DOMAIN zones' = DOMAIN zones \ {z}
           /\ Swaps(ZoneKeys(DOMAIN zones'), ZoneKeys(DOMAIN zones), {ZoneKey(z)}, {})
           /\ z \notin Range(spare) /\ ZoneKey(z) \in Shares
           /\ z \in Paged!Pages /\ ZonePages \in Paged!Pages
           /\ \A y \in (DOMAIN zones' \union Range(spare)) :
                 Paged!Area(y, ZonePages) \intersect Paged!Area(z, ZonePages) = {}
<1> DEFINE c == zones[z].class
<1>1. /\ z \in DOMAIN zones /\ c \in Paged!Classes /\ h.class = c /\ ZoneOk(z, h, held')
      /\ h.nfree \in Nat /\ h.nfree > 0
      /\ \A y \in DOMAIN zones : y # z => ZoneOk(y, zones[y], held')
  BY FreedZone
<1>2. /\ Zoned(zones, avail, held) /\ Owners(zones, held) /\ Divided(Shares)
  BY SlabLemma
<1>3. /\ zones' = [x \in DOMAIN zones \ {z} |-> zones[x]]
      /\ avail' = ListPut(avail, h.class, RemoveFirst(GotList(z), z))
  BY DEF FreesChunk
<1>4. Enumerates(RemoveFirst(GotList(z), z), OpenZones(zones, c) \ {z})
  BY <1>1, GotListLemma
<1>5. Zoned(zones', avail', held') /\ DOMAIN zones' = DOMAIN zones \ {z}
  <2> DEFINE list == RemoveFirst(GotList(z), z)
  <2>1. OthersOk(zones, z, held') /\ zones' = WithoutZone(zones, z)
    BY <1>1, <1>3 DEF OthersOk, WithoutZone
  <2>2. z \in DOMAIN zones /\ avail' = ListPut(avail, zones[z].class, list)
    BY <1>1, <1>3
  <2>3. Enumerates(list, OpenZones(zones, zones[z].class) \ {z})
    BY <1>4
  <2> HIDE DEF list
  <2> QED BY <1>2, <2>1, <2>2, <2>3, ZonedRemoves
<1>6. ASSUME NEW i, NEW q, IsChunk(zones, z, i, q) PROVE q \notin DOMAIN held'
  <2>1. i \in 0..Chunks[h.class] - 1 /\ q = Paged!Pointer(z, h.class, i)
    BY <1>1, <1>6 DEF IsChunk
  <2>2. Range(h.free) = 0..h.uindex
    BY <1>1, ZoneHas DEF IsWhole
  <2>3. (q \in DOMAIN held') <=> (i =< h.uindex /\ i \notin Range(h.free))
    BY <1>1, <2>1 DEF ZoneOk
  <2>4. h.uindex \in Nat /\ i \in Nat
    <3>1. h.uindex \in Nat /\ Chunks[h.class] \in Nat
      BY <1>1, ZoneHas
    <3> QED BY <2>1, <3>1
  <2> HIDE DEF c
  <2> QED BY <2>2, <2>3, <2>4
<1>7. Owners(zones', held')
  <2>1. \A y \in DOMAIN zones : \/ y \in DOMAIN zones' /\ zones'[y].class = zones[y].class
                                \/ \A i, q : IsChunk(zones, y, i, q) => q \notin DOMAIN held'
    BY <1>3, <1>6
  <2> QED BY <1>2, <2>1, OwnersDropped
<1>8. Swaps(ZoneKeys(DOMAIN zones'), ZoneKeys(DOMAIN zones), {ZoneKey(z)}, {})
  <2>1. Swaps(ZoneKeys(DOMAIN zones'), ZoneKeys(DOMAIN zones), ZoneKeys({z}), ZoneKeys({}))
    BY <1>1, <1>5, ZonesMove
  <2>2. ZoneKeys({z}) = {ZoneKey(z)} /\ ZoneKeys({}) = {}
    BY DEF ZoneKeys
  <2> QED BY <2>1, <2>2
<1>9. /\ ZoneKey(z) \in Shares /\ ZoneKey(z).kind = "zone" /\ ZoneKey(z).who = z
      /\ Span(ZoneKey(z)) = Paged!Area(z, ZonePages) /\ ZoneKey(z).page = z
      /\ ZoneKey(z).n = ZonePages
  BY <1>1, SlabLemma, KeyLemma
<1>10. z \in Paged!Pages /\ ZonePages \in Paged!Pages
  BY <1>2, <1>9, SpanLemma
<1>11. ASSUME NEW y \in DOMAIN zones' \union Range(spare), NEW q \in Paged!Area(y, ZonePages),
              q \in Paged!Area(z, ZonePages)
       PROVE  FALSE
  <2>1. \E w \in Shares : Span(w) = Paged!Area(y, ZonePages) /\ (w.kind # "zone" \/ w.who # z)
    <3>1. CASE y \in DOMAIN zones'
      <4>1. ZoneKey(y) \in Shares
        BY <1>5, <3>1, SlabLemma
      <4>2. ZoneKey(y).who = y /\ y # z
        BY <1>5, <3>1, KeyLemma
      <4> QED BY <4>1, <4>2, KeyLemma
    <3>2. CASE y \in Range(spare)
      <4>1. SpareKey(y) \in Shares
        BY <3>2, SlabLemma
      <4>2. SpareKey(y).kind = "spare"
        BY KeyLemma
      <4> QED BY <4>1, <4>2, KeyLemma
    <3> QED BY <3>1, <3>2
  <2>2. PICK w \in Shares : Span(w) = Paged!Area(y, ZonePages) /\ (w.kind # "zone" \/ w.who # z)
    BY <2>1
  <2>3. w = ZoneKey(z)
    BY <1>2, <1>9, <1>11, <2>2, OneKey
  <2> QED BY <1>9, <2>2, <2>3
<1>12. z \notin Range(spare)
  <2>1. z \in Paged!Area(z, ZonePages)
    BY <1>1, ZoneArea
  <2> QED BY <1>11, <2>1
<1>13. \A y \in (DOMAIN zones' \union Range(spare)) :
          Paged!Area(y, ZonePages) \intersect Paged!Area(z, ZonePages) = {}
  BY <1>11
<1> QED BY <1>1, <1>5, <1>7, <1>8, <1>9, <1>10, <1>12, <1>13

LEMMA FreeSpareSteps ==
    ASSUME Paged!SlabAssumption, SlabInv, NEW t \in Threads, OwnKey(t, call[t]) = {},
           NEW p \in DOMAIN held, NotOthers(call, t, p), Paged!FreeChunk(t, p),
           NEW z, z = ZoneOf(p), NEW h, h = GotChunk(zones[z], p.chunk), IsWhole(z, h),
           Len(spare) # Threshold
    PROVE  SlabInv'
<1>1. /\ usage[p.page].type # "large" /\ FreesChunk(z, h) /\ spare' = <<z>> \o spare
      /\ usage' = usage /\ Paged!Gone(t, p, NoCall)
  BY FreesChunkLemma
<1>2. /\ IsDropped(held, held', p) /\ CallsOk(call', held')
      /\ Swaps(LargeKeys(held'), LargeKeys(held), LargeDropped(held, p), {})
      /\ Swaps(CallKeys(call'), CallKeys(call), {}, {})
  <2>1. RunCallKeys(t, NoCall) = {}
    BY DEF RunCallKeys
  <2> QED BY <1>1, <2>1, GoneLemma
<1>3. /\ LargeDropped(held, p) = {}
      /\ \A q \in LargeOf(held') : q \in LargeOf(held) /\ held'[q] = held[q]
  BY <1>1, <1>2, FreedZone
<1>4. /\ Zoned(zones', avail', held') /\ Owners(zones', held')
      /\ z \in DOMAIN zones /\ DOMAIN zones' = DOMAIN zones \ {z}
      /\ Swaps(ZoneKeys(DOMAIN zones'), ZoneKeys(DOMAIN zones), {ZoneKey(z)}, {})
      /\ z \notin Range(spare) /\ ZoneKey(z) \in Shares
  BY <1>1, <1>2, FreeWholeLemma
<1>5. runs' = runs
  BY <1>1 DEF FreesChunk
<1>6. Range(spare') = Range(spare) \union {z} /\ Enumerates(spare', Range(spare'))
  <2>1. Enumerates(<<z>> \o spare, Range(spare) \union {z})
    BY <1>4, SlabLemma, PrependLemma
  <2> QED BY <1>1, <2>1 DEF Enumerates
<1>7. Len(spare') =< Threshold
  <2>1. spare \in Seq(Range(spare)) /\ Len(spare) =< Threshold /\ Threshold \in Nat
        /\ Len(spare) \in Nat
    BY SlabLemma, PagesLemma DEF Enumerates
  <2>2. Len(<<z>> \o spare) = Len(spare) + 1
    <3> DEFINE S == Range(spare) \union {z}
    <3>1. spare \in Seq(S) /\ <<z>> \in Seq(S)
      BY <2>1
    <3> HIDE DEF S
    <3>2. Len(<<z>> \o spare) = Len(<<z>>) + Len(spare)
      BY <3>1, ConcatProperties
    <3> QED BY <2>1, <3>2
  <2> QED BY <1>1, <2>1, <2>2
<1>8. Divided(Keys(Range(runs'), DOMAIN zones', Range(spare'), held', call'))
  <2> DEFINE J == Keys(Range(runs), DOMAIN zones', Range(spare'), held', call')
  <2>1. Range(spare') = (Range(spare) \ {}) \union {z}
    BY <1>6
  <2>2. Swaps(SpareKeys(Range(spare')), SpareKeys(Range(spare)), SpareKeys({}), SpareKeys({z}))
    BY <2>1, SparesMove
  <2>3. SpareKeys({}) = {} /\ SpareKeys({z}) = {SpareKey(z)}
    BY DEF SpareKeys
  <2>4. /\ Swaps(SpareKeys(Range(spare')), SpareKeys(Range(spare)), {}, {SpareKey(z)})
        /\ Swaps(RunKeys(Range(runs)), RunKeys(Range(runs)), {}, {})
        /\ Swaps(LargeKeys(held'), LargeKeys(held), {}, {})
    BY <1>2, <1>3, <2>2, <2>3, Stays
  <2>5. Swaps(J, Shares, {} \union {ZoneKey(z)} \union {} \union {} \union {},
              {} \union {} \union {SpareKey(z)} \union {} \union {})
    BY <1>2, <1>4, <2>4, KeysChange DEF Shares
  <2> HIDE DEF J
  <2>6. J = (Shares \ {ZoneKey(z)}) \union {SpareKey(z)}
    BY <2>5 DEF Swaps
  <2>7. SpareKey(z).page = ZoneKey(z).page /\ SpareKey(z).n = ZoneKey(z).n
    BY KeyLemma
  <2>8. Divided(J)
    BY <1>4, <2>6, <2>7, SlabLemma, Handed
  <2> QED BY <1>5, <2>8 DEF J
<1>9. Leads(usage', DOMAIN zones' \union Range(spare'), held')
  <2>1. DOMAIN zones' \union Range(spare') = DOMAIN zones \union Range(spare)
    BY <1>4, <1>6
  <2>2. Leads(usage, DOMAIN zones \union Range(spare), held)
    BY SlabLemma
  <2> QED BY <1>1, <1>3, <2>1, <2>2, LeadsKept
<1> QED BY <1>2, <1>4, <1>5, <1>6, <1>7, <1>8, <1>9, SlabLemma DEF SlabInv

LEMMA FreeExtraSteps ==
    ASSUME Paged!SlabAssumption, SlabInv, NEW t \in Threads, OwnKey(t, call[t]) = {},
           NEW p \in DOMAIN held, NotOthers(call, t, p), Paged!FreeChunk(t, p),
           NEW z, z = ZoneOf(p), NEW h, h = GotChunk(zones[z], p.chunk), IsWhole(z, h),
           Len(spare) = Threshold
    PROVE  SlabInv'
<1> DEFINE r == [page |-> z, n |-> ZonePages]
<1>1. /\ usage[p.page].type # "large" /\ FreesChunk(z, h) /\ spare' = spare
      /\ usage' = [x \in Paged!Pages |-> IF x \in Paged!Area(z, ZonePages)
                                   THEN [type |-> "free", size |-> 0] ELSE usage[x]]
      /\ Paged!Gone(t, p, r)
  BY FreesChunkLemma
<1>2. IsDropped(held, held', p)
  BY <1>1, DroppedLemma DEF Paged!Gone, WithoutBlock
<1>3. /\ LargeDropped(held, p) = {}
      /\ \A q \in LargeOf(held') : q \in LargeOf(held) /\ held'[q] = held[q]
  BY <1>1, <1>2, FreedZone
<1>4. /\ Zoned(zones', avail', held') /\ Owners(zones', held')
      /\ z \in DOMAIN zones /\ DOMAIN zones' = DOMAIN zones \ {z}
      /\ Swaps(ZoneKeys(DOMAIN zones'), ZoneKeys(DOMAIN zones), {ZoneKey(z)}, {})
      /\ z \notin Range(spare) /\ ZoneKey(z) \in Shares
      /\ z \in Paged!Pages /\ ZonePages \in Paged!Pages
      /\ \A y \in (DOMAIN zones' \union Range(spare)) :
            Paged!Area(y, ZonePages) \intersect Paged!Area(z, ZonePages) = {}
  BY <1>1, <1>2, FreeWholeLemma
<1>5. r \in Paged!Runs /\ r.page = z /\ r.n = ZonePages
  BY <1>4 DEF Paged!Runs
<1>6. r # NoCall
  BY <1>5, PagesLemma
<1> HIDE DEF r
<1>7. /\ CallsOk(call', held')
      /\ Swaps(LargeKeys(held'), LargeKeys(held), {}, {})
      /\ Swaps(CallKeys(call'), CallKeys(call), {}, {CallKey(t, r)})
  <2>1. RunCallKeys(t, r) = {CallKey(t, r)}
    BY <1>6 DEF RunCallKeys
  <2> QED BY <1>1, <1>3, <1>5, <2>1, GoneLemma
<1>8. runs' = runs
  BY <1>1 DEF FreesChunk
<1>9. Divided(Keys(Range(runs'), DOMAIN zones', Range(spare'), held', call'))
  <2> DEFINE J == Keys(Range(runs), DOMAIN zones', Range(spare), held', call')
  <2>1. /\ Swaps(SpareKeys(Range(spare)), SpareKeys(Range(spare)), {}, {})
        /\ Swaps(RunKeys(Range(runs)), RunKeys(Range(runs)), {}, {})
    BY Stays
  <2>2. Swaps(J, Shares, {} \union {ZoneKey(z)} \union {} \union {} \union {},
              {} \union {} \union {} \union {} \union {CallKey(t, r)})
    BY <1>4, <1>7, <2>1, KeysChange DEF Shares
  <2> HIDE DEF J
  <2>3. J = (Shares \ {ZoneKey(z)}) \union {CallKey(t, r)}
    BY <2>2 DEF Swaps
  <2>4. CallKey(t, r).page = ZoneKey(z).page /\ CallKey(t, r).n = ZoneKey(z).n
    BY <1>5, KeyLemma
  <2>5. Divided(J)
    BY <1>4, <2>3, <2>4, SlabLemma, Handed
  <2> QED BY <1>1, <1>8, <2>5 DEF J
<1>10. usage' \in [Paged!Pages -> Paged!Usages]
  <2>1. [type |-> "free", size |-> 0] \in Paged!Usages
    <3>1. 0 \in 0..LastPage
      BY PagesLemma
    <3> QED BY <3>1 DEF Paged!Usages
  <2>2. usage \in [Paged!Pages -> Paged!Usages]
    BY SlabLemma
  <2> QED BY <1>1, <2>1, <2>2
<1>11. Leads(usage', DOMAIN zones' \union Range(spare'), held')
  <2> DEFINE Z == DOMAIN zones \union Range(spare)
             Y == DOMAIN zones' \union Range(spare)
  <2>1. Leads(usage, Z, held)
    BY SlabLemma
  <2>2. Y \subseteq Z
    BY <1>4
  <2>3. \A y \in Y : \A q \in Paged!Area(y, ZonePages) : usage'[q] = usage[q]
    <3> SUFFICES ASSUME NEW y \in Y, NEW q \in Paged!Area(y, ZonePages) PROVE usage'[q] = usage[q]
      OBVIOUS
    <3>1. q \notin Paged!Area(z, ZonePages)
      BY <1>4
    <3>2. q \in Paged!Pages
      BY <2>2, ZoneArea
    <3> QED BY <1>1, <3>1, <3>2
  <2>4. \A q \in LargeOf(held') : /\ q \in LargeOf(held) /\ held'[q] = held[q]
                                  /\ usage'[q.page] = usage[q.page]
    <3> SUFFICES ASSUME NEW q \in LargeOf(held')
                 PROVE  /\ q \in LargeOf(held) /\ held'[q] = held[q]
                        /\ usage'[q.page] = usage[q.page]
      OBVIOUS
    <3>1. q \in LargeOf(held) /\ held'[q] = held[q]
      BY <1>3
    <3>2. q.page \notin Paged!Area(z, ZonePages)
      <4>1. Divided(Keys(Range(runs), DOMAIN zones, Range(spare), held, call))
        BY SlabLemma
      <4> QED BY <1>4, <3>1, <4>1, LargeLemma
    <3>3. q.page \in Paged!Pages
      <4>1. q \in DOMAIN held
        BY <3>1 DEF LargeOf
      <4>2. q \in Paged!Pointers
        BY <4>1, SlabLemma
      <4> QED BY <4>2 DEF Paged!Pointers
    <3> QED BY <1>1, <3>1, <3>2, <3>3
  <2> HIDE DEF Y, Z
  <2>5. KeepsLeading(usage, usage', Z, Y, held, held')
    BY <1>10, <2>2, <2>3, <2>4 DEF KeepsLeading
  <2>6. Leads(usage', Y, held')
    BY <2>1, <2>5, LeadsChange
  <2> QED BY <1>1, <2>6 DEF Y
<1> QED BY <1>1, <1>4, <1>7, <1>8, <1>9, <1>11, SlabLemma DEF SlabInv

LEMMA DisposeSteps ==
    ASSUME Paged!SlabAssumption, SlabInv, NEW t \in Threads, OwnKey(t, call[t]) = {},
           NEW p \in DOMAIN held, NotOthers(call, t, p), Paged!Dispose(t, p)
    PROVE  SlabInv'
<1>1. CASE Paged!FreeLarge(t, p)
  BY <1>1, FreeLargeSteps
<1>2. CASE Paged!FreeChunk(t, p)
  <2> DEFINE z == ZoneOf(p)
             h == GotChunk(zones[z], p.chunk)
  <2> HIDE DEF z, h
  <2>1. z = ZoneOf(p) /\ h = GotChunk(zones[z], p.chunk)
    BY DEF z, h
  <2>2. CASE ~IsWhole(z, h)
    BY <1>2, <2>1, <2>2, FreePutSteps
  <2>3. CASE IsWhole(z, h) /\ Len(spare) # Threshold
    BY <1>2, <2>1, <2>3, FreeSpareSteps
  <2>4. CASE IsWhole(z, h) /\ Len(spare) = Threshold
    BY <1>2, <2>1, <2>4, FreeExtraSteps
  <2> QED BY <2>2, <2>3, <2>4
<1> QED BY <1>1, <1>2 DEF Paged!Dispose

LEMMA ReleaseSteps ==
    ASSUME Paged!SlabAssumption, SlabInv, NEW t \in Threads, Paged!Release(t)
    PROVE  SlabInv'
<1> DEFINE r == call[t].run
           x == CallKey(t, r)
<1>1. /\ call[t] # NoCall /\ call[t].at = "release" /\ runs' = Paged!Returned(r)
      /\ call' = [call EXCEPT ![t] = NoCall]
      /\ usage' = usage /\ zones' = zones /\ avail' = avail /\ spare' = spare /\ held' = held
  BY DEF Paged!Release, Paged!InCall, Paged!Goto
<1>2. r \in Paged!Runs /\ HasRun(call[t]) /\ OwnKey(t, call[t]) = {x}
  <2>1. r \in Paged!Runs
    BY <1>1, OwnOld DEF CallOk
  <2>2. HasRun(call[t])
    BY <1>1, <2>1, PagesLemma DEF HasRun
  <2> QED BY <2>1, <2>2 DEF OwnKey
<1>3. x \in Shares /\ x.page = r.page /\ x.n = r.n /\ x.kind = "call"
      /\ Span(x) = Paged!Area(r.page, r.n)
  BY <1>2, SlabLemma, KeyLemma
<1> HIDE DEF r, x
<1>4. Divided(Shares) /\ Sorted(runs)
  BY SlabLemma
<1>5. PageBehind(r) =< LastPage + 1
  <2> DEFINE a == r.page
             n == r.n
  <2>1. a \in Nat /\ n \in Nat /\ a + n - 1 =< LastPage /\ LastPage \in Nat
    BY <1>3, <1>4, SpanLemma, PagesLemma
  <2>2. PageBehind(r) = a + n
    BY DEF PageBehind
  <2> HIDE DEF a, n
  <2> QED BY <2>1, <2>2
<1>6. ASSUME NEW i \in DOMAIN runs
      PROVE  /\ PageBehind(runs[i]) =< LastPage + 1
             /\ Paged!Area(runs[i].page, runs[i].n) \intersect Paged!Area(r.page, r.n) = {}
  <2> DEFINE y == runs[i]
  <2>0. y \in Range(runs)
    BY <1>4, RunLemma
  <2> HIDE DEF y
  <2>1. /\ RunKey(y) \in Shares /\ Span(RunKey(y)) = Paged!Area(y.page, y.n)
        /\ RunKey(y).kind = "run"
        /\ RunKey(y).page = y.page /\ RunKey(y).n = y.n
    BY <2>0, SlabLemma, KeyLemma
  <2>2. PageBehind(y) =< LastPage + 1
    <3> DEFINE a == y.page
               n == y.n
    <3>1. a \in Nat /\ n \in Nat /\ a + n - 1 =< LastPage /\ LastPage \in Nat
      BY <1>4, <2>1, SpanLemma, PagesLemma
    <3>2. PageBehind(y) = a + n
      BY DEF PageBehind
    <3> HIDE DEF a, n
    <3> QED BY <3>1, <3>2
  <2>3. Paged!Area(y.page, y.n) \intersect Paged!Area(r.page, r.n) = {}
    BY <1>3, <1>4, <2>1 DEF Divided
  <2> QED BY <2>2, <2>3 DEF y
<1>7. Clear(runs, r)
  BY <1>6 DEF Clear
<1>8. PICK j \in Paged!Runs, R \in SUBSET Range(runs) :
         /\ Merges(j, r, R) /\ Sorted(Paged!Returned(r))
         /\ Range(Paged!Returned(r)) = (Range(runs) \ R) \union {j}
  BY <1>2, <1>4, <1>5, <1>6, <1>7, ReturnedLemma
<1>9. CallsOk(call', held') /\ Swaps(CallKeys(call'), CallKeys(call), {x}, {})
  <2>1. CallsOk(call, held) /\ call = [u \in Threads |-> call[u]]
    BY SlabLemma
  <2>2. CallsOk(call', held)
    <3>1. \A u \in Threads : u # t /\ call[u] # NoCall /\ call[u].old # NoCall =>
             call[u].old \in DOMAIN held
      BY <2>1 DEF CallsOk, CallOk
    <3> QED BY <1>1, <2>1, <3>1, CallEnds
  <2>3. OwnKey(t, NoCall) = {}
    BY DEF OwnKey, HasRun
  <2>4. Swaps(CallKeys(call'), CallKeys(call), OwnKey(t, call[t]), OwnKey(t, NoCall))
    BY <1>1, <2>1, CallMoves
  <2> QED BY <1>1, <1>2, <2>2, <2>3, <2>4
<1>10. Divided(Keys(Range(runs'), DOMAIN zones', Range(spare'), held', call'))
  <2> DEFINE J == Keys(Range(runs'), DOMAIN zones, Range(spare), held, call')
             A == RunKeys(R) \union {x}
  <2>1. Swaps(RunKeys(Range(runs')), RunKeys(Range(runs)), RunKeys(R), RunKeys({j}))
    BY <1>1, <1>8, RunsMove
  <2>2. RunKeys({j}) = {RunKey(j)}
    BY DEF RunKeys
  <2>3. /\ Swaps(RunKeys(Range(runs')), RunKeys(Range(runs)), RunKeys(R), {RunKey(j)})
        /\ Swaps(ZoneKeys(DOMAIN zones), ZoneKeys(DOMAIN zones), {}, {})
        /\ Swaps(SpareKeys(Range(spare)), SpareKeys(Range(spare)), {}, {})
        /\ Swaps(LargeKeys(held), LargeKeys(held), {}, {})
    BY <2>1, <2>2, Stays
  <2>4. Swaps(J, Shares, RunKeys(R) \union {} \union {} \union {} \union {x},
              {RunKey(j)} \union {} \union {} \union {} \union {})
    BY <1>9, <2>3, KeysChange DEF Shares
  <2> HIDE DEF J
  <2>5. J = (Shares \ A) \union {RunKey(j)} /\ A \in SUBSET Shares
    BY <2>4 DEF Swaps
  <2>6. Passes(A, {RunKey(j)})
    <3>1. /\ Span(RunKey(j)) = Paged!Area(j.page, j.n) /\ RunKey(j).page = j.page
          /\ RunKey(j).n = j.n /\ \A y \in R : Span(RunKey(y)) = Paged!Area(y.page, y.n)
      BY KeyLemma
    <3>2. RunKey(j).page \in Paged!Pages /\ RunKey(j).n \in Paged!Pages
      BY <3>1 DEF Paged!Runs
    <3>3. \A q : q \in Paged!Area(j.page, j.n) <=>
                   (q \in Paged!Area(r.page, r.n) \/ \E y \in R : q \in Paged!Area(y.page, y.n))
      BY <1>8 DEF Merges
    <3>4. ASSUME NEW q, q \in Span(RunKey(j)) PROVE \E a \in A : q \in Span(a)
      <4>1. CASE q \in Paged!Area(r.page, r.n)
        BY <1>3, <4>1
      <4>2. CASE q \notin Paged!Area(r.page, r.n)
        <5>1. PICK y \in R : q \in Paged!Area(y.page, y.n)
          BY <3>1, <3>3, <3>4, <4>2
        <5>2. RunKey(y) \in A /\ q \in Span(RunKey(y))
          BY <3>1, <5>1 DEF RunKeys
        <5> QED BY <5>2
      <4> QED BY <4>1, <4>2
    <3>5. ASSUME NEW a \in A, NEW q, q \in Span(a) PROVE q \in Span(RunKey(j))
      <4>1. CASE a = x
        BY <1>3, <3>1, <3>3, <3>5, <4>1
      <4>2. CASE a # x
        <5>1. PICK y \in R : a = RunKey(y)
          BY <4>2 DEF RunKeys
        <5> QED BY <3>1, <3>3, <3>5, <5>1
      <4> QED BY <4>1, <4>2
    <3> HIDE DEF A
    <3> QED BY <3>2, <3>4, <3>5 DEF Passes
  <2> HIDE DEF A
  <2>7. Divided(J)
    BY <1>4, <2>5, <2>6, Redivided
  <2> QED BY <1>1, <2>7 DEF J
<1> QED BY <1>1, <1>8, <1>9, <1>10, SlabLemma DEF SlabInv

-----------------------------------------------------------------------------
(* The invariant                                                            *)

LEMMA SlabStarts ==
    ASSUME Paged!SlabAssumption, Paged!Init
    PROVE  SlabInv
<1> DEFINE r == [page |-> 1, n |-> LastPage]
<1>1. /\ runs = <<r>> /\ usage = [p \in Paged!Pages |-> [type |-> "free", size |-> 0]]
      /\ zones = <<>> /\ avail = [c \in Paged!Classes |-> <<>>] /\ spare = <<>> /\ held = <<>>
      /\ call = [t \in Threads |-> NoCall]
  BY DEF Paged!Init
<1>2. LastPage \in Nat /\ LastPage > 0 /\ Paged!Pages = 1..LastPage /\ Threshold \in Nat
  BY PagesLemma
<1>3. r \in Paged!Runs /\ r.page = 1 /\ r.n = LastPage
  BY <1>2 DEF Paged!Runs
<1> HIDE DEF r
<1>4. Sorted(runs) /\ Range(runs) = {r}
  <2>1. runs \in Seq(Paged!Runs) /\ DOMAIN runs = {1} /\ runs[1] = r
    BY <1>1, <1>3
  <2>2. Range(runs) = {r}
    BY <2>1 DEF Range
  <2>3. \A i, j \in DOMAIN runs : ~(i < j)
    BY <2>1
  <2> QED BY <2>1, <2>2, <2>3 DEF Sorted
<1>5. /\ DOMAIN zones = {} /\ DOMAIN held = {} /\ Range(spare) = {} /\ Len(spare) = 0
      /\ spare \in Seq({}) /\ DOMAIN spare = {}
  BY <1>1 DEF Range
<1>6. Keys(Range(runs), DOMAIN zones, Range(spare), held, call) = {RunKey(r)}
  <2>1. /\ RunKeys({r}) = {RunKey(r)} /\ ZoneKeys({}) = {} /\ SpareKeys({}) = {}
    BY DEF RunKeys, ZoneKeys, SpareKeys
  <2>2. LargeKeys(held) = {}
    BY <1>5 DEF LargeKeys, LargeOf
  <2>3. CallKeys(call) = {}
    <3>1. \A t \in Threads : ~HasRun(call[t])
      BY <1>1 DEF HasRun
    <3> QED BY <3>1 DEF CallKeys
  <2> QED BY <1>4, <1>5, <2>1, <2>2, <2>3 DEF Keys
<1>7. Divided({RunKey(r)})
  <2>1. RunKey(r).page = 1 /\ RunKey(r).n = LastPage
    BY <1>3, KeyLemma
  <2>2. Span(RunKey(r)) = 1..LastPage
    <3>1. 1 + LastPage - 1 = LastPage
      BY <1>2
    <3> QED BY <2>1, <3>1 DEF Span
  <2>3. 1 \in Paged!Pages /\ LastPage \in Paged!Pages
    BY <1>2
  <2> QED BY <1>2, <2>1, <2>2, <2>3 DEF Divided
<1>8. Leads(usage, DOMAIN zones \union Range(spare), held)
  <2>1. [type |-> "free", size |-> 0] \in Paged!Usages
    <3>1. 0 \in 0..LastPage
      BY <1>2
    <3> QED BY <3>1 DEF Paged!Usages
  <2>2. usage \in [Paged!Pages -> Paged!Usages]
    BY <1>1, <2>1
  <2>3. LargeOf(held) = {}
    BY <1>5 DEF LargeOf
  <2> QED BY <1>5, <2>2, <2>3 DEF Leads
<1>9. Enumerates(spare, Range(spare)) /\ Len(spare) =< Threshold
  BY <1>2, <1>5 DEF Enumerates, IsInjective
<1>10. Zoned(zones, avail, held)
  <2>1. \A c \in Paged!Classes : OpenZones(zones, c) = {} /\ WholeZones(zones, c) = {}
    BY <1>5 DEF OpenZones, WholeZones
  <2>2. Enumerates(<<>>, {})
    BY DEF Enumerates, IsInjective, Range
  <2>3. avail = [c \in Paged!Classes |-> avail[c]] /\ \A c \in Paged!Classes : avail[c] = <<>>
    BY <1>1
  <2> QED BY <1>5, <2>1, <2>2, <2>3 DEF Zoned
<1>11. Owners(zones, held)
  BY <1>5 DEF Owners
<1>12. CallsOk(call, held)
  BY <1>1 DEF CallsOk, OtherOld
<1> QED BY <1>4, <1>6, <1>7, <1>8, <1>9, <1>10, <1>11, <1>12 DEF SlabInv

\* A block that no call moves may be freed or moved.
LEMMA NotMoving ==
    ASSUME NEW t, NEW p, p \notin Paged!Moving
    PROVE  NotOthers(call, t, p)
BY DEF Paged!Moving, NotOthers

LEMMA SlabSteps ==
    ASSUME Paged!SlabAssumption, SlabInv, [Paged!Next]_(Paged!vars)
    PROVE  SlabInv'
<1>1. ASSUME NEW t \in Threads, Paged!TakePages(t) PROVE SlabInv'
  BY <1>1, TakePagesSteps
<1>2. ASSUME NEW t \in Threads, Paged!NewZone(t) PROVE SlabInv'
  BY <1>2, NewZoneSteps
<1>3. ASSUME NEW t \in Threads, Paged!Release(t) PROVE SlabInv'
  BY <1>3, ReleaseSteps
<1>4. ASSUME NEW t \in Threads, Paged!ReallocFree(t) PROVE SlabInv'
  <2>1. call[t] # NoCall /\ call[t].at = "free" /\ Paged!Dispose(t, call[t].old)
    BY <1>4 DEF Paged!ReallocFree, Paged!InCall
  <2>2. OldIs(t, call[t].old) /\ CallOk(call[t], held)
    BY <2>1, OwnOld
  <2>3. call[t].old # NoCall /\ call[t].run = NoCall
    BY <2>1, <2>2 DEF CallOk
  <2>4. call[t].old \in DOMAIN held /\ NotOthers(call, t, call[t].old)
    BY <2>2, <2>3 DEF OldIs
  <2>5. OwnKey(t, call[t]) = {}
    BY <2>3 DEF OwnKey, HasRun
  <2> QED BY <2>1, <2>4, <2>5, DisposeSteps
<1>5. ASSUME NEW t \in Threads, NEW what, Paged!Malloc(t, what) PROVE SlabInv'
  <2>1. OldIs(t, NoCall)
    BY DEF OldIs
  <2> QED BY <1>5, <2>1, ObtainSteps DEF Paged!Malloc
<1>6. ASSUME NEW t \in Threads, NEW what, NEW p \in DOMAIN held, Paged!Realloc(t, p, what)
      PROVE  SlabInv'
  <2>1. Paged!Outside(t) /\ p \notin Paged!Moving /\ Paged!Obtain(t, what, p)
    BY <1>6 DEF Paged!Realloc
  <2>2. OldIs(t, p)
    BY <2>1, NotMoving DEF OldIs
  <2> QED BY <2>1, <2>2, ObtainSteps
<1>7. ASSUME NEW t \in Threads, NEW p \in DOMAIN held, Paged!Free(t, p) PROVE SlabInv'
  <2>1. Paged!Outside(t) /\ p \notin Paged!Moving /\ Paged!Dispose(t, p)
    BY <1>7 DEF Paged!Free
  <2> QED BY <2>1, NotMoving, OutsideKey, DisposeSteps
<1>8. CASE UNCHANGED Paged!vars
  <2>1. /\ runs' = runs /\ usage' = usage /\ zones' = zones /\ avail' = avail
        /\ spare' = spare /\ held' = held /\ call' = call
    BY <1>8 DEF Paged!vars
  <2> QED BY <2>1 DEF SlabInv
<1> QED BY <1>1, <1>2, <1>3, <1>4, <1>5, <1>6, <1>7, <1>8 DEF Paged!Next

LEMMA SlabInvariant ==
    ASSUME Paged!SlabAssumption
    PROVE  Paged!Spec => []SlabInv
<1>1. Paged!Init => SlabInv
  BY SlabStarts
<1>2. SlabInv /\ [Paged!Next]_(Paged!vars) => SlabInv'
  BY SlabSteps
<1> QED BY <1>1, <1>2, PTL DEF Paged!Spec

LEMMA SlabTypes ==
    ASSUME Paged!SlabAssumption, SlabInv
    PROVE  Paged!TypeOK
<1>1. /\ Sorted(runs) /\ Leads(usage, DOMAIN zones \union Range(spare), held)
      /\ Enumerates(spare, Range(spare)) /\ Zoned(zones, avail, held) /\ Owners(zones, held)
      /\ CallsOk(call, held)
  BY SlabLemma
<1>2. runs \in Seq(Paged!Runs) /\ usage \in [Paged!Pages -> Paged!Usages]
  BY <1>1 DEF Sorted, Leads
<1>3. DOMAIN zones \subseteq Paged!Pages /\ \A z \in DOMAIN zones : zones[z] \in Paged!Zones
  BY <1>1, ZoneLemma DEF Zoned
<1>4. avail \in [Paged!Classes -> Seq(DOMAIN zones)]
  <2>1. ASSUME NEW c \in Paged!Classes PROVE avail[c] \in Seq(DOMAIN zones)
    <3>1. avail[c] \in Seq(OpenZones(zones, c))
      BY <1>1 DEF Zoned, Enumerates
    <3>2. OpenZones(zones, c) \subseteq DOMAIN zones
      BY DEF OpenZones
    <3> QED BY <3>1, <3>2
  <2>2. avail = [c \in Paged!Classes |-> avail[c]]
    BY <1>1 DEF Zoned
  <2> QED BY <2>1, <2>2
<1>5. spare \in Seq(Paged!Pages)
  <2>1. Range(spare) \subseteq Paged!Pages
    BY ZoneArea
  <2>2. spare \in Seq(Range(spare))
    BY <1>1 DEF Enumerates
  <2> QED BY <2>1, <2>2
<1>6. DOMAIN held \subseteq Paged!Pointers /\ \A p \in DOMAIN held : held[p] \in Paged!Classes \union PageCounts
  BY <1>1 DEF Owners
<1>7. call \in [Threads -> Paged!Calls \union {NoCall}]
  BY <1>1 DEF CallsOk
<1> QED BY <1>2, <1>3, <1>4, <1>5, <1>6, <1>7 DEF Paged!TypeOK

\* The holders of Tiled are those of the invariant.
LEMMA HoldersAre == Paged!Holders = {Span(k) : k \in Shares}
<1>1. ASSUME NEW a \in Paged!Holders PROVE a \in {Span(k) : k \in Shares}
  <2>1. CASE a \in {Paged!Area(r.page, r.n) : r \in Range(runs)}
    <3>1. PICK r \in Range(runs) : a = Paged!Area(r.page, r.n)
      BY <2>1
    <3> QED BY <3>1, KeysAre, KeyLemma DEF Shares
  <2>2. CASE a \in {Paged!Area(z, ZonePages) : z \in DOMAIN zones \union Range(spare)}
    <3>1. PICK z \in DOMAIN zones \union Range(spare) : a = Paged!Area(z, ZonePages)
      BY <2>2
    <3>2. \E k \in Shares : Span(k) = Paged!Area(z, ZonePages)
      <4>1. z \in DOMAIN zones => ZoneKey(z) \in Shares
        BY KeysAre DEF Shares
      <4>2. z \in Range(spare) => SpareKey(z) \in Shares
        BY KeysAre DEF Shares
      <4> QED BY <4>1, <4>2, KeyLemma
    <3> QED BY <3>1, <3>2
  <2>3. CASE a \in {Paged!Area(p.page, held[p]) : p \in LargeOf(held)}
    <3>1. PICK p \in LargeOf(held) : a = Paged!Area(p.page, held[p])
      BY <2>3
    <3> QED BY <3>1, KeysAre, KeyLemma DEF Shares
  <2>4. CASE a \in {Paged!Area(call[t].run.page, call[t].run.n) : t \in {u \in Threads : HasRun(call[u])}}
    <3>1. PICK t \in Threads : HasRun(call[t]) /\ a = Paged!Area(call[t].run.page, call[t].run.n)
      BY <2>4
    <3> QED BY <3>1, KeysAre, KeyLemma DEF Shares
  <2> QED BY <2>1, <2>2, <2>3, <2>4, PagedWords DEF Paged!Holders, LargeOf, HasRun
<1>2. ASSUME NEW k \in Shares PROVE Span(k) \in Paged!Holders
  <2>1. CASE k \in RunKeys(Range(runs))
    <3>1. PICK r \in Range(runs) : k = RunKey(r)
      BY <2>1 DEF RunKeys
    <3>2. Span(k) = Paged!Area(r.page, r.n)
      BY <3>1, KeyLemma
    <3> QED BY <3>2, PagedWords DEF Paged!Holders
  <2>2. CASE k \in ZoneKeys(DOMAIN zones)
    <3>1. PICK z \in DOMAIN zones : k = ZoneKey(z)
      BY <2>2 DEF ZoneKeys
    <3>2. Span(k) = Paged!Area(z, ZonePages)
      BY <3>1, KeyLemma
    <3> QED BY <3>2 DEF Paged!Holders
  <2>3. CASE k \in SpareKeys(Range(spare))
    <3>1. PICK z \in Range(spare) : k = SpareKey(z)
      BY <2>3 DEF SpareKeys
    <3>2. Span(k) = Paged!Area(z, ZonePages)
      BY <3>1, KeyLemma
    <3> QED BY <3>2, PagedWords DEF Paged!Holders
  <2>4. CASE k \in LargeKeys(held)
    <3>1. PICK p \in LargeOf(held) : k = LargeKey(p, held[p])
      BY <2>4 DEF LargeKeys
    <3>2. Span(k) = Paged!Area(p.page, held[p])
      BY <3>1, KeyLemma
    <3>3. Span(k) \in {Paged!Area(x.page, held[x]) : x \in LargeOf(held)}
      BY <3>2
    <3> QED BY <3>3 DEF Paged!Holders, LargeOf
  <2>5. CASE k \in CallKeys(call)
    <3>1. PICK t \in {u \in Threads : HasRun(call[u])} : k = CallKey(t, call[t].run)
      BY <2>5 DEF CallKeys
    <3>2. Span(k) = Paged!Area(call[t].run.page, call[t].run.n)
      BY <3>1, KeyLemma
    <3> QED BY <3>1, <3>2 DEF Paged!Holders, HasRun
  <2> QED BY <2>1, <2>2, <2>3, <2>4, <2>5 DEF Shares, Keys
<1> QED BY <1>1, <1>2

LEMMA SlabTiled ==
    ASSUME Paged!SlabAssumption, SlabInv
    PROVE  Paged!Tiled
<1>1. /\ Sorted(runs) /\ Divided(Shares) /\ Leads(usage, DOMAIN zones \union Range(spare), held)
  BY SlabLemma
<1>2. UNION Paged!Holders = Paged!Pages
  BY <1>1, HoldersAre DEF Divided
<1>3. \A a, b \in Paged!Holders : a = b \/ a \intersect b = {}
  BY <1>1, HoldersAre DEF Divided
<1>4. \A i, j \in DOMAIN runs : i < j => runs[i].page + runs[i].n < runs[j].page
  BY <1>1 DEF Sorted
<1>5. \A z \in DOMAIN zones \union Range(spare) : \A p \in Paged!Area(z, ZonePages) :
         usage[p] = [type |-> "small", size |-> p - z]
  BY <1>1 DEF Leads
<1> QED BY <1>2, <1>3, <1>4, <1>5, SlabTypes, PagedWords DEF Paged!Tiled

LEMMA SlabOwned ==
    ASSUME Paged!SlabAssumption, SlabInv
    PROVE  Paged!OwnedOnce
<1>1. /\ Leads(usage, DOMAIN zones \union Range(spare), held) /\ Zoned(zones, avail, held)
  BY SlabLemma
<1>2. ASSUME NEW z \in DOMAIN zones
      PROVE  LET h == zones[z]
                 fresh == h.uindex + 1..Chunks[h.class] - 1
                 owned == {i \in 0..Chunks[h.class] - 1 : Paged!Pointer(z, h.class, i) \in DOMAIN held}
             IN  /\ IsInjective(h.free)
                 /\ fresh \intersect Range(h.free) = {}
                 /\ owned = (0..Chunks[h.class] - 1) \ (fresh \union Range(h.free))
                 /\ \A i \in owned : held[Paged!Pointer(z, h.class, i)] = h.class
                 /\ h.nfree = Cardinality(fresh) + Len(h.free)
                 /\ h.nfree > 0 <=> z \in Range(avail[h.class])
  <2> DEFINE h == zones[z]
             n == Chunks[h.class]
             u == h.uindex
             fresh == u + 1..n - 1
             owned == {i \in 0..n - 1 : Paged!Pointer(z, h.class, i) \in DOMAIN held}
             F == Range(h.free)
  <2>1. ZoneOk(z, h, held)
    BY <1>1, ZoneLemma
  <2>2. /\ h.class \in Paged!Classes /\ h.nfree \in Nat /\ u \in Nat /\ IsInjective(h.free)
        /\ Len(h.free) \in Nat /\ F \subseteq 0..u /\ n \in Nat /\ u < n
        /\ h.nfree = n - 1 - u + Len(h.free)
    BY <2>1, ZoneHas
  <2>3. \A i \in 0..n - 1 :
           /\ (Paged!Pointer(z, h.class, i) \in DOMAIN held) <=> (i =< u /\ i \notin F)
           /\ Paged!Pointer(z, h.class, i) \in DOMAIN held => held[Paged!Pointer(z, h.class, i)] = h.class
    BY <2>1 DEF ZoneOk
  <2>4. h.nfree > 0 <=> z \in Range(avail[h.class])
    <3>1. Range(avail[h.class]) = OpenZones(zones, h.class)
      BY <1>1, <2>2 DEF Zoned, Enumerates
    <3> QED BY <3>1 DEF OpenZones
  <2>5. \A i \in owned : held[Paged!Pointer(z, h.class, i)] = h.class
    BY <2>3
  <2>6. owned = {i \in 0..n - 1 : i =< u /\ i \notin F}
    BY <2>3
  <2> HIDE DEF h, n, u, owned, F
  <2>7. Cardinality(fresh) = n - 1 - u
    <3>1. u + 1 \in Int /\ n - 1 \in Int
      BY <2>2
    <3>2. Cardinality(fresh) = IF u + 1 > n - 1 THEN 0 ELSE (n - 1) - (u + 1) + 1
      BY <3>1, FS_Interval
    <3> QED BY <2>2, <3>2
  <2>8. fresh \intersect F = {}
    BY <2>2
  <2>9. owned = (0..n - 1) \ (fresh \union F)
    BY <2>2, <2>6
  <2>10. h.nfree = Cardinality(fresh) + Len(h.free)
    BY <2>2, <2>7
  <2> QED BY <2>2, <2>4, <2>5, <2>8, <2>9, <2>10 DEF h, n, u, owned, F
<1>3. \A c \in Paged!Classes : IsInjective(avail[c]) /\ \A z \in Range(avail[c]) : zones[z].class = c
  BY <1>1 DEF Zoned, Enumerates, OpenZones
<1>4. \A p \in DOMAIN held : held[p] \in PageCounts =>
         usage[p.page] = [type |-> "large", size |-> held[p]]
  BY <1>1 DEF Leads, LargeOf
<1> QED BY <1>2, <1>3, <1>4, PagedWords DEF Paged!OwnedOnce

LEMMA SlabRecovered ==
    ASSUME Paged!SlabAssumption, SlabInv
    PROVE  Paged!Recovered
<1>1. Len(spare) =< Threshold /\ Zoned(zones, avail, held)
  BY SlabLemma
<1>2. ASSUME held = <<>>, NEW c \in Paged!Classes PROVE Len(avail[c]) =< 1
  <2> DEFINE list == avail[c]
             F == OpenZones(zones, c)
  <2>1. Enumerates(list, F) /\ \A y, z \in WholeZones(zones, c) : y = z
    BY <1>1 DEF Zoned
  <2>2. ASSUME NEW z \in F PROVE z \in WholeZones(zones, c)
    <3> DEFINE h == zones[z]
    <3>1. z \in DOMAIN zones /\ h.class = c
      BY DEF OpenZones
    <3>2. ZoneOk(z, h, held)
      BY <1>1, <3>1, ZoneLemma
    <3> HIDE DEF h
    <3>3. \A i \in 0..Chunks[h.class] - 1 : ~(i =< h.uindex /\ i \notin Range(h.free))
      <4>1. DOMAIN held = {}
        BY <1>2
      <4> QED BY <3>2, <4>1 DEF ZoneOk
    <3>4. /\ h.uindex \in Nat /\ Chunks[h.class] \in Nat /\ h.uindex < Chunks[h.class]
          /\ Range(h.free) \subseteq 0..h.uindex
      BY <3>2, ZoneHas
    <3>5. Range(h.free) = 0..h.uindex
      <4> DEFINE u == h.uindex
                 n == Chunks[h.class]
                 free == Range(h.free)
      <4>1. /\ u \in Nat /\ n \in Nat /\ u < n /\ free \subseteq 0..u
            /\ \A i \in 0..n - 1 : ~(i =< u /\ i \notin free)
        BY <3>3, <3>4
      <4> HIDE DEF u, n, free
      <4>2. \A i \in 0..u : i \in 0..n - 1 /\ i =< u
        BY <4>1
      <4>3. free = 0..u
        BY <4>1, <4>2
      <4> QED BY <4>3 DEF u, free
    <3>6. h.nfree = Chunks[h.class]
      BY <3>2, <3>5, ZoneHas
    <3> QED BY <3>1, <3>6 DEF WholeZones, h
  <2>3. \A y, z \in F : y = z
    BY <2>1, <2>2
  <2> HIDE DEF F, list
  <2>4. /\ Len(list) \in Nat /\ DOMAIN list = 1..Len(list)
        /\ \A i \in DOMAIN list : list[i] \in F
        /\ \A i, j \in DOMAIN list : list[i] = list[j] => i = j
    BY <2>1 DEF Enumerates, IsInjective
  <2>5. Len(list) =< 1
    <3> SUFFICES ASSUME Len(list) > 1 PROVE FALSE
      BY <2>4
    <3>1. 1 \in DOMAIN list /\ 2 \in DOMAIN list
      BY <2>4
    <3> QED BY <2>3, <2>4, <3>1
  <2> QED BY <2>5 DEF list
<1> QED BY <1>1, <1>2 DEF Paged!Recovered

\* Every page has one holder.
THEOREM PagesTile ==
    ASSUME Paged!SlabAssumption
    PROVE  Paged!Spec => []Paged!Tiled
BY SlabInvariant, SlabTiled, PTL

THEOREM ChunksHaveOwners ==
    ASSUME Paged!SlabAssumption
    PROVE  Paged!Spec => []Paged!OwnedOnce
BY SlabInvariant, SlabOwned, PTL

THEOREM PagesRecover ==
    ASSUME Paged!SlabAssumption
    PROVE  Paged!Spec => []Paged!Recovered
BY SlabInvariant, SlabRecovered, PTL
=============================================================================
