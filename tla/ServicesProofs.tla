--------------------------- MODULE ServicesProofs ---------------------------
(***************************************************************************)
(* What Services keeps side by side, proved part by part: the timers       *)
(* (Inv, and that they implement Alarms), the output of rt_kprintf         *)
(* (PrintInv), the objects of a class and their listing (RegistryInv), the *)
(* shell's input line (LineInv, and that it implements LineEditor) and the *)
(* three allocators, whose invariants are proved in HeapProofs.  The last  *)
(* section puts them together to PartInv, and states the theorems for      *)
(* AllSpec, the specification of all parts.                                *)
(***************************************************************************)
EXTENDS Services, HeapProofs

-----------------------------------------------------------------------------
(* Lists without repetitions                                                *)

\* The other entries keep their order.
LEMMA ShorterKeeps ==
    ASSUME NEW S, NEW l \in Seq(S), IsInjective(l), NEW k, NEW r, Shorter(r, l, k, S)
    PROVE  /\ IsInjective(r) /\ Range(r) = Range(l) \ {l[k]}
           /\ \A i, j \in DOMAIN r : i < j =>
                 \E x, y \in DOMAIN l \ {k} : x < y /\ r[i] = l[x] /\ r[j] = l[y]
           /\ \A x, y \in DOMAIN l \ {k} : x < y =>
                 \E i, j \in DOMAIN r : i < j /\ r[i] = l[x] /\ r[j] = l[y]
<1>0. /\ r \in Seq(S) /\ Len(r) = Len(l) - 1 /\ k \in 1..Len(l)
      /\ \A i \in 1..Len(l) - 1 : r[i] = IF i < k THEN l[i] ELSE l[i+1]
  BY DEF Shorter
<1> DEFINE From(i) == IF i < k THEN i ELSE i + 1
           To(x) == IF x < k THEN x ELSE x - 1
<1>1. DOMAIN l = 1..Len(l) /\ DOMAIN r = 1..Len(l) - 1 /\ k \in DOMAIN l
  BY <1>0
<1>2. \A i \in DOMAIN r : From(i) \in DOMAIN l \ {k} /\ r[i] = l[From(i)]
  BY <1>0, <1>1
<1>3. \A i, j \in DOMAIN r : (From(i) = From(j) => i = j) /\ (i < j => From(i) < From(j))
  BY <1>0, <1>1
<1>4. \A x \in DOMAIN l \ {k} : To(x) \in DOMAIN r /\ From(To(x)) = x
  BY <1>0, <1>1
<1>5. \A x, y \in DOMAIN l \ {k} : x < y => To(x) < To(y)
  BY <1>0, <1>1
<1> HIDE DEF From, To
<1>6. IsInjective(r)
  BY <1>2, <1>3 DEF IsInjective
<1>7. Range(r) = Range(l) \ {l[k]}
  <2>1. \A x \in DOMAIN l : l[x] = l[k] => x = k
    BY <1>1 DEF IsInjective
  <2>2. \A e \in Range(r) : e \in Range(l) /\ e # l[k]
    BY <1>2, <2>1 DEF Range
  <2>3. \A e \in Range(l) : e # l[k] => e \in Range(r)
    BY <1>2, <1>4 DEF Range
  <2> QED BY <2>2, <2>3
<1>8. \A i, j \in DOMAIN r : i < j =>
         \E x, y \in DOMAIN l \ {k} : x < y /\ r[i] = l[x] /\ r[j] = l[y]
  BY <1>2, <1>3
<1>9. \A x, y \in DOMAIN l \ {k} : x < y =>
         \E i, j \in DOMAIN r : i < j /\ r[i] = l[x] /\ r[j] = l[y]
  BY <1>2, <1>4, <1>5
<1> QED BY <1>6, <1>7, <1>8, <1>9

\* r is l with t as entry k: those behind it moved back.
Longer(r, l, k, t, S) ==
    /\ r \in Seq(S) /\ Len(r) = Len(l) + 1 /\ k \in 1..Len(l) + 1
    /\ \A i \in 1..Len(l) + 1 : r[i] = IF i < k THEN l[i] ELSE IF i = k THEN t ELSE l[i-1]

\* Insertion at position k, as the sequence it makes.
LEMMA InsertAtLonger ==
    ASSUME NEW S, NEW l \in Seq(S), NEW k \in 1..Len(l) + 1, NEW t \in S
    PROVE  Longer(InsertAt(l, k, t), l, k, t, S)
<1> DEFINE u == SubSeq(l, 1, k-1)
           v == SubSeq(l, k, Len(l))
           w == Append(u, t)
           r == w \o v
<1>1. /\ u \in Seq(S) /\ Len(u) = k - 1
      /\ v \in Seq(S) /\ Len(v) = Len(l) - k + 1
      /\ \A i \in 1..(k-1) : u[i] = l[i]
      /\ \A i \in 1..(Len(l) - k + 1) : v[i] = l[i+k-1]
  BY SubSeqProperties
<1>2. InsertAt(l, k, t) = (u \o <<t>>) \o v
  BY DEF InsertAt
<1> HIDE DEF u, v
<1>3. InsertAt(l, k, t) = r
  <2>1. u \in Seq(S) /\ v \in Seq(S)
    BY <1>1
  <2>2. (u \o <<t>>) \o v = Append(u, t) \o v
    BY <2>1
  <2> QED BY <1>2, <2>2
<1>4. /\ w \in Seq(S) /\ Len(w) = k
      /\ \A i \in 1..k : w[i] = IF i < k THEN l[i] ELSE t
  <2>1. w \in Seq(S) /\ Len(w) = k /\ \A i \in 1..k : w[i] = IF i < k THEN u[i] ELSE t
    BY <1>1
  <2> HIDE DEF w
  <2>2. \A i \in 1..k : i < k => i \in 1..(k-1)
    OBVIOUS
  <2> QED BY <1>1, <2>1, <2>2
<1> HIDE DEF w
<1>5. /\ r \in Seq(S) /\ Len(r) = Len(w) + Len(v)
      /\ \A i \in 1..Len(w) + Len(v) : r[i] = IF i <= Len(w) THEN w[i] ELSE v[i - Len(w)]
  <2>1. w \in Seq(S) /\ v \in Seq(S)
    BY <1>1, <1>4
  <2> QED BY <2>1, ConcatProperties
<1>6. Len(w) + Len(v) = Len(l) + 1
  BY <1>1, <1>4
<1> HIDE DEF r
<1>7. \A i \in 1..Len(l) + 1 : r[i] = IF i < k THEN l[i] ELSE IF i = k THEN t ELSE l[i-1]
  <2> SUFFICES ASSUME NEW i \in 1..Len(l) + 1
               PROVE  r[i] = IF i < k THEN l[i] ELSE IF i = k THEN t ELSE l[i-1]
    OBVIOUS
  <2>1. r[i] = IF i <= k THEN w[i] ELSE v[i - k]
    BY <1>4, <1>5, <1>6
  <2>2. CASE i <= k
    <3>1. i \in 1..k
      BY <2>2
    <3> QED BY <1>4, <2>1, <2>2, <3>1
  <2>3. CASE i > k
    <3>1. i - k \in 1..(Len(l) - k + 1) /\ (i - k) + k - 1 = i - 1
      BY <2>3
    <3>2. v[i - k] = l[i - 1]
      BY <1>1, <3>1
    <3> QED BY <2>1, <2>3, <3>2
  <2> QED BY <2>2, <2>3
<1> QED BY <1>3, <1>5, <1>6, <1>7 DEF Longer

-----------------------------------------------------------------------------
(* A list of timers, ordered by the ticks f to their deadlines              *)

InOrder(l, f) ==
    /\ l \in Seq(Timers) /\ IsInjective(l)
    /\ \A i, j \in DOMAIN l : i < j => f[l[i]] =< f[l[j]]

\* An ordered list stays ordered.
LEMMA ShorterLine ==
    ASSUME NEW l, NEW f, InOrder(l, f), NEW k, NEW r, Shorter(r, l, k, Timers)
    PROVE  InOrder(r, f) /\ Range(r) = Range(l) \ {l[k]}
<1>1. l \in Seq(Timers) /\ IsInjective(l) /\ r \in Seq(Timers)
  BY DEF InOrder, Shorter
<1>2. /\ IsInjective(r) /\ Range(r) = Range(l) \ {l[k]}
      /\ \A i, j \in DOMAIN r : i < j =>
            \E x, y \in DOMAIN l \ {k} : x < y /\ r[i] = l[x] /\ r[j] = l[y]
  BY <1>1, ShorterKeeps
<1> QED BY <1>1, <1>2 DEF InOrder

\* The place of t: behind the timers of the same deadline.
Place(l, k, t, f) ==
    /\ k \in 1..Len(l) + 1
    /\ \A i \in 1..Len(l) : i < k => f[l[i]] =< f[t]
    /\ \A i \in 1..Len(l) : i >= k => f[t] < f[l[i]]

LEMMA LongerLine ==
    ASSUME NEW l, NEW f \in [Timers -> Int], InOrder(l, f), NEW k, NEW t \in Timers,
           t \notin Range(l), NEW r, Longer(r, l, k, t, Timers), Place(l, k, t, f)
    PROVE  InOrder(r, f) /\ Range(r) = Range(l) \union {t}
<1>0. /\ r \in Seq(Timers) /\ Len(r) = Len(l) + 1 /\ k \in 1..Len(l) + 1
      /\ \A i \in 1..Len(l) + 1 : r[i] = IF i < k THEN l[i] ELSE IF i = k THEN t ELSE l[i-1]
  BY DEF Longer
<1> DEFINE From(i) == IF i < k THEN i ELSE i - 1
<1>1. /\ l \in Seq(Timers) /\ DOMAIN r = 1..Len(l) + 1 /\ DOMAIN l = 1..Len(l)
      /\ \A i \in DOMAIN l : l[i] \in Timers
  BY <1>0 DEF InOrder
<1>2. r[k] = t
  BY <1>0
<1>3. \A i \in DOMAIN r \ {k} : From(i) \in DOMAIN l /\ r[i] = l[From(i)]
  BY <1>0, <1>1, SMTT(30)
<1>4. \A i, j \in DOMAIN r \ {k} : /\ From(i) = From(j) => i = j
                                   /\ i < j => From(i) < From(j)
  BY <1>0, <1>1, SMTT(30)
<1>5. \A i \in DOMAIN r \ {k} : /\ i < k => From(i) < k
                                /\ k < i => From(i) >= k
  BY <1>0, <1>1
<1>6. \A x \in DOMAIN l : \E i \in DOMAIN r \ {k} : From(i) = x
  <2> TAKE x \in DOMAIN l
  <2>1. CASE x < k
    <3>1. x \in DOMAIN r \ {k} /\ From(x) = x
      BY <1>0, <1>1, <2>1
    <3> QED BY <3>1
  <2>2. CASE x >= k
    <3>1. x + 1 \in DOMAIN r \ {k} /\ From(x + 1) = x
      BY <1>0, <1>1, <2>2
    <3> QED BY <3>1
  <2> QED BY <1>0, <1>1, <2>1, <2>2
<1>7. \A x \in DOMAIN l : l[x] # t
  BY DEF Range
<1> HIDE DEF From
<1>8. \A i, j \in DOMAIN r : r[i] = r[j] => i = j
  <2> SUFFICES ASSUME NEW i \in DOMAIN r, NEW j \in DOMAIN r, r[i] = r[j] PROVE i = j
    OBVIOUS
  <2>1. CASE i # k /\ j # k
    BY <1>3, <1>4, <2>1 DEF InOrder, IsInjective
  <2>2. CASE i = k \/ j = k
    BY <1>2, <1>3, <1>7, <2>2
  <2> QED BY <2>1, <2>2
<1>9. ASSUME NEW i \in DOMAIN r, NEW j \in DOMAIN r, i < j PROVE f[r[i]] =< f[r[j]]
  <2>1. CASE i # k /\ j # k
    BY <1>3, <1>4, <1>9, <2>1 DEF InOrder
  <2>2. CASE i = k
    <3>1. From(j) \in 1..Len(l) /\ From(j) >= k /\ r[j] = l[From(j)] /\ r[i] = t
      BY <1>0, <1>1, <1>2, <1>3, <1>5, <1>9, <2>2
    <3>2. f[t] < f[r[j]] /\ f[t] \in Int /\ f[r[j]] \in Int
      BY <1>1, <3>1 DEF Place
    <3> QED BY <3>1, <3>2
  <2>3. CASE j = k
    <3>1. From(i) \in 1..Len(l) /\ From(i) < k /\ r[i] = l[From(i)] /\ r[j] = t
      BY <1>0, <1>1, <1>2, <1>3, <1>5, <1>9, <2>3
    <3> QED BY <3>1 DEF Place
  <2> QED BY <2>1, <2>2, <2>3
<1>10. Range(r) = Range(l) \union {t}
  <2>1. Range(r) = {r[i] : i \in DOMAIN r} /\ Range(l) = {l[i] : i \in DOMAIN l} /\ k \in DOMAIN r
    BY <1>0, <1>1 DEF Range
  <2> QED BY <1>2, <1>3, <1>6, <2>1
<1> QED BY <1>0, <1>8, <1>9, <1>10 DEF InOrder, IsInjective

\* The list when its first timer fires.
LEMMA TailLemma ==
    ASSUME NEW l, NEW f \in [Timers -> Int], InOrder(l, f), l # <<>>
    PROVE  /\ InOrder(Tail(l), f) /\ Range(Tail(l)) = Range(l) \ {Head(l)}
           /\ Head(l) \in Range(l) /\ Range(l) \subseteq Timers
           /\ \A u \in Range(l) : f[Head(l)] =< f[u]
<1>1. /\ l \in Seq(Timers) /\ Head(l) = l[1] /\ 1 \in 1..Len(l) /\ DOMAIN l = 1..Len(l)
  BY DEF InOrder
<1>2. Shorter(Tail(l), l, 1, Timers)
  BY <1>1 DEF Shorter
<1>3. InOrder(Tail(l), f) /\ Range(Tail(l)) = Range(l) \ {Head(l)}
  BY <1>1, <1>2, ShorterLine
<1>4. Head(l) \in Range(l) /\ Range(l) \subseteq Timers
  BY <1>1 DEF Range
<1>5. ASSUME NEW u \in Range(l) PROVE f[Head(l)] =< f[u]
  <2>1. PICK i \in DOMAIN l : l[i] = u
    BY DEF Range
  <2>2. CASE i = 1
    <3>1. f[Head(l)] \in Int
      BY <1>4
    <3> QED BY <1>1, <2>1, <2>2, <3>1
  <2>3. CASE 1 < i
    BY <1>1, <2>1, <2>3 DEF InOrder
  <2> QED BY <1>1, <2>1, <2>2, <2>3
<1> QED BY <1>3, <1>4, <1>5

\* _rt_timer_remove
LEMMA RemovedLemma ==
    ASSUME NEW l, NEW f, InOrder(l, f), NEW t
    PROVE  InOrder(Removed(l, t), f) /\ Range(Removed(l, t)) = Range(l) \ {t}
<1>1. l \in Seq(Timers)
  BY DEF InOrder
<1>a. CASE t \notin Range(l)
  BY <1>a DEF Removed
<1>b. CASE t \in Range(l)
  <2>2. PICK k \in 1..Len(l) : l[k] = t /\ Removed(l, t) = RemoveAt(l, k)
    <3> DEFINE k == CHOOSE i \in DOMAIN l : l[i] = t
    <3>1. \E i \in DOMAIN l : l[i] = t
      BY <1>b DEF Range
    <3>2. k \in DOMAIN l /\ l[k] = t /\ DOMAIN l = 1..Len(l)
      BY <1>1, <3>1
    <3>3. Removed(l, t) = RemoveAt(l, k)
      BY <1>b DEF Removed
    <3> HIDE DEF k
    <3> QED BY <3>2, <3>3
  <2>7. Shorter(Removed(l, t), l, k, Timers)
    BY <1>1, <2>2, RemoveAtShorter
  <2> QED BY <2>2, <2>7, ShorterLine
<1> QED BY <1>a, <1>b

-----------------------------------------------------------------------------
(* Ticks.  A deadline is so many ticks ahead of the tick k, or, below zero, *)
(* past it, as far as 32 bits can tell.                                     *)

Ticks == 0..Width - 1

Offset(k, d) == [t \in Timers |-> IF Minus(d[t], k) =< Longest THEN Minus(d[t], k)
                                 ELSE Minus(d[t], k) - Width]

\* The deadlines the code compares are not too far from the tick.
Near(o) == o \in -(MaxStall + 1)..Longest

Widths == /\ Width \in Nat \ {0} /\ Half \in Nat /\ 2 * Half < Width
         /\ Longest \in Nat /\ MaxStall \in Nat /\ Longest + MaxStall + 1 < Half
         /\ \A t \in Timers : Times[t] \subseteq 0..Longest /\ Min(Times[t]) \in Times[t]
         /\ NoTimer \notin Timers

\* The longest time exists.
LEMMA SizesLemma == TimerAssumption => Widths
<1> SUFFICES ASSUME TimerAssumption PROVE Widths
  OBVIOUS
<1> DEFINE S == UNION {Times[t] : t \in Timers}
<1>1. /\ Width \in Nat /\ MaxStall \in Nat
      /\ \A t \in Timers : Times[t] \subseteq 0..Half /\ Times[t] # {}
      /\ Timers # {} /\ Longest + MaxStall + 1 < Half /\ NoTimer \notin Timers
  BY DEF TimerAssumption
<1>2. Longest = Max(S)
  BY DEF Longest
<1>3. \A t \in Timers : \A n \in Times[t] : n \in S
  OBVIOUS
<1>4. S # {} /\ \A n \in S : n \in 0..Half
  BY <1>1
<1> HIDE DEF S
<1>5. Half \in Int
  BY <1>1 DEF Half
<1>6. Max(S) \in S /\ \A n \in S : n =< Max(S)
  <2> DEFINE D == {m \in Nat : Half - m \in S}
  <2>1. PICK n0 \in S : TRUE
    BY <1>4
  <2>2. Half - n0 \in Nat /\ Half - (Half - n0) = n0
    BY <1>4, <1>5
  <2>3. Half - n0 \in D
    BY <2>1, <2>2
  <2>4. D \in SUBSET Nat /\ D # {}
    BY <2>3
  <2>5. \A n \in S : Half - n \in D
    <3> TAKE n \in S
    <3>1. Half - n \in Nat /\ Half - (Half - n) = n
      BY <1>4, <1>5
    <3> QED BY <3>1
  <2>6. \A m \in D : Half - m \in S /\ m \in Nat
    OBVIOUS
  <2> HIDE DEF D
  <2>7. PICK m \in D : \A y \in D : m =< y
    BY <2>4, FirstLemma
  <2>8. Half - m \in S /\ \A n \in S : Half - m >= n
    <3>1. \A n \in S : m =< Half - n /\ n \in Int
      BY <1>4, <2>5, <2>7
    <3> QED BY <1>5, <2>6, <2>7, <3>1
  <2>9. \E x \in S : \A y \in S : x >= y
    BY <2>8
  <2>10. Max(S) \in S /\ \A y \in S : Max(S) >= y
    BY <2>9 DEF Max
  <2> QED BY <1>4, <2>10
<1>7. Longest \in Nat /\ \A t \in Timers : Times[t] \subseteq 0..Longest
  <2>1. Longest \in Nat
    BY <1>2, <1>4, <1>6
  <2> QED BY <1>2, <1>3, <1>4, <1>6, <2>1
<1>8. Half \in Nat /\ Width \in Nat \ {0} /\ 2 * Half < Width
  <2>1. Half > 0
    BY <1>1, <1>5, <1>7
  <2> QED BY <1>1, <1>5, <2>1 DEF Half
<1>9. \A t \in Timers : Min(Times[t]) \in Times[t]
  <2> TAKE t \in Timers
  <2>1. Times[t] \in SUBSET Nat /\ Times[t] # {}
    BY <1>1, <1>7
  <2> QED BY <2>1, FirstLemma
<1> QED BY <1>1, <1>7, <1>8, <1>9 DEF Widths

\* A difference of two ticks.
LEMMA MinusLemma ==
    ASSUME Widths, NEW a \in Ticks, NEW b \in Ticks
    PROVE  Minus(a, b) = (IF b =< a THEN a - b ELSE a - b + Width) /\ Minus(a, b) \in Ticks
<1>1. Width \in Nat \ {0} /\ a \in 0..Width - 1 /\ b \in 0..Width - 1
  BY DEF Widths, Ticks
<1>2. CASE b =< a
  BY <1>1, <1>2 DEF Minus, Ticks
<1>3. CASE a < b
  <2>1. a - b = (a - b + Width) + (-1) * Width /\ a - b + Width \in 0..Width - 1
    BY <1>1, <1>3
  <2>2. (a - b) % Width = a - b + Width
    BY <1>1, <2>1
  <2> QED BY <1>1, <1>3, <2>1, <2>2 DEF Minus, Ticks
<1> QED BY <1>1, <1>2, <1>3

\* A sum of a tick and a time.
LEMMA PlusLemma ==
    ASSUME Widths, NEW a \in Ticks, NEW n \in Ticks
    PROVE  (a + n) % Width = (IF a + n < Width THEN a + n ELSE a + n - Width)
           /\ (a + n) % Width \in Ticks
<1>1. Width \in Nat \ {0} /\ a \in 0..Width - 1 /\ n \in 0..Width - 1
  BY DEF Widths, Ticks
<1>2. CASE a + n < Width
  BY <1>1, <1>2 DEF Ticks
<1>3. CASE a + n >= Width
  <2>1. a + n = (a + n - Width) + 1 * Width /\ a + n - Width \in 0..Width - 1
    BY <1>1, <1>3
  <2>2. (a + n) % Width = a + n - Width
    BY <1>1, <2>1
  <2> QED BY <1>1, <1>3, <2>1, <2>2 DEF Ticks
<1> QED BY <1>1, <1>2, <1>3

\* An offset, in the terms of the arithmetic: one of two values.
LEMMA OffsetLemma ==
    ASSUME Widths, NEW k \in Ticks, NEW d \in [Timers -> Ticks]
    PROVE  /\ Offset(k, d) \in [Timers -> Int]
           /\ \A t \in Timers :
                  /\ Offset(k, d)[t] =< Longest /\ Offset(k, d)[t] > Longest - Width
                  /\ d[t] - k - Offset(k, d)[t] \in {-Width, 0, Width}
<1>1. \A t \in Timers : d[t] \in Ticks
  OBVIOUS
<1>2. \A t \in Timers : Minus(d[t], k) \in Ticks /\ Minus(d[t], k) = (IF k =< d[t] THEN d[t] - k ELSE d[t] - k + Width)
  BY <1>1, MinusLemma
<1>3. Width \in Nat \ {0} /\ Longest \in Nat /\ Longest < Width
  BY DEF Widths
<1>4. \A t \in Timers : Offset(k, d)[t] = IF Minus(d[t], k) =< Longest THEN Minus(d[t], k)
                                          ELSE Minus(d[t], k) - Width
  BY DEF Offset
<1>5. ASSUME NEW t \in Timers
      PROVE  /\ Offset(k, d)[t] \in Int /\ Offset(k, d)[t] =< Longest
             /\ Offset(k, d)[t] > Longest - Width
             /\ d[t] - k - Offset(k, d)[t] \in {-Width, 0, Width}
  <2> DEFINE m == Minus(d[t], k)
             o == Offset(k, d)[t]
  <2>1. /\ d[t] \in 0..Width - 1 /\ k \in 0..Width - 1 /\ m \in 0..Width - 1
        /\ m = (IF k =< d[t] THEN d[t] - k ELSE d[t] - k + Width)
        /\ o = (IF m =< Longest THEN m ELSE m - Width)
    BY <1>2, <1>4 DEF Ticks
  <2> HIDE DEF m, o
  <2>2. o \in Int /\ o =< Longest /\ o > Longest - Width /\ d[t] - k - o \in {-Width, 0, Width}
    BY <1>3, <2>1
  <2> QED BY <2>2 DEF o
<1>6. Offset(k, d) = [t \in Timers |-> Offset(k, d)[t]]
  BY DEF Offset
<1> QED BY <1>5, <1>6

\* The comparisons of the code, on offsets that are near the tick.
LEMMA CompareLemma ==
    ASSUME Widths, NEW k \in Ticks, NEW d \in [Timers -> Ticks], NEW t \in Timers,
           NEW u \in Timers,
           Near(Offset(k, d)[t]), Near(Offset(k, d)[u])
    PROVE  /\ Minus(d[u], d[t]) \in 1..Half - 1 <=> Offset(k, d)[t] < Offset(k, d)[u]
           /\ Minus(d[u], d[t]) < Half <=> Offset(k, d)[t] =< Offset(k, d)[u]
           /\ d[u] = d[t] <=> Offset(k, d)[t] = Offset(k, d)[u]
<1> DEFINE x == Offset(k, d)[t]
           y == Offset(k, d)[u]
           a == d[t]
           b == d[u]
           m == Minus(b, a)
<1>1. /\ Width \in Nat \ {0} /\ Half \in Nat /\ 2 * Half < Width /\ Longest \in Nat
      /\ MaxStall \in Nat /\ Longest + MaxStall + 1 < Half /\ k \in 0..Width - 1
  BY DEF Widths, Ticks
<1>2. /\ x \in -(MaxStall + 1)..Longest /\ y \in -(MaxStall + 1)..Longest
      /\ a - k - x \in {-Width, 0, Width} /\ b - k - y \in {-Width, 0, Width}
  BY OffsetLemma DEF Near
<1>3. /\ a \in 0..Width - 1 /\ b \in 0..Width - 1 /\ m \in 0..Width - 1
      /\ m = (IF a =< b THEN b - a ELSE b - a + Width)
  <2>1. d[t] \in Ticks /\ d[u] \in Ticks
    OBVIOUS
  <2> QED BY <2>1, MinusLemma DEF Ticks
<1> HIDE DEF x, y, a, b, m
<1>4. /\ m \in 1..Half - 1 <=> x < y
      /\ m < Half <=> x =< y
      /\ b = a <=> x = y
  <2>1. y - x \in -(Longest + MaxStall + 1)..Longest + MaxStall + 1
    BY <1>1, <1>2
  <2>2. (b - a) - (y - x) \in {-2 * Width, -Width, 0, Width, 2 * Width}
    BY <1>1, <1>2, <1>3
  <2>3. m - (y - x) \in {0, Width}
    BY <1>1, <1>3, <2>1, <2>2
  <2>4. CASE x < y
    <3>1. m = y - x
      BY <1>1, <1>2, <1>3, <2>1, <2>3, <2>4
    <3> QED BY <1>1, <1>2, <1>3, <2>1, <2>4, <3>1
  <2>5. CASE x = y
    <3>1. m = 0
      BY <1>1, <1>2, <1>3, <2>3, <2>5
    <3> QED BY <1>1, <1>2, <1>3, <2>5, <3>1
  <2>6. CASE x > y
    <3>1. m = y - x + Width
      BY <1>1, <1>2, <1>3, <2>1, <2>3, <2>6
    <3> QED BY <1>1, <1>2, <1>3, <2>1, <2>6, <3>1
  <2> QED BY <1>2, <2>4, <2>5, <2>6
<1> QED BY <1>4 DEF x, y, a, b, m

\* "Due" means that the deadline is not ahead.
LEMMA DueLemma ==
    ASSUME Widths, NEW k \in Ticks, NEW d \in [Timers -> Ticks], NEW t \in Timers,
           Near(Offset(k, d)[t])
    PROVE  Minus(k, d[t]) < Half <=> Offset(k, d)[t] =< 0
<1> DEFINE x == Offset(k, d)[t]
           a == d[t]
           m == Minus(k, a)
<1>1. /\ Width \in Nat \ {0} /\ Half \in Nat /\ 2 * Half < Width /\ Longest \in Nat
      /\ MaxStall \in Nat /\ Longest + MaxStall + 1 < Half /\ k \in 0..Width - 1
  BY DEF Widths, Ticks
<1>2. x \in -(MaxStall + 1)..Longest /\ a - k - x \in {-Width, 0, Width}
  BY OffsetLemma DEF Near
<1>3. /\ a \in 0..Width - 1 /\ m \in 0..Width - 1
      /\ m = (IF a =< k THEN k - a ELSE k - a + Width)
  <2>1. d[t] \in Ticks
    OBVIOUS
  <2> QED BY <2>1, MinusLemma DEF Ticks
<1> HIDE DEF x, a, m
<1>4. m < Half <=> x =< 0
  BY <1>1, <1>2, <1>3
<1> QED BY <1>4 DEF x, a, m

\* A new deadline is its time ahead, and the others stay where they are.
Restarted(k, d, t, n) == [d EXCEPT ![t] = (k + n) % Width]

LEMMA StartOffset ==
    ASSUME Widths, NEW k \in Ticks, NEW d \in [Timers -> Ticks], NEW t \in Timers,
           NEW n \in 0..Longest, NEW e, e = Restarted(k, d, t, n)
    PROVE  /\ e \in [Timers -> Ticks] /\ Offset(k, e)[t] = n
           /\ \A u \in Timers \ {t} : Offset(k, e)[u] = Offset(k, d)[u]
<1>1. n \in Ticks /\ Longest < Width /\ Width \in Nat \ {0} /\ Longest \in Nat
  BY DEF Widths, Ticks
<1>2. (k + n) % Width = (IF k + n < Width THEN k + n ELSE k + n - Width) /\ (k + n) % Width \in Ticks
  BY <1>1, PlusLemma
<1>3. e \in [Timers -> Ticks] /\ e[t] = (k + n) % Width /\ \A u \in Timers \ {t} : e[u] = d[u]
  BY <1>2 DEF Restarted
<1>4. Minus(e[t], k) = n
  <2>1. e[t] \in Ticks
    BY <1>3
  <2>2. Minus(e[t], k) = IF k =< e[t] THEN e[t] - k ELSE e[t] - k + Width
    BY <2>1, MinusLemma
  <2>3. /\ e[t] = IF k + n < Width THEN k + n ELSE k + n - Width
        /\ k \in 0..Width - 1 /\ n \in 0..Width - 1
    BY <1>1, <1>2, <1>3 DEF Ticks
  <2> QED BY <1>1, <2>2, <2>3
<1>5. Offset(k, e)[t] = n
  BY <1>1, <1>4 DEF Offset
<1>6. \A u \in Timers \ {t} : Offset(k, e)[u] = Offset(k, d)[u]
  BY <1>3 DEF Offset
<1> QED BY <1>3, <1>5, <1>6

\* One tick later, everything is one tick less ahead.
LEMMA TickOffset ==
    ASSUME Widths, NEW k \in Ticks, NEW d \in [Timers -> Ticks], NEW t \in Timers,
           Offset(k, d)[t] >= -MaxStall
    PROVE  /\ (k + 1) % Width \in Ticks
           /\ Offset((k + 1) % Width, d)[t] = Offset(k, d)[t] - 1
<1> DEFINE x == Offset(k, d)[t]
           l == (k + 1) % Width
           y == Offset(l, d)[t]
           a == d[t]
<1>1. /\ Width \in Nat \ {0} /\ Half \in Nat /\ 2 * Half < Width /\ Longest \in Nat
      /\ MaxStall \in Nat /\ Longest + MaxStall + 1 < Half /\ k \in 0..Width - 1
  BY DEF Widths, Ticks
<1>2. l = (IF k + 1 < Width THEN k + 1 ELSE k + 1 - Width) /\ l \in Ticks
  <2>1. 1 \in Ticks
    BY <1>1 DEF Ticks
  <2> QED BY <2>1, PlusLemma
<1> HIDE DEF l
<1>3. /\ x \in Int /\ x >= -MaxStall /\ x =< Longest /\ a - k - x \in {-Width, 0, Width}
  BY OffsetLemma
<1>4. /\ y \in Int /\ y > Longest - Width /\ y =< Longest /\ a - l - y \in {-Width, 0, Width}
  BY <1>2, OffsetLemma
<1> HIDE DEF x, y, a
<1>5. a \in 0..Width - 1
  BY DEF a, Ticks
<1>6. y - (x - 1) \in {-2 * Width, -Width, 0, Width, 2 * Width, 3 * Width, -3 * Width}
  BY <1>1, <1>2, <1>3, <1>4, <1>5
<1>7. y = x - 1
  BY <1>1, <1>3, <1>4, <1>6
<1> QED BY <1>2, <1>7 DEF x, y, l

\* Nobody behind t has its deadline.
Behind(r, t, d) == \A i, j \in DOMAIN r : i < j /\ r[i] = t => d[r[j]] # d[t]

\* The insertion loop of rt_timer_start keeps the order and puts t behind the
\* timers of its deadline.
LEMMA InsertedLemma ==
    ASSUME Widths, NEW k \in Ticks, NEW d \in [Timers -> Ticks], NEW l, NEW t \in Timers,
           InOrder(l, Offset(k, d)), t \notin Range(l),
           \A u \in Range(l) \union {t} : Near(Offset(k, d)[u])
    PROVE  /\ InOrder(Inserted(l, d, t), Offset(k, d))
           /\ Range(Inserted(l, d, t)) = Range(l) \union {t}
           /\ Behind(Inserted(l, d, t), t, d)
<1> DEFINE o == Offset(k, d)
           later == {i \in DOMAIN l : Minus(d[l[i]], d[t]) \in 1..Half - 1}
           p == IF later = {} THEN Len(l) + 1 ELSE Min(later)
           r == Inserted(l, d, t)
<1>1. /\ l \in Seq(Timers) /\ DOMAIN l = 1..Len(l) /\ Len(l) \in Nat
      /\ \A i \in 1..Len(l) : l[i] \in Timers /\ l[i] \in Range(l)
  BY DEF InOrder, Range
<1>2. r = InsertAt(l, p, t)
  BY DEF Inserted
<1>3. o \in [Timers -> Int]
  BY OffsetLemma
<1>4. \A i \in 1..Len(l) : i \in later <=> o[t] < o[l[i]]
  <2> TAKE i \in 1..Len(l)
  <2>1. l[i] \in Timers /\ Near(Offset(k, d)[l[i]]) /\ Near(Offset(k, d)[t])
    BY <1>1
  <2>2. Minus(d[l[i]], d[t]) \in 1..Half - 1 <=> o[t] < o[l[i]]
    BY <2>1, CompareLemma
  <2> QED BY <1>1, <2>2
<1>5. later \in SUBSET (1..Len(l))
  BY <1>1
<1>6. InOrder(l, o)
  OBVIOUS
<1>7. p = IF later = {} THEN Len(l) + 1 ELSE Min(later)
  OBVIOUS
<1> HIDE DEF o, later, p, r
<1>8. /\ p \in 1..Len(l) + 1
      /\ p \in later \/ p = Len(l) + 1
      /\ \A i \in later : p =< i
  <2>1. CASE later = {}
    BY <1>1, <1>7, <2>1
  <2>2. CASE later # {}
    <3>1. later \in SUBSET Nat
      BY <1>1, <1>5
    <3>2. p \in later /\ \A i \in later : p =< i
      BY <1>7, <2>2, <3>1, FirstLemma
    <3> QED BY <1>1, <1>5, <3>2
  <2> QED BY <2>1, <2>2
<1>9. Place(l, p, t, o)
  <2>1. ASSUME NEW i \in 1..Len(l), i < p PROVE o[l[i]] =< o[t]
    <3>1. i \notin later
      BY <1>5, <1>8, <2>1
    <3>2. ~(o[t] < o[l[i]]) /\ o[t] \in Int /\ o[l[i]] \in Int
      BY <1>1, <1>3, <1>4, <3>1
    <3> QED BY <3>2
  <2>2. ASSUME NEW i \in 1..Len(l), i >= p PROVE o[t] < o[l[i]]
    <3>1. p \in later /\ p \in 1..Len(l) /\ o[t] < o[l[p]]
      BY <1>1, <1>4, <1>5, <1>8, <2>2
    <3>2. o[l[p]] =< o[l[i]]
      <4>1. CASE i = p
        BY <1>1, <1>3, <4>1
      <4>2. CASE p < i
        BY <1>1, <1>6, <3>1, <4>2 DEF InOrder
      <4> QED BY <1>1, <1>8, <2>2, <4>1, <4>2
    <3>3. o[t] \in Int /\ o[l[p]] \in Int /\ o[l[i]] \in Int
      BY <1>1, <1>3, <3>1
    <3> QED BY <3>1, <3>2, <3>3
  <2> QED BY <1>8, <2>1, <2>2 DEF Place
<1>10. Longer(r, l, p, t, Timers)
  BY <1>1, <1>2, <1>8, InsertAtLonger
<1>11. InOrder(r, o) /\ Range(r) = Range(l) \union {t}
  BY <1>3, <1>6, <1>9, <1>10, LongerLine
<1>12. Behind(r, t, d)
  <2> SUFFICES ASSUME NEW i \in DOMAIN r, NEW j \in DOMAIN r, i < j, r[i] = t
               PROVE  d[r[j]] # d[t]
    BY DEF Behind
  <2>1. /\ r \in Seq(Timers) /\ DOMAIN r = 1..Len(l) + 1 /\ p \in 1..Len(l) + 1
        /\ \A x \in 1..Len(l) + 1 : r[x] = IF x < p THEN l[x] ELSE IF x = p THEN t ELSE l[x-1]
    BY <1>10 DEF Longer
  <2>2. r[p] = t /\ p \in DOMAIN r
    BY <2>1
  <2>3. i = p
    BY <1>11, <2>2 DEF InOrder, IsInjective
  <2>4. r[j] = l[j - 1] /\ j - 1 \in 1..Len(l) /\ j - 1 >= p
    BY <1>1, <2>1, <2>3
  <2>5. l[j - 1] \in Timers /\ o[t] < o[l[j - 1]] /\ o[t] \in Int /\ l[j - 1] \in Range(l)
    BY <1>1, <1>3, <1>9, <2>4 DEF Place
  <2>6. d[l[j - 1]] = d[t] <=> o[t] = o[l[j - 1]]
    BY <2>5, CompareLemma DEF o
  <2> QED BY <2>4, <2>5, <2>6
<1> QED BY <1>11, <1>12 DEF o, r

\* What is in order stays in order when nobody overtakes.
LEMMA LineKept ==
    ASSUME NEW l, NEW f, NEW g, InOrder(l, f),
           \A t, u \in Range(l) : f[t] =< f[u] => g[t] =< g[u]
    PROVE  InOrder(l, g)
<1>1. \A i \in DOMAIN l : l[i] \in Range(l)
  BY DEF Range
<1> QED BY <1>1 DEF InOrder

-----------------------------------------------------------------------------
(* The invariant                                                            *)

Off == Offset(tick, deadline)

\* No deadline is past by more than the bound on rt_timer_start and, in the
\* handler, the tick it counts.
NotLate ==
    \A t \in Timers :
        /\ pc[t] = "insert" => Off[t] >= -MaxStall
        /\ t \in Range(list) => Off[t] >= -MaxStall - (IF isr = "none" THEN 0 ELSE 1)

\* Who is about to link, unlink or delete a timer knows it off the list.
LinkedWhen == \A t \in Range(list) : pc[t] \in {"idle", "unlink"}

\* The timer whose function is called is off the list until it returns.
FiringUnlinked ==
    /\ isr \in {"none", "check"} => firing = NoTimer
    /\ isr \in {"callback", "finish"} =>
          /\ firing \in Timers /\ firing \notin Range(list)
          /\ pc[firing] \in {"idle", "unlink"}

Inv == /\ TypeOK /\ InOrder(list, Off) /\ NotLate /\ LinkedWhen
       /\ FiringUnlinked /\ FlagTellsLinked

\* The numbers of the invariant.
LEMMA OffFacts ==
    ASSUME Widths, Inv
    PROVE  /\ tick \in Ticks /\ deadline \in [Timers -> Ticks] /\ Off \in [Timers -> Int]
           /\ \A t \in Timers : Off[t] =< Longest
           /\ \A t \in Timers : t \in Range(list) \/ pc[t] = "insert" => Near(Off[t])
<1>1. tick \in Ticks /\ deadline \in [Timers -> Ticks]
  BY DEF Inv, TypeOK, Ticks
<1>2. Off \in [Timers -> Int] /\ \A t \in Timers : Off[t] =< Longest
  BY <1>1, OffsetLemma DEF Off
<1>3. MaxStall \in Nat /\ Longest \in Nat
  BY DEF Widths
<1>4. ASSUME NEW t \in Timers, t \in Range(list) \/ pc[t] = "insert" PROVE Near(Off[t])
  <2>1. Off[t] >= -MaxStall - 1
    BY <1>2, <1>3, <1>4 DEF Inv, NotLate
  <2> QED BY <1>2, <1>3, <2>1 DEF Near
<1> QED BY <1>1, <1>2, <1>4

\* Steps that leave the tick, the deadlines and the list alone.
LEMMA Untouched ==
    ASSUME Inv, UNCHANGED <<tick, deadline, list>>
    PROVE  Off' = Off /\ InOrder(list', Off') /\ Range(list') = Range(list)
BY DEF Inv, Off

\* Steps that take a timer off the list.
LEMMA Unlinks ==
    ASSUME Inv, UNCHANGED <<tick, deadline>>, NEW t, list' = Removed(list, t)
    PROVE  Off' = Off /\ InOrder(list', Off') /\ Range(list') = Range(list) \ {t}
<1>1. Off' = Off
  BY DEF Off
<1>2. InOrder(list, Off)
  BY DEF Inv
<1>3. InOrder(Removed(list, t), Off) /\ Range(Removed(list, t)) = Range(list) \ {t}
  BY <1>2, RemovedLemma
<1> QED BY <1>1, <1>3

\* rt_timer_start of timer t, when it is linked
LEMMA Links ==
    ASSUME Widths, Inv, UNCHANGED tick, NEW t \in Timers,
           \/ deadline' = deadline /\ pc[t] = "insert"
           \/ deadline' = [deadline EXCEPT ![t] = (tick + init[t]) % Width],
           list' = Inserted(Removed(list, t), deadline', t)
    PROVE  /\ deadline' \in [Timers -> Ticks] /\ InOrder(list', Off')
           /\ Range(list') = Range(list) \union {t} /\ Behind(list', t, deadline')
           /\ \A u \in Timers \ {t} : Off'[u] = Off[u]
           /\ Off'[t] = IF deadline' = deadline /\ pc[t] = "insert" THEN Off[t] ELSE init[t]
<1>1. /\ tick \in Ticks /\ deadline \in [Timers -> Ticks] /\ Off \in [Timers -> Int]
      /\ \A u \in Timers : u \in Range(list) \/ pc[u] = "insert" => Near(Off[u])
  BY OffFacts
<1>2. init[t] \in 0..Longest /\ Longest \in Nat /\ MaxStall \in Nat
  BY DEF Inv, TypeOK, Widths
<1>3. Off = Offset(tick, deadline) /\ Off' = Offset(tick, deadline')
  BY DEF Off
<1>4. /\ deadline' \in [Timers -> Ticks]
      /\ \A u \in Timers \ {t} : Off'[u] = Off[u]
      /\ Off'[t] = IF deadline' = deadline /\ pc[t] = "insert" THEN Off[t] ELSE init[t]
      /\ Near(Off'[t])
  <2>1. CASE deadline' = deadline /\ pc[t] = "insert"
    <3>1. Off' = Off
      BY <1>3, <2>1
    <3> QED BY <1>1, <2>1, <3>1
  <2>2. CASE /\ deadline' = [deadline EXCEPT ![t] = (tick + init[t]) % Width]
             /\ ~(deadline' = deadline /\ pc[t] = "insert")
    <3>1. PICK n \in 0..Longest : n = init[t]
      BY <1>2
    <3>2. PICK e : e = deadline'
      OBVIOUS
    <3>3. e = Restarted(tick, deadline, t, n)
      BY <2>2, <3>1, <3>2 DEF Restarted
    <3>4. /\ e \in [Timers -> Ticks] /\ Offset(tick, e)[t] = n
          /\ \A u \in Timers \ {t} : Offset(tick, e)[u] = Offset(tick, deadline)[u]
      <4>1. tick \in Ticks /\ deadline \in [Timers -> Ticks] /\ n \in 0..Longest
        BY <1>1
      <4> QED BY <3>3, <4>1, StartOffset
    <3>5. Near(n)
      BY <1>2 DEF Near
    <3> QED BY <1>3, <2>2, <3>1, <3>2, <3>4, <3>5
  <2> QED BY <2>1, <2>2
<1>5. InOrder(Removed(list, t), Off) /\ Range(Removed(list, t)) = Range(list) \ {t}
  BY RemovedLemma DEF Inv
<1>6. Range(list) \subseteq Timers
  BY DEF Inv, InOrder, Range
<1>7. PICK l : l = Removed(list, t)
  OBVIOUS
<1>8. PICK e : e = deadline'
  OBVIOUS
<1>9. InOrder(l, Offset(tick, e))
  <2>1. \A u \in Range(l) : Offset(tick, e)[u] = Off[u]
    BY <1>3, <1>4, <1>5, <1>6, <1>7, <1>8
  <2> QED BY <1>5, <1>7, <2>1, LineKept
<1>10. /\ e \in [Timers -> Ticks] /\ t \notin Range(l)
       /\ \A u \in Range(l) \union {t} : Near(Offset(tick, e)[u])
  BY <1>1, <1>3, <1>4, <1>5, <1>6, <1>7, <1>8
<1>11. /\ InOrder(Inserted(l, e, t), Offset(tick, e))
       /\ Range(Inserted(l, e, t)) = Range(l) \union {t}
       /\ Behind(Inserted(l, e, t), t, e)
  BY <1>1, <1>9, <1>10, InsertedLemma
<1>12. list' = Inserted(l, e, t)
  BY <1>7, <1>8
<1> QED BY <1>3, <1>4, <1>5, <1>7, <1>8, <1>11, <1>12

\* A new deadline of a timer that is off the list.
LEMMA NewDeadline ==
    ASSUME Inv, UNCHANGED <<tick, list>>, NEW t \in Timers, t \notin Range(list),
           NEW n, deadline' = [deadline EXCEPT ![t] = n]
    PROVE  InOrder(list', Off') /\ \A u \in Timers \ {t} : Off'[u] = Off[u]
<1>1. deadline \in [Timers -> 0..Width - 1] /\ Range(list) \subseteq Timers /\ InOrder(list, Off)
  BY DEF Inv, TypeOK, InOrder, Range
<1>2. \A u \in Timers \ {t} : deadline'[u] = deadline[u]
  BY <1>1
<1>3. \A u \in Timers \ {t} : Off'[u] = Off[u]
  BY <1>2 DEF Off, Offset
<1>4. InOrder(list, Off')
  <2>1. \A u \in Range(list) : Off'[u] = Off[u]
    BY <1>1, <1>3
  <2>2. PICK g : g = Off'
    OBVIOUS
  <2>3. InOrder(list, g)
    BY <1>1, <2>1, <2>2, LineKept
  <2> QED BY <2>2, <2>3
<1> QED BY <1>3, <1>4

-----------------------------------------------------------------------------
(* The invariant is kept                                                    *)

LEMMA InitInv == TimerAssumption /\ Init => Inv
<1> SUFFICES ASSUME TimerAssumption, Init PROVE Inv
  OBVIOUS
<1>1. Widths
  BY SizesLemma
<1>2. list = <<>> /\ list \in Seq(Timers) /\ DOMAIN list = {} /\ Range(list) = {}
  BY DEF Init, Range
<1>3. InOrder(list, Off)
  BY <1>2 DEF InOrder, IsInjective
<1>4. init \in [Timers -> 0..Longest] /\ Width \in Nat \ {0}
  <2>1. \A t \in Timers : Min(Times[t]) \in 0..Longest
    BY <1>1 DEF Widths
  <2> QED BY <1>1, <2>1 DEF Init, Widths
<1>5. TypeOK
  BY <1>3, <1>4 DEF TypeOK, Init, InOrder
<1>6. NotLate /\ LinkedWhen /\ FiringUnlinked /\ FlagTellsLinked
  BY <1>2 DEF Init, NotLate, LinkedWhen, FiringUnlinked, FlagTellsLinked
<1> QED BY <1>3, <1>5, <1>6 DEF Inv

\* The parts of the invariant that speak of list and deadlines only through
\* Range(list) and Off.
Parts == NotLate /\ LinkedWhen /\ FiringUnlinked /\ FlagTellsLinked

\* Calls from threads
LEMMA ThreadStep ==
    ASSUME Widths, Inv, NEW t \in Timers, NEW n \in Times[t],
           \/ SetTime(t, n) \/ Create(t, n) \/ Start(t) \/ StartCompute(t) \/ StartInsert(t)
           \/ Stop(t) \/ StopUnlink(t) \/ StopClear(t) \/ Detach(t)
    PROVE  Inv'
<1>1. /\ n \in 0..Longest /\ Longest \in Nat /\ MaxStall \in Nat /\ Width \in Nat \ {0}
      /\ Longest + MaxStall + 1 < Width
  BY DEF Widths
<1>2. /\ tick \in Ticks /\ deadline \in [Timers -> Ticks] /\ Off \in [Timers -> Int]
      /\ init[t] \in 0..Longest
  BY OffFacts DEF Inv, TypeOK
<1> USE DEF At, Goto
<1>3. CASE SetTime(t, n)
  <2>1. Off' = Off /\ InOrder(list', Off') /\ Range(list') = Range(list)
    BY <1>3, Untouched DEF SetTime
  <2>2. TypeOK'
    BY <1>1, <1>3, <2>1 DEF SetTime, Inv, TypeOK, InOrder
  <2>3. Parts'
    BY <1>3, <2>1 DEF SetTime, Inv, TypeOK, Parts, NotLate, LinkedWhen, FiringUnlinked, FlagTellsLinked
  <2> QED BY <2>1, <2>2, <2>3 DEF Inv, Parts
<1>4. CASE Create(t, n)
  <2>1. t \notin Range(list) /\ Range(list') = Range(list)
    BY <1>4 DEF Create, Inv, LinkedWhen
  <2>2. InOrder(list', Off') /\ \A u \in Timers \ {t} : Off'[u] = Off[u]
    BY <1>4, <2>1, NewDeadline DEF Create
  <2>3. TypeOK'
    BY <1>1, <1>4, <2>2 DEF Create, Inv, TypeOK, InOrder
  <2>4. Parts'
    BY <1>4, <2>1, <2>2 DEF Create, Inv, TypeOK, Parts, NotLate, LinkedWhen, FiringUnlinked, FlagTellsLinked
  <2> QED BY <2>2, <2>3, <2>4 DEF Inv, Parts
<1>5. CASE Start(t)
  <2>1. Off' = Off /\ InOrder(list', Off') /\ Range(list') = Range(list) \ {t}
    BY <1>5, Unlinks DEF Start
  <2>2. TypeOK'
    BY <1>5, <2>1 DEF Start, Inv, TypeOK, InOrder
  <2>3. Parts'
    BY <1>5, <2>1 DEF Start, Inv, TypeOK, Parts, NotLate, LinkedWhen, FiringUnlinked, FlagTellsLinked
  <2> QED BY <2>1, <2>2, <2>3 DEF Inv, Parts
<1>6. CASE StartCompute(t)
  <2>1. t \notin Range(list) /\ Range(list') = Range(list)
    BY <1>6 DEF StartCompute, Inv, LinkedWhen
  <2>2. InOrder(list', Off') /\ \A u \in Timers \ {t} : Off'[u] = Off[u]
    BY <1>6, <2>1, NewDeadline DEF StartCompute
  <2>3. Off'[t] = init[t] /\ deadline' \in [Timers -> Ticks]
    <3>1. PICK e : e = deadline'
      OBVIOUS
    <3>2. PICK m \in 0..Longest : m = init[t]
      BY <1>2
    <3>3. e = Restarted(tick, deadline, t, m)
      BY <1>6, <3>1, <3>2 DEF StartCompute, Restarted
    <3>4. e \in [Timers -> Ticks] /\ Offset(tick, e)[t] = m
      BY <1>2, <3>3, StartOffset
    <3> QED BY <1>6, <3>1, <3>2, <3>4 DEF StartCompute, Off
  <2>4. TypeOK'
    BY <1>6, <2>2, <2>3 DEF StartCompute, Inv, TypeOK, InOrder, Ticks
  <2>5. Parts'
    BY <1>1, <1>2, <1>6, <2>1, <2>2, <2>3
       DEF StartCompute, Inv, TypeOK, Parts, NotLate, LinkedWhen, FiringUnlinked, FlagTellsLinked
  <2> QED BY <2>2, <2>4, <2>5 DEF Inv, Parts
<1>7. CASE StartInsert(t)
  <2>1. t \notin Range(list) /\ pc[t] = "insert"
    BY <1>7 DEF StartInsert, Inv, LinkedWhen
  <2>2. deadline' = deadline /\ tick' = tick /\ list' = Inserted(Removed(list, t), deadline', t)
    BY <1>7, <2>1 DEF StartInsert, Removed
  <2>3. InOrder(list', Off') /\ Range(list') = Range(list) \union {t}
    BY <2>1, <2>2, Links
  <2>4. Off' = Off
    BY <2>2 DEF Off
  <2>5. TypeOK'
    BY <1>7, <2>3 DEF StartInsert, Inv, TypeOK, InOrder
  <2>6. Parts'
    BY <1>1, <1>2, <1>7, <2>1, <2>3, <2>4
       DEF StartInsert, Inv, TypeOK, Parts, NotLate, LinkedWhen, FiringUnlinked, FlagTellsLinked
  <2> QED BY <2>3, <2>5, <2>6 DEF Inv, Parts
<1>8. CASE Stop(t)
  <2>1. Off' = Off /\ InOrder(list', Off') /\ Range(list') = Range(list)
    BY <1>8, Untouched DEF Stop
  <2>2. TypeOK'
    BY <1>8, <2>1 DEF Stop, Inv, TypeOK, InOrder
  <2>3. Parts'
    BY <1>8, <2>1 DEF Stop, Inv, TypeOK, Parts, NotLate, LinkedWhen, FiringUnlinked, FlagTellsLinked
  <2> QED BY <2>1, <2>2, <2>3 DEF Inv, Parts
<1>9. CASE StopUnlink(t)
  <2>1. Off' = Off /\ InOrder(list', Off') /\ Range(list') = Range(list) \ {t}
    BY <1>9, Unlinks DEF StopUnlink
  <2>2. TypeOK'
    BY <1>9, <2>1 DEF StopUnlink, Inv, TypeOK, InOrder
  <2>3. Parts'
    BY <1>9, <2>1 DEF StopUnlink, Inv, TypeOK, Parts, NotLate, LinkedWhen, FiringUnlinked, FlagTellsLinked
  <2> QED BY <2>1, <2>2, <2>3 DEF Inv, Parts
<1>10. CASE StopClear(t)
  <2>1. Off' = Off /\ InOrder(list', Off') /\ Range(list') = Range(list)
    BY <1>10, Untouched DEF StopClear
  <2>2. TypeOK'
    BY <1>10, <2>1 DEF StopClear, Inv, TypeOK, InOrder
  <2>3. Parts'
    BY <1>10, <2>1 DEF StopClear, Inv, TypeOK, Parts, NotLate, LinkedWhen, FiringUnlinked, FlagTellsLinked
  <2> QED BY <2>1, <2>2, <2>3 DEF Inv, Parts
<1>11. CASE Detach(t)
  <2>1. Off' = Off /\ InOrder(list', Off') /\ Range(list') = Range(list) \ {t}
    BY <1>11, Unlinks DEF Detach
  <2>2. TypeOK'
    BY <1>11, <2>1 DEF Detach, Inv, TypeOK, InOrder
  <2>3. Parts'
    BY <1>11, <2>1 DEF Detach, Inv, TypeOK, Parts, NotLate, LinkedWhen, FiringUnlinked, FlagTellsLinked
  <2> QED BY <2>1, <2>2, <2>3 DEF Inv, Parts
<1> QED BY <1>3, <1>4, <1>5, <1>6, <1>7, <1>8, <1>9, <1>10, <1>11

\* rt_timer_start and rt_timer_stop in one go
LEMMA StartNowFacts ==
    ASSUME Widths, Inv, UNCHANGED tick, NEW t \in Timers, StartNow(t)
    PROVE  /\ deadline' \in [Timers -> Ticks] /\ InOrder(list', Off')
           /\ Range(list') = Range(list) \union {t} /\ Behind(list', t, deadline')
           /\ \A u \in Timers \ {t} : Off'[u] = Off[u]
           /\ pc[t] # "insert" => Off'[t] = init[t]
           /\ Off'[t] \in Int /\ Off'[t] >= -MaxStall /\ active' = [active EXCEPT ![t] = TRUE]
<1>1. /\ deadline' = [deadline EXCEPT ![t] = (tick + init[t]) % Width]
      /\ list' = Inserted(Removed(list, t), deadline', t)
      /\ active' = [active EXCEPT ![t] = TRUE]
  BY DEF StartNow
<1>2. /\ deadline' \in [Timers -> Ticks] /\ InOrder(list', Off')
      /\ Range(list') = Range(list) \union {t} /\ Behind(list', t, deadline')
      /\ \A u \in Timers \ {t} : Off'[u] = Off[u]
      /\ Off'[t] = IF deadline' = deadline /\ pc[t] = "insert" THEN Off[t] ELSE init[t]
  BY <1>1, Links
<1>3. Off \in [Timers -> Int] /\ (pc[t] = "insert" => Off[t] >= -MaxStall)
  BY OffFacts DEF Inv, NotLate
<1>4. init[t] \in Nat /\ MaxStall \in Nat
  BY DEF Inv, TypeOK, Widths
<1>5. Off'[t] \in Int /\ Off'[t] >= -MaxStall /\ (pc[t] # "insert" => Off'[t] = init[t])
  <2>1. Off[t] \in Int
    BY <1>3
  <2>2. CASE Off'[t] = Off[t] /\ pc[t] = "insert"
    BY <1>3, <2>1, <2>2
  <2>3. CASE Off'[t] = init[t]
    BY <1>4, <2>3
  <2> QED BY <1>2, <2>2, <2>3
<1> QED BY <1>1, <1>2, <1>5

LEMMA StopNowFacts ==
    ASSUME Widths, Inv, UNCHANGED tick, NEW t \in Timers, StopNow(t), pc[t] = "idle"
    PROVE  /\ Off' = Off /\ UNCHANGED deadline /\ InOrder(list', Off')
           /\ Range(list') = Range(list) \ {t}
           /\ active' = [active EXCEPT ![t] = FALSE]
<1>1. UNCHANGED deadline /\ active' = [active EXCEPT ![t] = FALSE]
  BY DEF StopNow
<1>2. CASE active[t]
  <2>1. list' = Removed(list, t)
    BY <1>2 DEF StopNow
  <2> QED BY <1>1, <2>1, Unlinks
<1>3. CASE ~active[t]
  <2>1. list' = list
    BY <1>3 DEF StopNow
  <2>2. Off' = Off /\ InOrder(list', Off') /\ Range(list') = Range(list)
    BY <1>1, <2>1, Untouched
  <2>3. t \notin Range(list)
    <3>1. CASE t # firing
      BY <1>3, <3>1 DEF Inv, FlagTellsLinked
    <3>2. CASE t = firing
      BY <3>2 DEF Widths, Inv, TypeOK, FiringUnlinked
    <3> QED BY <3>1, <3>2
  <2> QED BY <1>1, <2>2, <2>3
<1> QED BY <1>2, <1>3

\* The first timer is due when its deadline is not ahead, and then only.
LEMMA HeadDue ==
    ASSUME Widths, Inv, list # <<>>
    PROVE  /\ Head(list) \in Timers /\ Head(list) \in Range(list)
           /\ Due(Head(list)) <=> Off[Head(list)] =< 0
           /\ \A t \in Range(list) : Off[Head(list)] =< Off[t]
<1>1. /\ tick \in Ticks /\ deadline \in [Timers -> Ticks] /\ Off \in [Timers -> Int]
      /\ \A t \in Timers : t \in Range(list) => Near(Off[t])
  BY OffFacts
<1>2. InOrder(list, Off)
  BY DEF Inv
<1>3. /\ Head(list) \in Range(list) /\ Range(list) \subseteq Timers
      /\ \A t \in Range(list) : Off[Head(list)] =< Off[t]
  BY <1>1, <1>2, TailLemma
<1>4. PICK h \in Timers : h = Head(list)
  BY <1>3
<1>5. Near(Offset(tick, deadline)[h])
  BY <1>1, <1>3, <1>4 DEF Off
<1>6. Minus(tick, deadline[h]) < Half <=> Offset(tick, deadline)[h] =< 0
  BY <1>1, <1>5, DueLemma
<1> QED BY <1>3, <1>4, <1>6 DEF Due, Off

LEMMA HandlerStep ==
    ASSUME Widths, Inv, Tick \/ Fire \/ Callback \/ Finish \/ Return
    PROVE  Inv'
<1>1. Longest \in Nat /\ MaxStall \in Nat /\ Width \in Nat \ {0} /\ NoTimer \notin Timers
  BY DEF Widths
<1>2. /\ tick \in Ticks /\ deadline \in [Timers -> Ticks] /\ Off \in [Timers -> Int]
      /\ Range(list) \subseteq Timers
  BY OffFacts DEF Inv, InOrder, Range
<1>3. CASE Tick
  <2>1. \A t \in Timers : pc[t] = "insert" => Off[t] # -MaxStall
    <3> SUFFICES ASSUME NEW t \in Timers, pc[t] = "insert", Off[t] = -MaxStall PROVE FALSE
      OBVIOUS
    <3>0. Off[t] = -MaxStall
      OBVIOUS
    <3>1. Minus(tick, deadline[t]) = IF deadline[t] =< tick THEN tick - deadline[t]
                                     ELSE tick - deadline[t] + Width
      BY <1>2, MinusLemma
    <3>2. deadline[t] - tick + MaxStall \in {-Width, 0, Width}
      <4>1. deadline[t] - tick - Off[t] \in {-Width, 0, Width}
        BY <1>2, OffsetLemma DEF Off
      <4>2. deadline[t] \in Ticks
        BY <1>2
      <4> QED BY <1>1, <1>2, <3>0, <4>1, <4>2 DEF Ticks
    <3>3. MaxStall < Width /\ deadline[t] \in 0..Width - 1 /\ tick \in 0..Width - 1
      BY <1>1, <1>2 DEF Widths, Ticks
    <3>4. Minus(tick, deadline[t]) = MaxStall
      <4> DEFINE d == deadline[t]
                 m == Minus(tick, d)
      <4>1. /\ d - tick + MaxStall \in {-Width, 0, Width} /\ MaxStall < Width
            /\ d \in 0..Width - 1 /\ tick \in 0..Width - 1
            /\ m = IF d =< tick THEN tick - d ELSE tick - d + Width
        BY <3>1, <3>2, <3>3
      <4> HIDE DEF d, m
      <4>2. m = MaxStall
        BY <1>1, <4>1
      <4> QED BY <4>2 DEF d, m
    <3> QED BY <1>3, <3>4 DEF Tick
  <2>2. \A t \in Timers : Off[t] >= -MaxStall => Off'[t] = Off[t] - 1
    <3> SUFFICES ASSUME NEW t \in Timers, Off[t] >= -MaxStall PROVE Off'[t] = Off[t] - 1
      OBVIOUS
    <3>1. Offset((tick + 1) % Width, deadline)[t] = Offset(tick, deadline)[t] - 1
      BY <1>2, TickOffset DEF Off
    <3> QED BY <1>3, <3>1 DEF Tick, Off
  <2>3. tick' \in Ticks
    <3>1. 1 \in Ticks
      BY DEF Widths, Ticks
    <3> QED BY <1>2, <1>3, <3>1, PlusLemma DEF Tick
  <2>4. Range(list') = Range(list) /\ \A t \in Range(list) : Off'[t] = Off[t] - 1
    BY <1>1, <1>2, <1>3, <2>2 DEF Tick, Inv, NotLate
  <2>5. InOrder(list', Off')
    <3>1. InOrder(list, Off)
      BY DEF Inv
    <3>2. \A t, u \in Range(list) : Off[t] =< Off[u] => Off'[t] =< Off'[u]
      BY <1>2, <2>4
    <3>3. PICK g : g = Off'
      OBVIOUS
    <3>4. InOrder(list, g)
      BY <3>1, <3>2, <3>3, LineKept
    <3> QED BY <1>3, <3>3, <3>4 DEF Tick
  <2>6. TypeOK'
    BY <1>3, <2>3, <2>5 DEF Tick, Inv, TypeOK, InOrder, Ticks
  <2>7. NotLate'
    <3>1. ASSUME NEW t \in Timers, pc[t] = "insert" PROVE Off'[t] >= -MaxStall
      <4>1. Off[t] >= -MaxStall /\ Off[t] # -MaxStall /\ Off[t] \in Int
        BY <1>2, <2>1, <3>1 DEF Inv, NotLate
      <4> QED BY <1>1, <2>2, <4>1
    <3>2. ASSUME NEW t \in Timers, t \in Range(list) PROVE Off'[t] >= -MaxStall - 1
      <4>1. Off[t] >= -MaxStall /\ Off[t] \in Int
        BY <1>1, <1>2, <1>3, <3>2 DEF Tick, Inv, NotLate
      <4> QED BY <1>1, <2>2, <4>1
    <3> QED BY <1>3, <3>1, <3>2 DEF Tick, NotLate
  <2>8. Parts'
    BY <1>3, <2>4, <2>7 DEF Tick, Inv, TypeOK, Parts, LinkedWhen, FiringUnlinked, FlagTellsLinked
  <2> QED BY <2>5, <2>6, <2>8 DEF Inv, Parts
<1>4. CASE Fire
  <2>1. Off' = Off /\ UNCHANGED <<tick, deadline>> /\ list' = Tail(list) /\ list # <<>>
    BY <1>4 DEF Fire, Off
  <2>2. /\ InOrder(list', Off') /\ Range(list') = Range(list) \ {firing'} /\ firing' \in Range(list)
    BY <1>2, <1>4, <2>1, TailLemma DEF Fire, Inv
  <2>3. TypeOK'
    BY <1>2, <1>4, <2>2 DEF Fire, Inv, TypeOK, InOrder
  <2>4. Parts'
    BY <1>1, <1>2, <1>4, <2>1, <2>2
       DEF Fire, Inv, TypeOK, Parts, NotLate, LinkedWhen, FiringUnlinked, FlagTellsLinked
  <2> QED BY <2>2, <2>3, <2>4 DEF Inv, Parts
<1>5. CASE Callback
  <2>1. /\ UNCHANGED <<tick, init, pc, firing>> /\ isr = "callback" /\ isr' = "finish"
        /\ \/ UNCHANGED <<list, deadline, active>>
           \/ \E t \in Timers : pc[t] = "idle" /\ (StopNow(t) \/ (t # firing /\ StartNow(t)))
    BY <1>5 DEF Callback
  <2>2. CASE UNCHANGED <<list, deadline, active>>
    <3>1. Off' = Off /\ InOrder(list', Off') /\ Range(list') = Range(list)
      BY <2>1, <2>2, Untouched
    <3>2. TypeOK'
      BY <2>1, <2>2, <3>1 DEF Inv, TypeOK, InOrder
    <3>3. Parts'
      BY <2>1, <2>2, <3>1 DEF Inv, TypeOK, Parts, NotLate, LinkedWhen, FiringUnlinked,
      FlagTellsLinked
    <3> QED BY <3>1, <3>2, <3>3 DEF Inv, Parts
  <2>3. ASSUME NEW t \in Timers, pc[t] = "idle", StopNow(t) PROVE Inv'
    <3>1. /\ Off' = Off /\ UNCHANGED deadline /\ InOrder(list', Off')
          /\ Range(list') = Range(list) \ {t} /\ active' = [active EXCEPT ![t] = FALSE]
      BY <2>1, <2>3, StopNowFacts
    <3>2. TypeOK'
      BY <2>1, <3>1 DEF Inv, TypeOK, InOrder
    <3>3. Parts'
      BY <2>1, <2>3, <3>1 DEF Inv, TypeOK, Parts, NotLate, LinkedWhen, FiringUnlinked,
      FlagTellsLinked
    <3> QED BY <3>1, <3>2, <3>3 DEF Inv, Parts
  <2>4. ASSUME NEW t \in Timers, pc[t] = "idle", t # firing, StartNow(t) PROVE Inv'
    <3>1. /\ deadline' \in [Timers -> Ticks] /\ InOrder(list', Off')
          /\ Range(list') = Range(list) \union {t}
          /\ \A u \in Timers \ {t} : Off'[u] = Off[u]
          /\ Off'[t] \in Int /\ Off'[t] >= -MaxStall /\ active' = [active EXCEPT ![t] = TRUE]
      BY <2>1, <2>4, StartNowFacts
    <3>2. TypeOK'
      BY <2>1, <3>1 DEF Inv, TypeOK, InOrder, Ticks
    <3>3. NotLate'
      BY <1>1, <2>1, <2>4, <3>1 DEF Inv, NotLate
    <3>4. Parts'
      BY <2>1, <2>4, <3>1, <3>3 DEF Inv, TypeOK, Parts, LinkedWhen, FiringUnlinked, FlagTellsLinked
    <3> QED BY <3>1, <3>2, <3>4 DEF Inv, Parts
  <2> QED BY <2>1, <2>2, <2>3, <2>4
<1>6. CASE Finish
  <2>1. /\ UNCHANGED <<tick, init, pc>> /\ isr = "finish" /\ isr' = "check" /\ firing' = NoTimer
        /\ firing \in Timers /\ firing \notin Range(list) /\ pc[firing] \in {"idle", "unlink"}
    BY <1>6 DEF Finish, Inv, FiringUnlinked
  <2>2. CASE firing \in Periodic /\ active[firing]
    <3>1. StartNow(firing)
      BY <1>6, <2>2 DEF Finish
    <3>2. /\ deadline' \in [Timers -> Ticks] /\ InOrder(list', Off')
          /\ Range(list') = Range(list) \union {firing}
          /\ \A u \in Timers \ {firing} : Off'[u] = Off[u]
          /\ Off'[firing] \in Int /\ Off'[firing] >= -MaxStall
          /\ active' = [active EXCEPT ![firing] = TRUE]
      BY <2>1, <3>1, StartNowFacts
    <3>3. TypeOK'
      BY <2>1, <3>2 DEF Inv, TypeOK, InOrder, Ticks
    <3>4. NotLate'
      BY <1>1, <2>1, <3>2 DEF Inv, NotLate
    <3>5. Parts'
      BY <2>1, <3>2, <3>4 DEF Inv, TypeOK, Parts, LinkedWhen, FiringUnlinked, FlagTellsLinked
    <3> QED BY <3>2, <3>3, <3>5 DEF Inv, Parts
  <2>3. CASE ~(firing \in Periodic /\ active[firing])
    <3>1. UNCHANGED <<list, deadline>> /\ active' = [active EXCEPT ![firing] = FALSE]
      BY <1>6, <2>3 DEF Finish
    <3>2. Off' = Off /\ InOrder(list', Off') /\ Range(list') = Range(list)
      BY <2>1, <3>1, Untouched
    <3>3. TypeOK'
      BY <2>1, <3>1, <3>2 DEF Inv, TypeOK, InOrder
    <3>4. Parts'
      BY <2>1, <3>1, <3>2 DEF Inv, TypeOK, Parts, NotLate, LinkedWhen, FiringUnlinked,
      FlagTellsLinked
    <3> QED BY <3>2, <3>3, <3>4 DEF Inv, Parts
  <2> QED BY <2>2, <2>3
<1>7. CASE Return
  <2>1. Off' = Off /\ InOrder(list', Off') /\ Range(list') = Range(list)
    BY <1>7, Untouched DEF Return
  <2>2. TypeOK'
    BY <1>7, <2>1 DEF Return, Inv, TypeOK, InOrder
  <2>3. \A t \in Range(list) : Off[t] > 0
    BY <1>2, <1>7, HeadDue DEF Return, Inv, InOrder, Range
  <2>4. NotLate'
    BY <1>1, <1>2, <1>7, <2>1, <2>3 DEF Return, Inv, NotLate
  <2>5. Parts'
    BY <1>7, <2>1, <2>4 DEF Return, Inv, TypeOK, Parts, LinkedWhen, FiringUnlinked, FlagTellsLinked
  <2> QED BY <2>1, <2>2, <2>5 DEF Inv, Parts
<1> QED BY <1>3, <1>4, <1>5, <1>6, <1>7

LEMMA NextInv == Widths /\ Inv /\ [Next]_vars => Inv'
<1> SUFFICES ASSUME Widths, Inv, [Next]_vars PROVE Inv'
  OBVIOUS
<1>1. CASE UNCHANGED vars
  BY <1>1 DEF vars, Inv, TypeOK, Off, NotLate, LinkedWhen, FiringUnlinked, FlagTellsLinked
<1>2. ASSUME NEW t \in Timers,
             \/ \E n \in Times[t] : SetTime(t, n) \/ Create(t, n)
             \/ Start(t) \/ StartCompute(t) \/ StartInsert(t)
             \/ Stop(t) \/ StopUnlink(t) \/ StopClear(t) \/ Detach(t)
      PROVE  Inv'
  <2>1. PICK n \in Times[t] : \/ SetTime(t, n) \/ Create(t, n) \/ Start(t) \/ StartCompute(t)
                              \/ StartInsert(t) \/ Stop(t) \/ StopUnlink(t) \/ StopClear(t)
                              \/ Detach(t)
    BY <1>2 DEF Widths
  <2> QED BY <2>1, ThreadStep
<1>3. CASE Tick \/ Fire \/ Callback \/ Finish \/ Return
  BY <1>3, HandlerStep
<1> QED BY <1>1, <1>2, <1>3 DEF Next

LEMMA Invariance == ASSUME TimerAssumption PROVE Spec => []Inv
<1>1. Widths
  BY SizesLemma
<1>2. Init => Inv
  BY InitInv
<1>3. Inv /\ [Next]_vars => Inv'
  BY <1>1, NextInv
<1> QED BY <1>2, <1>3, PTL DEF Spec

-----------------------------------------------------------------------------
(* The theorems                                                             *)

\* For any number of timers, times and width of the tick, rt_timer_list is in
\* the order of the deadlines, also when they lie on both sides of the wrap of
\* rt_tick, and links no timer twice: the insertion loop of rt_timer_start
\* compares no two deadlines that are half the range apart.
THEOREM OrderOfTheList == ASSUME TimerAssumption PROVE Spec => []ListOrdered
<1>1. Widths
  BY SizesLemma
<1>2. Inv => ListOrdered
  <2> SUFFICES ASSUME Inv PROVE ListOrdered
    OBVIOUS
  <2>1. /\ tick \in Ticks /\ deadline \in [Timers -> Ticks] /\ Off = Offset(tick, deadline)
        /\ \A t \in Timers : t \in Range(list) => Near(Off[t])
    BY <1>1, OffFacts DEF Off
  <2>2. ASSUME NEW i \in DOMAIN list, NEW j \in DOMAIN list, i < j
        PROVE  Minus(deadline[list[j]], deadline[list[i]]) < Half
    <3>1. PICK t \in Timers, u \in Timers : t = list[i] /\ u = list[j]
      BY DEF Inv, InOrder
    <3>2. Near(Off[t]) /\ Near(Off[u]) /\ Off[t] =< Off[u]
      BY <2>1, <2>2, <3>1 DEF Inv, InOrder, Range
    <3>3. Minus(deadline[u], deadline[t]) < Half
      BY <1>1, <2>1, <3>2, CompareLemma
    <3> QED BY <3>1, <3>3
  <2> QED BY <2>2 DEF ListOrdered, Inv
<1> QED BY <1>2, Invariance, PTL

\* However the three sections of rt_timer_start and rt_timer_stop, the tick
\* handler and the timeout functions interleave, RT_TIMER_FLAG_ACTIVATED of a
\* timer nobody is busy with tells whether it is linked, so that rt_timer_stop
\* stops it when it has to.
THEOREM FlagOfTheList == ASSUME TimerAssumption PROVE Spec => []FlagTellsLinked
<1>1. Inv => FlagTellsLinked
  BY DEF Inv
<1> QED BY <1>1, Invariance, PTL

LEMMA StepInOrder == Widths /\ Inv /\ [Next]_vars => DeadlinesInOrder \/ UNCHANGED vars
<1> SUFFICES ASSUME Widths, Inv, Next PROVE DeadlinesInOrder
  OBVIOUS
<1>1. \A i \in DOMAIN list' : list'[i] \in Range(list')
  BY DEF Range
<1>2. ASSUME Range(list') \subseteq Range(list) PROVE DeadlinesInOrder
  BY <1>1, <1>2 DEF DeadlinesInOrder
<1>3. ASSUME NEW t \in Timers, Range(list') = Range(list) \union {t}, Behind(list', t, deadline')
      PROVE  DeadlinesInOrder
  <2> SUFFICES ASSUME NEW i \in DOMAIN list', NEW j \in DOMAIN list', i < j,
                      deadline'[list'[i]] = deadline'[list'[j]], list'[i] \notin Range(list)
               PROVE  FALSE
    BY DEF DeadlinesInOrder
  <2>1. list'[i] = t
    BY <1>1, <1>3
  <2> QED BY <1>3, <2>1 DEF Behind
<1>4. CASE UNCHANGED list
  BY <1>2, <1>4
<1>5. ASSUME NEW t \in Timers, list' = Removed(list, t) PROVE DeadlinesInOrder
  BY <1>2, <1>5, RemovedLemma DEF Inv
<1>6. ASSUME NEW t \in Timers, StartNow(t), UNCHANGED tick PROVE DeadlinesInOrder
  <2>1. Range(list') = Range(list) \union {t} /\ Behind(list', t, deadline')
    BY <1>6, StartNowFacts
  <2> QED BY <1>3, <2>1
<1>7. ASSUME NEW t \in Timers, StartInsert(t) PROVE DeadlinesInOrder
  <2>1. t \notin Range(list) /\ pc[t] = "insert"
    BY <1>7 DEF StartInsert, At, Inv, LinkedWhen
  <2>2. deadline' = deadline /\ tick' = tick /\ list' = Inserted(Removed(list, t), deadline', t)
    BY <1>7, <2>1 DEF StartInsert, Removed
  <2>3. Range(list') = Range(list) \union {t} /\ Behind(list', t, deadline')
    BY <2>1, <2>2, Links
  <2> QED BY <1>3, <2>3
<1>8. ASSUME NEW t \in Timers, StopNow(t) PROVE DeadlinesInOrder
  BY <1>4, <1>5, <1>8 DEF StopNow
<1>9. CASE Fire
  <2>1. Range(list') \subseteq Range(list)
    BY <1>9, OffFacts, TailLemma DEF Fire, Inv
  <2> QED BY <1>2, <2>1
<1>10. CASE Callback
  BY <1>4, <1>6, <1>8, <1>10 DEF Callback
<1>11. CASE Finish
  <2>1. firing \in Timers
    BY <1>11 DEF Finish, Inv, FiringUnlinked
  <2> QED BY <1>4, <1>6, <1>11, <2>1 DEF Finish
<1>12. ASSUME NEW t \in Timers, Start(t) \/ StopUnlink(t) \/ Detach(t) PROVE DeadlinesInOrder
  BY <1>5, <1>12 DEF Start, StopUnlink, Detach
<1>13. CASE Tick \/ Return
  BY <1>4, <1>13 DEF Tick, Return
<1>14. ASSUME NEW t \in Timers,
              \/ \E n \in Times[t] : SetTime(t, n) \/ Create(t, n)
              \/ StartCompute(t) \/ Stop(t) \/ StopClear(t)
       PROVE  DeadlinesInOrder
  BY <1>4, <1>14 DEF SetTime, Create, StartCompute, Stop, StopClear
<1> QED BY <1>7, <1>9, <1>10, <1>11, <1>12, <1>13, <1>14 DEF Next

\* "the timer inserted early get called early" (timer.c): a timer that joins
\* the list is put behind those of the same deadline.
THEOREM EqualsInOrder == ASSUME TimerAssumption PROVE Spec => EqualDeadlinesInOrder
<1>1. Widths
  BY SizesLemma
<1>2. Inv /\ [Next]_vars => [DeadlinesInOrder]_vars
  BY <1>1, StepInOrder
<1> QED BY <1>2, Invariance, PTL DEF Spec, EqualDeadlinesInOrder

-----------------------------------------------------------------------------
(* The refinement: every step is a step of the alarms, or none              *)

\* What is left of the time of a timer, by its offset.
LeftSound ==
    /\ Left \in [Timers -> 0..Longest]
    /\ \A t \in Timers :
          Left[t] = IF (pc[t] = "insert" \/ t \in Range(list)) /\ Off[t] >= 0
                    THEN Off[t] ELSE 0

LEMMA LeftFacts ==
    ASSUME Widths, Inv
    PROVE  LeftSound
<1>1. /\ tick \in Ticks /\ deadline \in [Timers -> Ticks] /\ Off \in [Timers -> Int]
      /\ \A t \in Timers : Off[t] =< Longest
  BY OffFacts
<1>2. Longest \in Nat /\ Width \in Nat \ {0}
  BY DEF Widths
<1>3. \A t \in Timers : /\ Ahead(t) \in 0..Width - 1
                        /\ Off[t] = IF Ahead(t) =< Longest THEN Ahead(t) ELSE Ahead(t) - Width
  <2> TAKE t \in Timers
  <2>1. Minus(deadline[t], tick) \in Ticks
    BY <1>1, MinusLemma
  <2> QED BY <2>1 DEF Ahead, Off, Offset, Ticks
<1>4. \A t \in Timers : Ahead(t) =< Longest <=> Off[t] >= 0
  BY <1>2, <1>3
<1>5. \A t \in Timers :
         Left[t] = IF (pc[t] = "insert" \/ t \in Range(list)) /\ Ahead(t) =< Longest
                   THEN Ahead(t) ELSE 0
  BY DEF Left
<1>6. \A t \in Timers :
         Left[t] = IF (pc[t] = "insert" \/ t \in Range(list)) /\ Off[t] >= 0
                   THEN Off[t] ELSE 0
  BY <1>3, <1>4, <1>5
<1>7. \A t \in Timers : Left[t] \in 0..Longest
  BY <1>1, <1>2, <1>6
<1> QED BY <1>6, <1>7 DEF Left, LeftSound

LEMMA LeftFactsNext ==
    ASSUME Widths
    PROVE  Inv' => LeftSound'
<1>1. Inv => LeftSound
  BY LeftFacts
<1> QED BY <1>1, PTL

\* Functions on the timers that agree are equal.
LEMMA SameLeft ==
    ASSUME Widths, Inv, Inv', NEW S,
           \A t \in Timers \ S : Left'[t] = Left[t]
    PROVE  /\ S = {} => Left' = Left
           /\ \A t \in Timers : S = {t} => Left' = [Left EXCEPT ![t] = Left'[t]]
<1>1. Left' = [t \in Timers |-> Left'[t]] /\ Left = [t \in Timers |-> Left[t]]
  BY DEF Left
<1> QED BY <1>1

LEMMA RefineInit == TimerAssumption /\ Init => Clock!Init
<1> SUFFICES ASSUME TimerAssumption, Init PROVE Clock!Init
  OBVIOUS
<1>1. Range(list) = {}
  BY DEF Init, Range
<1>2. Left = [t \in Timers |-> 0]
  BY <1>1 DEF Left, Init
<1> QED BY <1>1, <1>2 DEF Clock!Init, Init

\* The other timers are left alone.
Others(t) ==
    \A u \in Timers \ {t} : /\ pc'[u] = pc[u] /\ Off'[u] = Off[u]
                            /\ u \in Range(list') <=> u \in Range(list)

LEMMA OthersLeft ==
    ASSUME Widths, Inv, Inv', NEW t \in Timers, Others(t)
    PROVE  Left' = [Left EXCEPT ![t] = Left'[t]]
<1>1. LeftSound /\ LeftSound'
  BY LeftFacts, LeftFactsNext
<1>2. \A u \in Timers \ {t} : Left'[u] = Left[u]
  BY <1>1 DEF Others, LeftSound
<1> QED BY <1>1, <1>2, SameLeft

ClockStep == Clock!Next \/ UNCHANGED Clock!vars

LEMMA CancelStep ==
    ASSUME Widths, Inv, Inv', NEW t \in Timers, Others(t), UNCHANGED isr,
           Range(list') = Range(list) \ {t}, pc'[t] # "insert"
    PROVE  Clock!Cancel(t)
<1>1. Left' = [Left EXCEPT ![t] = Left'[t]]
  BY OthersLeft
<1>2. Left'[t] = 0
  BY LeftFactsNext DEF LeftSound
<1> QED BY <1>1, <1>2 DEF Clock!Cancel

\* rt_timer_start in one go
LEMMA SetArmedStep ==
    ASSUME Widths, Inv, Inv', NEW t \in Timers, Others(t), (isr # "none")' = (isr # "none"),
           Range(list') = Range(list) \union {t}, Off'[t] = init[t]
    PROVE  Clock!SetArmed(t, init[t]) /\ init[t] \in 0..Longest
<1>1. Left' = [Left EXCEPT ![t] = Left'[t]]
  BY OthersLeft
<1>2. init[t] \in 0..Longest /\ Longest \in Nat
  BY DEF Inv, TypeOK, Widths
<1>3. Left'[t] = init[t]
  BY <1>2, LeftFactsNext DEF LeftSound
<1> QED BY <1>1, <1>2, <1>3 DEF Clock!SetArmed

\* Nothing the alarms see
LEMMA SameStep ==
    ASSUME Widths, Inv, Inv', NEW t \in Timers, Others(t), (isr # "none")' = (isr # "none"),
           t \in Range(list') <=> t \in Range(list),
           \/ Off'[t] = Off[t] /\ (pc'[t] = "insert" <=> pc[t] = "insert")
           \/ t \notin Range(list) /\ pc[t] # "insert" /\ pc'[t] # "insert"
    PROVE  UNCHANGED Clock!vars
<1>1. Left' = [Left EXCEPT ![t] = Left'[t]]
  BY OthersLeft
<1>2. LeftSound /\ LeftSound'
  BY LeftFacts, LeftFactsNext
<1>3. Left'[t] = Left[t]
  BY <1>2 DEF LeftSound
<1>4. Left' = Left
  BY <1>1, <1>2, <1>3 DEF LeftSound
<1>5. Range(list') = Range(list)
  <2>1. Range(list) \subseteq Timers /\ Range(list') \subseteq Timers
    BY DEF Inv, InOrder, Range
  <2> QED BY <2>1 DEF Others
<1> QED BY <1>4, <1>5 DEF Clock!vars

LEMMA RefineThread ==
    ASSUME Widths, Inv, Inv', NEW t \in Timers, NEW n \in Times[t],
           \/ SetTime(t, n) \/ Create(t, n) \/ Start(t) \/ StartCompute(t) \/ StartInsert(t)
           \/ Stop(t) \/ StopUnlink(t) \/ StopClear(t) \/ Detach(t)
    PROVE  ClockStep
<1>1. /\ tick \in Ticks /\ deadline \in [Timers -> Ticks] /\ Off \in [Timers -> Int]
      /\ init[t] \in 0..Longest /\ Longest \in Nat
      /\ pc \in [Timers -> {"idle", "compute", "insert", "unlink", "clear", "dead"}]
  BY OffFacts DEF Inv, TypeOK, Widths
<1> USE DEF At, Goto
<1>2. CASE SetTime(t, n) \/ Stop(t) \/ StopClear(t)
  <2>1. /\ Off' = Off /\ Range(list') = Range(list) /\ isr' = isr
        /\ pc[t] \in {"idle", "clear"} /\ pc'[t] # "insert"
        /\ \A u \in Timers \ {t} : pc'[u] = pc[u]
    BY <1>1, <1>2 DEF SetTime, Stop, StopClear, Off
  <2> QED BY <2>1, SameStep DEF Others, ClockStep
<1>3. CASE Create(t, n)
  <2>1. /\ UNCHANGED <<tick, list, isr>> /\ deadline' = [deadline EXCEPT ![t] = 0]
        /\ t \notin Range(list) /\ pc[t] = "dead" /\ pc'[t] = "idle"
        /\ \A u \in Timers \ {t} : pc'[u] = pc[u]
    BY <1>1, <1>3 DEF Create, Inv, LinkedWhen
  <2>2. \A u \in Timers \ {t} : Off'[u] = Off[u]
    BY <2>1, NewDeadline
  <2> QED BY <2>1, <2>2, SameStep DEF Others, ClockStep
<1>4. CASE Start(t) \/ StopUnlink(t) \/ Detach(t)
  <2>1. /\ UNCHANGED <<tick, deadline, isr>> /\ list' = Removed(list, t) /\ pc'[t] # "insert"
        /\ \A u \in Timers \ {t} : pc'[u] = pc[u]
    BY <1>1, <1>4 DEF Start, StopUnlink, Detach
  <2>2. Off' = Off /\ Range(list') = Range(list) \ {t}
    BY <2>1, Unlinks
  <2>3. Clock!Cancel(t)
    BY <2>1, <2>2, CancelStep DEF Others
  <2> QED BY <2>3 DEF ClockStep, Clock!Next
<1>5. CASE StartCompute(t)
  <2>1. /\ UNCHANGED <<tick, list, isr>> /\ t \notin Range(list) /\ pc'[t] = "insert"
        /\ deadline' = [deadline EXCEPT ![t] = (tick + init[t]) % Width]
        /\ \A u \in Timers \ {t} : pc'[u] = pc[u]
    BY <1>1, <1>5 DEF StartCompute, Inv, LinkedWhen
  <2>2. \A u \in Timers \ {t} : Off'[u] = Off[u]
    BY <2>1, NewDeadline
  <2>3. Off'[t] = init[t]
    <3>1. PICK e : e = deadline'
      OBVIOUS
    <3>2. PICK m \in 0..Longest : m = init[t]
      BY <1>1
    <3>3. e = Restarted(tick, deadline, t, m)
      BY <2>1, <3>1, <3>2 DEF Restarted
    <3>4. Offset(tick, e)[t] = m
      BY <1>1, <3>3, StartOffset
    <3> QED BY <2>1, <3>1, <3>2, <3>4 DEF Off
  <2>4. Left' = [Left EXCEPT ![t] = Left'[t]]
    BY <2>1, <2>2, OthersLeft DEF Others
  <2>5. Left'[t] = init[t]
    BY <1>1, <2>1, <2>3, LeftFactsNext DEF LeftSound
  <2>6. Clock!Set(t, init[t])
    BY <2>1, <2>4, <2>5 DEF Clock!Set
  <2> QED BY <1>1, <2>6 DEF ClockStep, Clock!Next
<1>6. CASE StartInsert(t)
  <2>1. t \notin Range(list) /\ pc[t] = "insert" /\ UNCHANGED <<tick, deadline, isr>>
        /\ \A u \in Timers \ {t} : pc'[u] = pc[u]
    BY <1>1, <1>6 DEF StartInsert, Inv, LinkedWhen
  <2>2. list' = Inserted(Removed(list, t), deadline', t)
    BY <1>6, <2>1 DEF StartInsert, Removed
  <2>3. Range(list') = Range(list) \union {t} /\ Off' = Off
    BY <2>1, <2>2, Links DEF Off
  <2>4. Left' = [Left EXCEPT ![t] = Left'[t]]
    BY <2>1, <2>3, OthersLeft DEF Others
  <2>5. LeftSound /\ LeftSound'
    BY LeftFacts, LeftFactsNext
  <2>6. Left'[t] = Left[t]
    BY <2>1, <2>3, <2>5 DEF LeftSound
  <2>7. Left' = Left
    BY <2>4, <2>5, <2>6 DEF LeftSound
  <2>8. Clock!Arm(t)
    BY <2>1, <2>3, <2>7 DEF Clock!Arm
  <2> QED BY <2>8 DEF ClockStep, Clock!Next
<1> QED BY <1>2, <1>3, <1>4, <1>5, <1>6

LEMMA RefineHandler ==
    ASSUME Widths, Inv, Inv', Tick \/ Fire \/ Callback \/ Finish \/ Return
    PROVE  ClockStep
<1>1. Longest \in Nat /\ MaxStall \in Nat /\ NoTimer \notin Timers
  BY DEF Widths
<1>2. /\ tick \in Ticks /\ deadline \in [Timers -> Ticks] /\ Off \in [Timers -> Int]
      /\ Range(list) \subseteq Timers /\ LeftSound /\ LeftSound'
  BY OffFacts, LeftFacts, LeftFactsNext DEF Inv, InOrder, Range
<1>3. CASE Tick
  <2>1. \A t \in Timers : Off[t] >= -MaxStall => Off'[t] = Off[t] - 1
    <3> SUFFICES ASSUME NEW t \in Timers, Off[t] >= -MaxStall PROVE Off'[t] = Off[t] - 1
      OBVIOUS
    <3>1. Offset((tick + 1) % Width, deadline)[t] = Offset(tick, deadline)[t] - 1
      BY <1>2, TickOffset DEF Off
    <3> QED BY <1>3, <3>1 DEF Tick, Off
  <2>2. isr = "none" /\ isr' = "check" /\ UNCHANGED <<list, pc>>
    BY <1>3 DEF Tick
  <2>3. \A t \in Timers : t \in Range(list) \/ pc[t] = "insert" => Off[t] >= -MaxStall
    BY <1>1, <1>2, <2>2 DEF Inv, NotLate
  <2>4. ASSUME NEW t \in Timers PROVE Left'[t] = IF Left[t] > 0 THEN Left[t] - 1 ELSE 0
    <3>1. CASE t \in Range(list) \/ pc[t] = "insert"
      <4>1. Off'[t] = Off[t] - 1 /\ Off[t] \in Int
        BY <1>2, <2>1, <2>3, <3>1
      <4>2. /\ Left[t] = IF Off[t] >= 0 THEN Off[t] ELSE 0
            /\ Left'[t] = IF Off'[t] >= 0 THEN Off'[t] ELSE 0
        BY <1>2, <2>2, <3>1 DEF LeftSound
      <4> QED BY <4>1, <4>2
    <3>2. CASE ~(t \in Range(list) \/ pc[t] = "insert")
      BY <1>2, <2>2, <3>2 DEF LeftSound
    <3> QED BY <3>1, <3>2
  <2>5. Left' = [t \in Timers |-> IF Left[t] > 0 THEN Left[t] - 1 ELSE 0]
    BY <1>2, <2>4 DEF LeftSound
  <2>6. Clock!Tick
    BY <2>2, <2>5 DEF Clock!Tick
  <2> QED BY <2>6 DEF ClockStep, Clock!Next
<1>4. CASE Fire
  <2>1. /\ UNCHANGED <<tick, deadline, pc>> /\ list # <<>> /\ list' = Tail(list)
        /\ isr = "check" /\ isr' = "callback" /\ Due(Head(list)) /\ Off' = Off
    BY <1>4 DEF Fire, Off
  <2>2. PICK h \in Timers : h = Head(list)
    BY <1>2, <2>1, HeadDue
  <2>3. Range(list') = Range(list) \ {h} /\ h \in Range(list) /\ Off[h] =< 0
    BY <1>2, <2>1, <2>2, HeadDue, TailLemma DEF Inv
  <2>4. pc[h] # "insert"
    BY <2>3 DEF Inv, LinkedWhen
  <2>5. Left' = [Left EXCEPT ![h] = Left'[h]]
    BY <2>1, <2>3, OthersLeft DEF Others
  <2>6. Left[h] = 0 /\ Left'[h] = 0
    BY <1>2, <2>1, <2>3, <2>4 DEF LeftSound
  <2>7. Left' = Left
    BY <1>2, <2>5, <2>6 DEF LeftSound
  <2>8. Clock!Ring(h)
    BY <2>1, <2>3, <2>6, <2>7 DEF Clock!Ring
  <2> QED BY <2>8 DEF ClockStep, Clock!Next
<1>5. CASE Callback
  <2>1. /\ UNCHANGED <<tick, init, pc, firing>> /\ isr = "callback" /\ isr' = "finish"
        /\ \/ UNCHANGED <<list, deadline, active>>
           \/ \E t \in Timers : pc[t] = "idle" /\ (StopNow(t) \/ (t # firing /\ StartNow(t)))
    BY <1>5 DEF Callback
  <2>2. CASE UNCHANGED <<list, deadline, active>>
    <3>1. Off' = Off /\ UNCHANGED <<list, pc>> /\ firing \in Timers
      BY <2>1, <2>2 DEF Off, Inv, FiringUnlinked
    <3> QED BY <2>1, <3>1, SameStep DEF Others, ClockStep
  <2>3. ASSUME NEW t \in Timers, pc[t] = "idle", StopNow(t) PROVE ClockStep
    <3>1. Off' = Off /\ Range(list') = Range(list) \ {t}
      BY <2>1, <2>3, StopNowFacts
    <3>2. Left' = [Left EXCEPT ![t] = Left'[t]]
      BY <2>1, <3>1, OthersLeft DEF Others
    <3>3. Left'[t] = 0
      BY <1>2, <2>1, <2>3, <3>1 DEF LeftSound
    <3>4. Clock!Cancel(t)
      BY <2>1, <3>1, <3>2, <3>3 DEF Clock!Cancel
    <3> QED BY <3>4 DEF ClockStep, Clock!Next
  <2>4. ASSUME NEW t \in Timers, pc[t] = "idle", t # firing, StartNow(t) PROVE ClockStep
    <3>1. /\ Range(list') = Range(list) \union {t} /\ Off'[t] = init[t]
          /\ \A u \in Timers \ {t} : Off'[u] = Off[u]
      BY <2>1, <2>4, StartNowFacts
    <3>2. Clock!SetArmed(t, init[t]) /\ init[t] \in 0..Longest
      BY <2>1, <3>1, SetArmedStep DEF Others
    <3> QED BY <3>2 DEF ClockStep, Clock!Next
  <2> QED BY <2>1, <2>2, <2>3, <2>4
<1>6. CASE Finish
  <2>1. /\ UNCHANGED <<tick, init, pc>> /\ isr = "finish" /\ isr' = "check"
        /\ firing \in Timers /\ firing \notin Range(list) /\ pc[firing] \in {"idle", "unlink"}
    BY <1>6 DEF Finish, Inv, FiringUnlinked
  <2>2. CASE firing \in Periodic /\ active[firing]
    <3>1. StartNow(firing)
      BY <1>6, <2>2 DEF Finish
    <3>2. /\ Range(list') = Range(list) \union {firing} /\ Off'[firing] = init[firing]
          /\ \A u \in Timers \ {firing} : Off'[u] = Off[u]
      BY <2>1, <3>1, StartNowFacts
    <3>3. Clock!SetArmed(firing, init[firing]) /\ init[firing] \in 0..Longest
      BY <2>1, <3>2, SetArmedStep DEF Others
    <3> QED BY <2>1, <3>3 DEF ClockStep, Clock!Next
  <2>3. CASE ~(firing \in Periodic /\ active[firing])
    <3>1. Off' = Off /\ UNCHANGED <<list, pc>>
      BY <1>6, <2>1, <2>3 DEF Finish, Off
    <3> QED BY <2>1, <3>1, SameStep DEF Others, ClockStep
  <2> QED BY <2>2, <2>3
<1>7. CASE Return
  <2>1. /\ UNCHANGED <<tick, deadline, list, pc>> /\ isr = "check" /\ isr' = "none"
        /\ ~(list # <<>> /\ Due(Head(list))) /\ Off' = Off
    BY <1>7 DEF Return, Off
  <2>2. \A t \in Range(list) : Off[t] > 0
    <3>1. CASE list = <<>>
      BY <3>1 DEF Range
    <3>2. CASE list # <<>>
      BY <1>2, <2>1, <3>2, HeadDue
    <3> QED BY <3>1, <3>2
  <2>3. \A t \in Range(list) : Left[t] > 0
    BY <1>2, <2>2 DEF LeftSound
  <2>4. Left' = Left
    <3>1. \A t \in Timers : Left'[t] = Left[t]
      BY <1>2, <2>1 DEF LeftSound
    <3> QED BY <3>1, SameLeft
  <2>5. Clock!Rest
    BY <2>1, <2>3, <2>4 DEF Clock!Rest
  <2> QED BY <2>5 DEF ClockStep, Clock!Next
<1> QED BY <1>3, <1>4, <1>5, <1>6, <1>7

LEMMA RefineStep ==
    ASSUME Widths
    PROVE  Inv /\ Inv' /\ [Next]_vars => [Clock!Next]_(Clock!vars)
<1> SUFFICES ASSUME Inv, Inv', [Next]_vars PROVE ClockStep
  BY DEF ClockStep
<1>1. CASE UNCHANGED vars
  <2>1. UNCHANGED <<list, isr, Left>>
    BY <1>1 DEF vars, Left, Ahead
  <2> QED BY <2>1 DEF ClockStep, Clock!vars
<1>2. ASSUME NEW t \in Timers,
             \/ \E n \in Times[t] : SetTime(t, n) \/ Create(t, n)
             \/ Start(t) \/ StartCompute(t) \/ StartInsert(t)
             \/ Stop(t) \/ StopUnlink(t) \/ StopClear(t) \/ Detach(t)
      PROVE  ClockStep
  <2>1. PICK n \in Times[t] : \/ SetTime(t, n) \/ Create(t, n) \/ Start(t) \/ StartCompute(t)
                              \/ StartInsert(t) \/ Stop(t) \/ StopUnlink(t) \/ StopClear(t)
                              \/ Detach(t)
    BY <1>2 DEF Widths
  <2> QED BY <2>1, RefineThread
<1>3. CASE Tick \/ Fire \/ Callback \/ Finish \/ Return
  BY <1>3, RefineHandler
<1> QED BY <1>1, <1>2, <1>3 DEF Next

\* The timers implement alarms in true time (Alarms), for any number of timers
\* and any times: however rt_tick wraps and calls, handler and timeout
\* functions interleave, a timer fires at the first tick handler that finds
\* its time over, once for each start, and not when it was stopped or started
\* anew; no tick handler ends while the time of a linked timer is over.
THEOREM TimersAreAlarms == ASSUME TimerAssumption PROVE Spec => ImplementsAlarms
<1>1. Widths
  BY SizesLemma
<1>2. Init => Clock!Init
  BY RefineInit
<1>3. Inv /\ Inv' /\ [Next]_vars => [Clock!Next]_(Clock!vars)
  BY <1>1, RefineStep
<1> QED BY <1>2, <1>3, Invariance, PTL DEF Spec, ImplementsAlarms, Clock!Spec
-----------------------------------------------------------------------------
(* What rt_kprintf prints                                                   *)

\* What a call p knows of the buffer l.
Reads(l, x) ==
    /\ l[Output!End(Len(x))] = Nul
    /\ \A i \in 0..Output!End(Len(x)) - 1 : l[i] = x[i + 1]

Intact(p, l) ==
    /\ p.at = "test" => p.n =< Output!Room
    /\ p.at = "send" => p.n < Output!Room
    /\ p.alone =>
          /\ p.at = "format" => p.n =< Len(p.text)
                                /\ \A i \in 0..p.n - 1 : i < Output!Room => l[i] = p.text[i + 1]
          /\ p.at # "format" => Reads(l, p.text)
          /\ p.at \in {"format", "lock"} => p.sent = <<>>
          /\ p.at \in {"test", "send"} =>
                p.n =< Output!End(Len(p.text)) /\ p.sent = SubSeq(p.text, 1, p.n)
          /\ p.at = "send" => p.n < Output!End(Len(p.text)) /\ p.seen = l[p.n]

Senders == {c \in Output!Callers : Output!Sends(c)}

PrintInv ==
    /\ Output!TypeOK
    /\ log[Output!Room] = Nul
    /\ \A c \in Output!Callers : print[c] # NoCall => Intact(print[c], log)
    /\ IsFiniteSet(Senders) /\ nest = Cardinality(Senders)
    /\ \A t \in Threads : Output!Sends(t) => running = t
-----------------------------------------------------------------------------
(* The buffer                                                               *)

LEMMA CellsLemma ==
    ASSUME Output!ConsoleAssumption
    PROVE  /\ Output!Room \in Nat /\ Output!Room >= 2
           /\ Output!Cells = 0..Output!Room /\ Nul \in Output!Chars
<1>1. Size \in Nat /\ Size > 2
  BY DEF Output!ConsoleAssumption
<1>2. Nul \in Output!Chars
  BY DEF Output!Chars
<1> QED BY <1>1, <1>2 DEF Output!Room, Output!Cells

\* A text ends ahead of the last cell, and in it no character is NUL.
LEMMA TextLemma ==
    ASSUME Output!ConsoleAssumption, NEW x \in Texts
    PROVE  /\ x \in Seq(Output!Chars) /\ Len(x) \in Nat
           /\ \A i \in 1..Len(x) : x[i] \in Output!Chars /\ x[i] # Nul
           /\ Output!End(Len(x)) \in 0..Output!Room - 1 /\ Output!End(Len(x)) =< Len(x)
<1>1. x \in Seq(Output!Chars) /\ Nul \notin Output!Range(x)
  BY DEF Output!ConsoleAssumption
<1>2. \A i \in 1..Len(x) : x[i] \in Output!Chars /\ x[i] # Nul
  <2> TAKE i \in 1..Len(x)
  <2>1. x[i] \in Output!Range(x)
    BY <1>1 DEF Output!Range
  <2> QED BY <1>1, <2>1
<1> QED BY <1>1, <1>2, CellsLemma DEF Output!End

\* Who sends a text character by character has sent its beginning.
LEMMA SentLemma ==
    ASSUME Output!ConsoleAssumption, NEW x \in Texts, NEW n \in Nat, n < Len(x)
    PROVE  Append(SubSeq(x, 1, n), x[n + 1]) = SubSeq(x, 1, n + 1)
<1>1. x \in Seq(Output!Chars) /\ n + 1 \in 1..Len(x) /\ x[n + 1] \in Output!Chars
  BY TextLemma
<1>2. SubSeq(x, 1, n + 1) = SubSeq(x, 1, n) \o <<x[n + 1]>>
  <2>1. 1 \in 1..Len(x) /\ n + 1 \in 1..Len(x) /\ (n + 1) - 1 = n
    BY <1>1
  <2> QED BY <1>1, <2>1, SubSeqRecursiveSecond
<1>3. SubSeq(x, 1, n) \in Seq(Output!Chars)
  <2>1. \A i \in 1..n : x[i] \in Output!Chars
    BY TextLemma
  <2> QED BY <2>1, SubSeqProperties
<1> QED BY <1>1, <1>2, <1>3, AppendIsConcat
-----------------------------------------------------------------------------
(* The other callers                                                        *)

\* What a call knows of the buffer stays true while nobody writes.
LEMMA Quiet ==
    ASSUME PrintInv, NEW c \in Output!Callers, log' = log,
           \A d \in Output!Callers : d # c => print'[d] = print[d],
           print'[c] # NoCall => Intact(print'[c], log)
    PROVE  \A d \in Output!Callers : print'[d] # NoCall => Intact(print'[d], log')
  BY DEF PrintInv

\* A call that others wrote over knows only where it sends.
LEMMA Noisy ==
    ASSUME Output!ConsoleAssumption, PrintInv, NEW c \in Output!Callers, NEW p \in Output!Prints,
           Output!Writes(c, p), ~Output!Sends(c), p.at \in {"format", "lock"}, Intact(p, log')
    PROVE  /\ print' \in [Output!Callers -> Output!Prints \union {NoCall}]
           /\ \A d \in Output!Callers : print'[d] # NoCall => Intact(print'[d], log')
           /\ Senders' = Senders /\ \A t \in Threads : Output!Sends(t)' <=> Output!Sends(t)
<1>1. NoCall \notin Output!Prints /\ print \in [Output!Callers -> Output!Prints \union {NoCall}]
  BY DEF Output!ConsoleAssumption, PrintInv, Output!TypeOK
<1>2. print'[c] = p /\ p # NoCall
  BY <1>1 DEF Output!Writes
<1>3. ASSUME NEW d \in Output!Callers, d # c, print[d] = NoCall
      PROVE  print'[d] = NoCall
  BY <1>3 DEF Output!Writes
<1>4. ASSUME NEW d \in Output!Callers, d # c, print[d] # NoCall
      PROVE  /\ print'[d] \in Output!Prints /\ print'[d] # NoCall
             /\ print'[d].at = print[d].at /\ print'[d].n = print[d].n
             /\ ~print'[d].alone
  <2>1. print[d] \in Output!Prints
    BY <1>1, <1>4
  <2>2. print'[d] = [print[d] EXCEPT !.alone = FALSE, !.sent = <<>>]
    BY <1>4 DEF Output!Writes
  <2>3. print'[d] \in Output!Prints
    <3>1. <<>> \in Seq(Output!Chars) /\ FALSE \in BOOLEAN
      BY EmptySeq
    <3> QED BY <2>1, <2>2, <3>1 DEF Output!Prints
  <2>4. print'[d].at = print[d].at /\ print'[d].n = print[d].n /\ ~print'[d].alone
    BY <2>1, <2>2 DEF Output!Prints
  <2> QED BY <2>3, <2>4, <1>1
<1>5. print' \in [Output!Callers -> Output!Prints \union {NoCall}]
  <2>1. print' = [d \in Output!Callers |-> print'[d]]
    BY DEF Output!Writes
  <2>2. \A d \in Output!Callers : print'[d] \in Output!Prints \union {NoCall}
    BY <1>2, <1>3, <1>4
  <2> QED BY <2>1, <2>2
<1>6. \A d \in Output!Callers : print'[d] # NoCall => Intact(print'[d], log')
  BY <1>2, <1>3, <1>4 DEF PrintInv, Intact
<1>7. \A d \in Output!Callers : Output!Sends(d)' <=> Output!Sends(d)
  BY <1>2, <1>3, <1>4 DEF Output!Sends, Output!In
<1> QED BY <1>5, <1>6, <1>7 DEF Senders, Output!Callers

\* A thread that runs while another sends would have found the scheduler locked.
LEMMA RunsLemma ==
    ASSUME PrintInv, NEW c \in Output!Callers, Output!Runs(c)
    PROVE  /\ running' \in Threads \union {NoCall}
           /\ \A t \in Threads : Output!Sends(t) \/ t = c => running' = t
<1>1. CASE c \notin Threads
  BY <1>1 DEF Output!Runs, PrintInv, Output!TypeOK
<1>2. CASE c \in Threads
  <2>1. running' = c /\ (nest = 0 \/ running = c)
    BY <1>2 DEF Output!Runs
  <2>2. ASSUME NEW t \in Threads, Output!Sends(t) PROVE t = c
    <3>1. t \in Senders /\ running = t
      BY <2>2 DEF PrintInv, Senders, Output!Callers
    <3>2. nest # 0
      BY <3>1, FS_EmptySet DEF PrintInv
    <3> QED BY <2>1, <3>1, <3>2
  <2> QED BY <1>2, <2>1, <2>2
<1> QED BY <1>1, <1>2

\* A step that changes the call of c alone and leaves the buffer keeps the
\* invariant if c knows enough of it and the lock is counted.
LEMMA OwnStep ==
    ASSUME PrintInv, NEW c \in Output!Callers, Output!Runs(c), log' = log,
           NEW p \in Output!Prints \union {NoCall}, print' = [print EXCEPT ![c] = p],
           p # NoCall => Intact(p, log),
           IsFiniteSet(Senders'), nest' \in Nat, nest' = Cardinality(Senders')
    PROVE  PrintInv'
<1>1. print \in [Output!Callers -> Output!Prints \union {NoCall}]
  BY DEF PrintInv, Output!TypeOK
<1>2. print'[c] = p /\ \A d \in Output!Callers : d # c => print'[d] = print[d]
  BY <1>1
<1>3. print' \in [Output!Callers -> Output!Prints \union {NoCall}]
  BY <1>1
<1>4. \A d \in Output!Callers : print'[d] # NoCall => Intact(print'[d], log')
  BY <1>2, Quiet
<1>5. \A t \in Threads : t # c => (Output!Sends(t)' <=> Output!Sends(t))
  BY <1>2 DEF Output!Sends, Output!In, Output!Callers
<1>6. \A t \in Threads : Output!Sends(t)' => running' = t
  BY <1>5, RunsLemma
<1>7. running' \in Threads \union {NoCall}
  BY RunsLemma
<1>8. Output!TypeOK'
  BY <1>3, <1>7 DEF Output!TypeOK, PrintInv
<1> QED BY <1>4, <1>6, <1>8 DEF PrintInv

\* A step that writes the buffer.
LEMMA WriteStep ==
    ASSUME Output!ConsoleAssumption, PrintInv, NEW c \in Output!Callers, Output!Runs(c),
           nest' = nest, NEW p \in Output!Prints, Output!Writes(c, p), ~Output!Sends(c),
           p.at \in {"format", "lock"},
           log' \in [Output!Cells -> Output!Chars], log'[Output!Room] = Nul, Intact(p, log')
    PROVE  PrintInv'
<1>1. /\ print' \in [Output!Callers -> Output!Prints \union {NoCall}]
      /\ \A d \in Output!Callers : print'[d] # NoCall => Intact(print'[d], log')
      /\ Senders' = Senders /\ \A t \in Threads : Output!Sends(t)' <=> Output!Sends(t)
  BY Noisy
<1>2. running' \in Threads \union {NoCall} /\ \A t \in Threads : Output!Sends(t) => running' = t
  BY RunsLemma
<1>3. Output!TypeOK'
  BY <1>1, <1>2 DEF Output!TypeOK, PrintInv
<1>4. IsFiniteSet(Senders') /\ nest' = Cardinality(Senders')
  BY <1>1 DEF PrintInv
<1> QED BY <1>1, <1>2, <1>3, <1>4 DEF PrintInv
-----------------------------------------------------------------------------
(* The steps                                                                *)

LEMMA StartStep ==
    ASSUME Output!ConsoleAssumption, PrintInv, NEW c \in Output!Callers, NEW x \in Texts,
           Output!Start(c, x)
    PROVE  PrintInv'
<1> DEFINE p == [at |-> "format", text |-> x, n |-> 0, seen |-> Nul, alone |-> TRUE,
                 sent |-> <<>>]
<1>1. /\ Output!Runs(c) /\ print[c] = NoCall /\ print' = [print EXCEPT ![c] = p]
      /\ log' = log /\ nest' = nest
  BY DEF Output!Start
<1>2. p \in Output!Prints
  <2>1. Nul \in Output!Chars /\ <<>> \in Seq(Output!Chars)
    BY CellsLemma, EmptySeq
  <2> QED BY <2>1 DEF Output!Prints
<1>3. Intact(p, log)
  <2>1. Len(x) \in Nat
    BY TextLemma
  <2> QED BY <2>1 DEF Intact
<1>4. Senders' = Senders
  <2>1. print \in [Output!Callers -> Output!Prints \union {NoCall}]
    BY DEF PrintInv, Output!TypeOK
  <2>2. /\ ~Output!Sends(c) /\ ~Output!Sends(c)'
        /\ \A d \in Output!Callers : d # c => (Output!Sends(d)' <=> Output!Sends(d))
    BY <1>1, <2>1 DEF Output!Sends, Output!In
  <2> QED BY <2>2 DEF Senders
<1> HIDE DEF p
<1>5. IsFiniteSet(Senders') /\ nest' \in Nat /\ nest' = Cardinality(Senders')
  BY <1>1, <1>4 DEF PrintInv, Output!TypeOK
<1> QED BY <1>1, <1>2, <1>3, <1>5, OwnStep

LEMMA PutStep ==
    ASSUME Output!ConsoleAssumption, PrintInv, NEW c \in Output!Callers, Output!Put(c)
    PROVE  PrintInv'
<1> DEFINE o == print[c]
           p == [o EXCEPT !.n = @ + 1]
<1>1. /\ Output!Runs(c) /\ Output!In(c, "format") /\ o.n < Len(o.text)
      /\ Output!Writes(c, p) /\ nest' = nest
      /\ log' = IF o.n >= Output!Room THEN log ELSE [log EXCEPT ![o.n] = o.text[o.n + 1]]
  BY DEF Output!Put
<1>2. /\ o \in Output!Prints /\ o.at = "format" /\ Intact(o, log)
      /\ log \in [Output!Cells -> Output!Chars] /\ log[Output!Room] = Nul
  BY <1>1 DEF Output!In, PrintInv, Output!TypeOK
<1>3. /\ o.text \in Texts /\ o.n \in Nat /\ o.alone \in BOOLEAN
      /\ p \in Output!Prints /\ p.at = "format" /\ p.text = o.text /\ p.n = o.n + 1
      /\ p.alone = o.alone /\ p.sent = o.sent
  BY <1>2 DEF Output!Prints
<1> HIDE DEF o, p
<1>4. Len(o.text) \in Nat /\ o.n + 1 \in 1..Len(o.text) /\ o.text[o.n + 1] \in Output!Chars
  BY <1>1, <1>3, TextLemma
<1>5. /\ log' \in [Output!Cells -> Output!Chars] /\ log'[Output!Room] = Nul
      /\ \A i \in Output!Cells : i < o.n => log'[i] = log[i]
      /\ o.n < Output!Room => log'[o.n] = o.text[o.n + 1]
  BY <1>1, <1>2, <1>3, <1>4, CellsLemma
<1>6. Intact(p, log')
  <2>1. ASSUME o.alone, NEW i \in 0..p.n - 1, i < Output!Room PROVE log'[i] = p.text[i + 1]
    <3>1. i \in Output!Cells
      BY <2>1, <1>3, CellsLemma
    <3>2. CASE i = o.n
      BY <3>2, <2>1, <1>3, <1>5
    <3>3. CASE i < o.n
      BY <3>1, <3>3, <2>1, <1>2, <1>3, <1>5 DEF Intact
    <3> QED BY <3>2, <3>3, <1>3
  <2> QED BY <2>1, <1>2, <1>3, <1>4 DEF Intact
<1>7. ~Output!Sends(c)
  BY <1>2 DEF Output!Sends, Output!In, o
<1> QED BY <1>1, <1>3, <1>5, <1>6, <1>7, WriteStep

LEMMA FinishStep ==
    ASSUME Output!ConsoleAssumption, PrintInv, NEW c \in Output!Callers, Output!Finish(c)
    PROVE  PrintInv'
<1> DEFINE o == print[c]
           p == [o EXCEPT !.at = "lock"]
<1> DEFINE e == Output!End(Len(o.text))
<1>1. /\ Output!Runs(c) /\ Output!In(c, "format") /\ o.n = Len(o.text)
      /\ Output!Writes(c, p) /\ nest' = nest
      /\ log' = [log EXCEPT ![e] = Nul]
  BY DEF Output!Finish
<1>2. /\ o \in Output!Prints /\ o.at = "format" /\ Intact(o, log)
      /\ log \in [Output!Cells -> Output!Chars] /\ log[Output!Room] = Nul
  BY <1>1 DEF Output!In, PrintInv, Output!TypeOK
<1>3. /\ o.text \in Texts /\ o.n \in Nat /\ o.alone \in BOOLEAN
      /\ p \in Output!Prints /\ p.at = "lock" /\ p.text = o.text
      /\ p.alone = o.alone /\ p.sent = o.sent
  BY <1>2 DEF Output!Prints
<1> HIDE DEF o, p
<1>4. e \in Nat /\ e \in Output!Cells /\ e < Output!Room /\ e =< o.n
  BY <1>1, <1>3, TextLemma, CellsLemma
<1> HIDE DEF e
<1>5. log' \in [Output!Cells -> Output!Chars] /\ log'[Output!Room] = Nul /\ log'[e] = Nul
      /\ \A i \in Output!Cells : i < e => log'[i] = log[i]
  BY <1>1, <1>2, <1>4, CellsLemma
<1>6. Intact(p, log')
  <2>1. ASSUME o.alone, NEW i \in 0..e - 1 PROVE log'[i] = p.text[i + 1]
    <3>1. i \in Output!Cells /\ i < e /\ i < Output!Room /\ i \in 0..o.n - 1
      BY <1>3, <1>4, CellsLemma
    <3> QED BY <3>1, <2>1, <1>2, <1>3, <1>5 DEF Intact
  <2>2. o.alone => Reads(log', p.text)
    BY <2>1, <1>3, <1>5 DEF Reads, e
  <2> QED BY <2>2, <1>2, <1>3 DEF Intact
<1>7. ~Output!Sends(c)
  BY <1>2 DEF Output!Sends, Output!In, o
<1> QED BY <1>1, <1>3, <1>5, <1>6, <1>7, WriteStep

\* Who locks the scheduler sends, and who returns has sent.
LEMMA LockStep ==
    ASSUME Output!ConsoleAssumption, PrintInv, NEW c \in Output!Callers, Output!Lock(c)
    PROVE  PrintInv'
<1> DEFINE o == print[c]
           p == [o EXCEPT !.at = "test", !.n = 0]
<1>1. /\ Output!Runs(c) /\ Output!In(c, "lock") /\ print' = [print EXCEPT ![c] = p] /\ log' = log
      /\ nest' = nest + 1
  BY DEF Output!Lock
<1>2. o \in Output!Prints /\ o.at = "lock" /\ Intact(o, log)
  BY <1>1 DEF Output!In, PrintInv, Output!TypeOK
<1>3. /\ o.text \in Texts /\ o.alone \in BOOLEAN
      /\ p \in Output!Prints /\ p.at = "test" /\ p.text = o.text /\ p.n = 0
      /\ p.alone = o.alone /\ p.sent = o.sent
  BY <1>2 DEF Output!Prints
<1>4. Senders' = Senders \union {c} /\ c \notin Senders
  <2>1. print \in [Output!Callers -> Output!Prints \union {NoCall}] /\ p # NoCall
    BY <1>3 DEF PrintInv, Output!TypeOK, Output!ConsoleAssumption
  <2>2. /\ ~Output!Sends(c) /\ Output!Sends(c)'
        /\ \A d \in Output!Callers : d # c => (Output!Sends(d)' <=> Output!Sends(d))
    BY <1>1, <1>2, <1>3, <2>1 DEF Output!Sends, Output!In
  <2> QED BY <2>2 DEF Senders
<1> HIDE DEF o, p
<1>5. Intact(p, log)
  <2>1. SubSeq(p.text, 1, p.n) = <<>>
    BY <1>3, SubSeqEmpty
  <2>2. Output!End(Len(p.text)) \in Nat /\ Output!Room \in Nat
    BY <1>3, TextLemma, CellsLemma
  <2>3. o.alone => Reads(log, o.text) /\ o.sent = <<>>
    BY <1>2 DEF Intact
  <2>4. p.n =< Output!Room /\ p.n =< Output!End(Len(p.text)) /\ p.at = "test"
    BY <2>2, <1>3
  <2>5. p.alone => Reads(log, p.text) /\ p.sent = SubSeq(p.text, 1, p.n)
    BY <2>1, <2>3, <1>3
  <2> QED BY <2>4, <2>5 DEF Intact
<1>6. IsFiniteSet(Senders') /\ nest' \in Nat /\ nest' = Cardinality(Senders')
  BY <1>1, <1>4, FS_AddElement DEF PrintInv, Output!TypeOK
<1> QED BY <1>1, <1>3, <1>5, <1>6, OwnStep

LEMMA TestStep ==
    ASSUME Output!ConsoleAssumption, PrintInv, NEW c \in Output!Callers, Output!Test(c)
    PROVE  PrintInv'
<1> DEFINE o == print[c]
           p == [o EXCEPT !.at = "send", !.seen = log[o.n]]
<1>1. /\ Output!Runs(c) /\ Output!In(c, "test") /\ log[o.n] # Nul
      /\ print' = [print EXCEPT ![c] = p]
      /\ log' = log /\ nest' = nest
  BY DEF Output!Test
<1>2. /\ o \in Output!Prints /\ o.at = "test" /\ Intact(o, log)
      /\ log \in [Output!Cells -> Output!Chars]
      /\ log[Output!Room] = Nul
  BY <1>1 DEF Output!In, PrintInv, Output!TypeOK
<1>3. o.n \in Nat /\ o.n < Output!Room /\ o.n \in Output!Cells /\ log[o.n] \in Output!Chars
  <2>1. o.n \in Nat /\ o.n =< Output!Room
    BY <1>2 DEF Output!Prints, Intact
  <2> QED BY <2>1, <1>1, <1>2, CellsLemma
<1>4. /\ o.text \in Texts /\ o.alone \in BOOLEAN
      /\ p \in Output!Prints /\ p.at = "send" /\ p.text = o.text /\ p.n = o.n
      /\ p.alone = o.alone /\ p.sent = o.sent /\ p.seen = log[o.n]
  BY <1>2, <1>3 DEF Output!Prints
<1>5. Senders' = Senders
  <2>1. print \in [Output!Callers -> Output!Prints \union {NoCall}] /\ p # NoCall
    BY <1>4 DEF PrintInv, Output!TypeOK, Output!ConsoleAssumption
  <2>2. /\ Output!Sends(c) /\ Output!Sends(c)'
        /\ \A d \in Output!Callers : d # c => (Output!Sends(d)' <=> Output!Sends(d))
    BY <1>1, <1>2, <1>4, <2>1 DEF Output!Sends, Output!In
  <2> QED BY <2>2 DEF Senders
<1> HIDE DEF o, p
<1>6. Intact(p, log)
  <2>1. o.alone => o.n # Output!End(Len(o.text)) /\ o.n =< Output!End(Len(o.text))
    BY <1>1, <1>2 DEF Intact, Reads
  <2>2. Output!End(Len(o.text)) \in Nat
    BY <1>4, TextLemma, CellsLemma
  <2> QED BY <2>1, <2>2, <1>2, <1>3, <1>4 DEF Intact
<1>7. IsFiniteSet(Senders') /\ nest' \in Nat /\ nest' = Cardinality(Senders')
  BY <1>1, <1>5 DEF PrintInv, Output!TypeOK
<1> QED BY <1>1, <1>4, <1>6, <1>7, OwnStep

LEMMA SendStep ==
    ASSUME Output!ConsoleAssumption, PrintInv, NEW c \in Output!Callers, Output!Send(c)
    PROVE  PrintInv'
<1> DEFINE o == print[c]
<1>1. PICK ch \in {o.seen, log[o.n]} :
         print' = [print EXCEPT ![c].at = "test", ![c].n = @ + 1, ![c].seen = Nul,
                                ![c].sent = IF o.alone THEN Append(@, ch) ELSE @]
  BY DEF Output!Send
<1> DEFINE p == [o EXCEPT !.at = "test", !.n = @ + 1, !.seen = Nul,
                          !.sent = IF o.alone THEN Append(@, ch) ELSE @]
<1>2. Output!Runs(c) /\ Output!In(c, "send") /\ log' = log /\ nest' = nest
  BY DEF Output!Send
<1>3. print \in [Output!Callers -> Output!Prints \union {NoCall}]
  BY DEF PrintInv, Output!TypeOK
<1>4. /\ o \in Output!Prints /\ o.at = "send" /\ Intact(o, log)
      /\ log \in [Output!Cells -> Output!Chars]
  BY <1>2, <1>3 DEF Output!In, PrintInv, Output!TypeOK
<1>5. print' = [print EXCEPT ![c] = p]
  BY <1>1, <1>3
<1>6. /\ o.text \in Texts /\ o.alone \in BOOLEAN /\ o.n \in Nat /\ o.n < Output!Room
      /\ o.sent \in Seq(Output!Chars) /\ o.seen \in Output!Chars
  BY <1>4 DEF Output!Prints, Intact
<1>7. ch \in Output!Chars /\ Nul \in Output!Chars
  BY <1>1, <1>4, <1>6, CellsLemma
<1> DEFINE s == IF o.alone THEN Append(o.sent, ch) ELSE o.sent
<1>8. s \in Seq(Output!Chars)
  BY <1>6, <1>7, AppendProperties
<1> HIDE DEF o, s
<1>9. p = [at |-> "test", text |-> o.text, n |-> o.n + 1, seen |-> Nul, alone |-> o.alone,
           sent |-> s]
  <2>1. o = [at |-> o.at, text |-> o.text, n |-> o.n, seen |-> o.seen, alone |-> o.alone,
             sent |-> o.sent]
    BY <1>4 DEF Output!Prints
  <2>2. p = [o EXCEPT !.at = "test", !.n = o.n + 1, !.seen = Nul, !.sent = s]
    BY DEF s
  <2> HIDE DEF p
  <2> QED BY <2>1, <2>2
<1> HIDE DEF p
<1>10. p \in Output!Prints
  BY <1>6, <1>7, <1>8, <1>9 DEF Output!Prints
<1>11. Senders' = Senders
  <2>1. p # NoCall
    BY <1>10 DEF Output!ConsoleAssumption
  <2>2. /\ Output!Sends(c) /\ Output!Sends(c)'
        /\ \A d \in Output!Callers : d # c => (Output!Sends(d)' <=> Output!Sends(d))
    BY <1>2, <1>3, <1>4, <1>5, <1>9, <2>1 DEF Output!Sends, Output!In, o
  <2> QED BY <2>2 DEF Senders
<1>12. Intact(p, log)
  <2> DEFINE e == Output!End(Len(o.text))
  <2>1. e \in Nat /\ e =< Len(o.text) /\ Len(o.text) \in Nat /\ Output!Room \in Nat
    BY <1>6, TextLemma, CellsLemma
  <2>2. ASSUME o.alone
        PROVE  /\ Reads(log, o.text) /\ o.n < e /\ ch = o.text[o.n + 1]
               /\ o.sent = SubSeq(o.text, 1, o.n)
    <3>1. /\ Reads(log, o.text) /\ o.n < e /\ o.seen = log[o.n]
          /\ o.sent = SubSeq(o.text, 1, o.n)
      BY <2>2, <1>4 DEF Intact
    <3>2. o.n \in 0..e - 1
      BY <1>6, <2>1, <3>1
    <3>3. log[o.n] = o.text[o.n + 1]
      BY <3>1, <3>2 DEF Reads
    <3> QED BY <1>1, <3>1, <3>3 DEF o
  <2>3. ASSUME o.alone PROVE s = SubSeq(o.text, 1, o.n + 1)
    <3>1. o.n < Len(o.text)
      BY <1>6, <2>1, <2>2, <2>3
    <3>2. s = Append(SubSeq(o.text, 1, o.n), o.text[o.n + 1])
      BY <2>2, <2>3 DEF s
    <3> QED BY <3>1, <3>2, <1>6, SentLemma
  <2> HIDE DEF e
  <2>4. p.at = "test" /\ p.text = o.text /\ p.n = o.n + 1 /\ p.alone = o.alone /\ p.sent = s
    BY <1>9
  <2>5. p.n =< Output!Room /\ (o.alone => p.n =< e)
    BY <1>6, <2>1, <2>2, <2>4
  <2> QED BY <2>2, <2>3, <2>4, <2>5 DEF Intact, e
<1>13. IsFiniteSet(Senders') /\ nest' \in Nat /\ nest' = Cardinality(Senders')
  BY <1>2, <1>11 DEF PrintInv, Output!TypeOK
<1> QED BY <1>2, <1>5, <1>10, <1>12, <1>13, OwnStep

LEMMA ReturnStep ==
    ASSUME Output!ConsoleAssumption, PrintInv, NEW c \in Output!Callers, Output!Return(c)
    PROVE  PrintInv'
<1>1. /\ Output!Runs(c) /\ Output!In(c, "test") /\ log' = log
      /\ print' = [print EXCEPT ![c] = NoCall]
      /\ nest' = nest - 1
  BY DEF Output!Return
<1>2. Senders' = Senders \ {c} /\ c \in Senders
  <2>1. print \in [Output!Callers -> Output!Prints \union {NoCall}]
    BY DEF PrintInv, Output!TypeOK
  <2>2. /\ Output!Sends(c) /\ ~Output!Sends(c)'
        /\ \A d \in Output!Callers : d # c => (Output!Sends(d)' <=> Output!Sends(d))
    BY <1>1, <2>1 DEF Output!Sends, Output!In
  <2> QED BY <2>2 DEF Senders
<1>3. IsFiniteSet(Senders') /\ nest' = Cardinality(Senders')
  BY <1>1, <1>2, FS_RemoveElement DEF PrintInv
<1>4. nest' \in Nat
  BY <1>3, FS_CardinalityType
<1> QED BY <1>1, <1>3, <1>4, OwnStep
-----------------------------------------------------------------------------
(* The theorem                                                              *)

LEMMA PrintStarts == Output!ConsoleAssumption /\ Output!Init => PrintInv
<1> SUFFICES ASSUME Output!ConsoleAssumption, Output!Init PROVE PrintInv
  OBVIOUS
<1>1. Senders = {}
  BY DEF Output!Init, Senders, Output!Sends, Output!In
<1>2. Output!TypeOK /\ log[Output!Room] = Nul
  BY CellsLemma DEF Output!Init, Output!TypeOK
<1>3. \A c \in Output!Callers : print[c] = NoCall /\ ~Output!Sends(c)
  BY DEF Output!Init, Output!Sends, Output!In
<1> QED BY <1>1, <1>2, <1>3, FS_EmptySet DEF PrintInv, Output!Init, Output!Callers

LEMMA PrintSteps ==
    Output!ConsoleAssumption /\ PrintInv /\ [Output!Next]_Output!vars => PrintInv'
<1> SUFFICES ASSUME Output!ConsoleAssumption, PrintInv, [Output!Next]_Output!vars
             PROVE  PrintInv'
  OBVIOUS
<1>1. CASE UNCHANGED Output!vars
  BY <1>1 DEF PrintInv, Output!TypeOK, Senders, Output!Sends, Output!In, Intact, Reads,
            Output!vars
<1>2. ASSUME NEW c \in Output!Callers, NEW x \in Texts, Output!Start(c, x) PROVE PrintInv'
  BY <1>2, StartStep
<1>3. ASSUME NEW c \in Output!Callers, Output!Put(c) PROVE PrintInv'
  BY <1>3, PutStep
<1>4. ASSUME NEW c \in Output!Callers, Output!Finish(c) PROVE PrintInv'
  BY <1>4, FinishStep
<1>5. ASSUME NEW c \in Output!Callers, Output!Lock(c) PROVE PrintInv'
  BY <1>5, LockStep
<1>6. ASSUME NEW c \in Output!Callers, Output!Test(c) PROVE PrintInv'
  BY <1>6, TestStep
<1>7. ASSUME NEW c \in Output!Callers, Output!Send(c) PROVE PrintInv'
  BY <1>7, SendStep
<1>8. ASSUME NEW c \in Output!Callers, Output!Return(c) PROVE PrintInv'
  BY <1>8, ReturnStep
<1> QED BY <1>1, <1>2, <1>3, <1>4, <1>5, <1>6, <1>7, <1>8 DEF Output!Next

\* What the run checks of a state.
LEMMA PrintSays == Output!ConsoleAssumption /\ PrintInv => Output!Printed
<1> SUFFICES ASSUME Output!ConsoleAssumption, PrintInv PROVE Output!Printed
  OBVIOUS
<1>1. \A c \in Output!Callers : print[c] # NoCall =>
         print[c] \in Output!Prints /\ Intact(print[c], log)
  BY DEF PrintInv, Output!TypeOK
<1>2. ASSUME NEW c \in Output!Callers, Output!Sends(c) PROVE print[c].n \in 0..Output!Room
  <2>1. print[c] \in Output!Prints /\ Intact(print[c], log)
        /\ (print[c].at = "test" \/ print[c].at = "send")
    BY <1>1, <1>2 DEF Output!Sends, Output!In
  <2> QED BY <2>1, CellsLemma DEF Output!Prints, Intact
<1>3. \A c \in Output!Callers : Output!Sends(c) => print[c].n \in Output!Cells
  BY <1>2, CellsLemma
<1>4. \A c \in Output!Callers : Output!In(c, "test") =>
         \E i \in Output!Cells : i >= print[c].n /\ log[i] = Nul
  <2>1. Output!Room \in Output!Cells /\ log[Output!Room] = Nul
    BY CellsLemma DEF PrintInv
  <2> QED BY <1>2, <2>1 DEF Output!Sends
<1>5. ASSUME NEW c \in Output!Callers, Output!In(c, "test"), print[c].alone,
             log[print[c].n] = Nul
      PROVE  print[c].sent = SubSeq(print[c].text, 1, Output!End(Len(print[c].text)))
  <2> DEFINE o == print[c]
             e == Output!End(Len(o.text))
  <2>1. o \in Output!Prints /\ o.at = "test" /\ Intact(o, log)
    BY <1>1, <1>5 DEF Output!In
  <2>2. o.text \in Texts /\ o.n \in Nat
    BY <2>1 DEF Output!Prints
  <2>3. o.n =< e /\ Reads(log, o.text) /\ o.sent = SubSeq(o.text, 1, o.n)
    BY <1>5, <2>1 DEF Intact
  <2>4. e \in Nat /\ Len(o.text) \in Nat /\ e =< Len(o.text)
    BY <2>2, TextLemma, CellsLemma
  <2>5. ASSUME o.n < e PROVE FALSE
    <3>1. o.n \in 0..e - 1 /\ o.n + 1 \in 1..Len(o.text)
      BY <2>2, <2>4, <2>5
    <3>2. log[o.n] = o.text[o.n + 1]
      BY <2>3, <3>1 DEF Reads
    <3>3. o.text[o.n + 1] # Nul
      BY <2>2, <3>1, TextLemma
    <3> QED BY <3>2, <3>3, <1>5
  <2>6. o.n = e
    BY <2>2, <2>3, <2>4, <2>5
  <2> QED BY <2>3, <2>6
<1>6. \A t, u \in Threads : Output!Sends(t) /\ Output!Sends(u) => t = u
  BY DEF PrintInv
<1> QED BY <1>3, <1>4, <1>5, <1>6 DEF Output!Printed, PrintInv

\* The texts of callers are mixed up only when their calls overlap: a caller of
\* rt_kprintf that was alone has sent his text, cut where the buffer ends; nobody
\* ever sends from behind the buffer, whatever handlers write into it meanwhile;
\* and no thread sends between another thread's characters.
THEOREM OutputSound == ASSUME Output!ConsoleAssumption PROVE Output!Spec => []Output!Printed
BY PrintStarts, PrintSteps, PrintSays, PTL DEF Output!Spec

-----------------------------------------------------------------------------
(* The objects of one class                                                 *)

\* The library's operators under the instance's names.
LEMMA SameLists ==
    \A l, k : /\ Registry!Range(l) = Range(l) /\ (Registry!IsInjective(l) <=> IsInjective(l))
              /\ Registry!RemoveAt(l, k) = RemoveAt(l, k) /\ Registry!Last(l) = Last(l)
BY DEF Range, IsInjective, RemoveAt, Last,
       Registry!Range, Registry!IsInjective, Registry!RemoveAt, Registry!Last

\* What a listing that goes on from n has ahead of it in the list c.
Beyond(c, n) ==
    IF n = List THEN Range(c)
    ELSE {b \in Range(c) : \E i, j \in DOMAIN c : i < j /\ c[i] = n /\ c[j] = b}

\* Types, uses and what the listing counts on belong together.
UsesAgree ==
    \A b \in Registry!Blocks :
        /\ life[b] \in {"made", "linked"} => b \in typed
        /\ life[b] = "leaving" => b \notin typed
        /\ b \in lister.stay => life[b] = "linked"

\* A listing that met nothing goes on from an object that is still linked, and has
\* shown or will show just what it has behind it.
Course ==
    /\ lister.at # "show" => lister.todo = <<>>
    /\ ~lister.met =>
          /\ lister.at # "wild"
          /\ lister.at = "done" => lister.stay = lister.shown
          /\ lister.at = "get" => lister.next # Null
          /\ IsInjective(lister.todo)
          /\ \A b \in Range(lister.todo) : b \notin lister.shown
    /\ ~lister.met /\ lister.at \in {"get", "show"} =>
          /\ lister.next \in Registry!Blocks => life[lister.next] = "linked"
          /\ \A b \in lister.stay : b \in Beyond(chain, lister.next)
                <=> b \notin lister.shown /\ b \notin Range(lister.todo)

RegistryInv == Registry!ChainSound /\ UsesAgree /\ Course

-----------------------------------------------------------------------------
\* What is behind an object, by its place in the list.
LEMMA BeyondPlace ==
    ASSUME NEW S, NEW c \in Seq(S), IsInjective(c), NEW k \in DOMAIN c, c[k] # List
    PROVE  Beyond(c, c[k]) = {c[i] : i \in k + 1..Len(c)}
<1>1. DOMAIN c = 1..Len(c) /\ \A i, j \in DOMAIN c : c[i] = c[j] => i = j
  BY DEF IsInjective
<1>2. \A b \in Beyond(c, c[k]) : \E j \in k + 1..Len(c) : c[j] = b
  BY <1>1 DEF Beyond
<1>3. \A j \in k + 1..Len(c) : c[j] \in Beyond(c, c[k])
  BY <1>1 DEF Beyond, Range
<1> QED BY <1>2, <1>3

\* Linking an object in front and unlinking one changes nothing for the others.
LEMMA BeyondLinked ==
    ASSUME NEW S, NEW c \in Seq(S), NEW b \in S, NEW n, n # b, NEW x, x # b
    PROVE  x \in Beyond(<<b>> \o c, n) <=> x \in Beyond(c, n)
<1> DEFINE r == <<b>> \o c
<1>1. /\ DOMAIN r = 1..Len(c) + 1 /\ DOMAIN c = 1..Len(c)
      /\ \A i \in 1..Len(c) + 1 : r[i] = IF i = 1 THEN b ELSE c[i - 1]
  <2>1. /\ <<b>> \in Seq(S) /\ Len(<<b>>) = 1 /\ <<b>>[1] = b
    OBVIOUS
  <2> HIDE DEF r
  <2>2. /\ r \in Seq(S) /\ Len(r) = 1 + Len(c)
        /\ \A i \in 1..1 + Len(c) : r[i] = IF i <= 1 THEN <<b>>[i] ELSE c[i - 1]
    BY <2>1, ConcatProperties DEF r
  <2> QED BY <2>1, <2>2
<1> HIDE DEF r
<1>2. \A i \in DOMAIN c : i + 1 \in DOMAIN r /\ r[i + 1] = c[i]
  BY <1>1
<1>3. \A i \in DOMAIN r : r[i] # b => i - 1 \in DOMAIN c /\ c[i - 1] = r[i]
  BY <1>1
<1>4. x \in Range(r) <=> x \in Range(c)
  BY <1>2, <1>3 DEF Range
<1>5. \A i, j \in DOMAIN r : i < j => i - 1 < j - 1
  BY <1>1
<1>6. \A i, j \in DOMAIN c : i < j => i + 1 < j + 1
  BY <1>1
<1>7. (\E i, j \in DOMAIN r : i < j /\ r[i] = n /\ r[j] = x)
        <=> (\E i, j \in DOMAIN c : i < j /\ c[i] = n /\ c[j] = x)
  <2>1. ASSUME NEW i \in DOMAIN r, NEW j \in DOMAIN r, i < j, r[i] = n, r[j] = x
        PROVE  \E i1, j1 \in DOMAIN c : i1 < j1 /\ c[i1] = n /\ c[j1] = x
    BY <1>3, <1>5, <2>1
  <2>2. ASSUME NEW i \in DOMAIN c, NEW j \in DOMAIN c, i < j, c[i] = n, c[j] = x
        PROVE  \E i1, j1 \in DOMAIN r : i1 < j1 /\ r[i1] = n /\ r[j1] = x
    BY <1>2, <1>6, <2>2
  <2> QED BY <2>1, <2>2
<1> QED BY <1>4, <1>7 DEF Beyond, r

LEMMA BeyondUnlinked ==
    ASSUME NEW S, NEW c \in Seq(S), IsInjective(c), NEW k \in 1..Len(c),
           NEW n, n # c[k], NEW x, x # c[k]
    PROVE  x \in Beyond(RemoveAt(c, k), n) <=> x \in Beyond(c, n)
<1> DEFINE r == RemoveAt(c, k)
<1>1. Shorter(r, c, k, S)
  BY RemoveAtShorter
<1> HIDE DEF r
<1>2. /\ Range(r) = Range(c) \ {c[k]}
      /\ \A i, j \in DOMAIN r : i < j =>
            \E y, z \in DOMAIN c \ {k} : y < z /\ r[i] = c[y] /\ r[j] = c[z]
      /\ \A y, z \in DOMAIN c \ {k} : y < z =>
            \E i, j \in DOMAIN r : i < j /\ r[i] = c[y] /\ r[j] = c[z]
  BY <1>1, ShorterKeeps
<1>3. (\E i, j \in DOMAIN r : i < j /\ r[i] = n /\ r[j] = x)
        <=> (\E i, j \in DOMAIN c : i < j /\ c[i] = n /\ c[j] = x)
  BY <1>2
<1> QED BY <1>2, <1>3 DEF Beyond, r

\* The entries from one place to another.
LEMMA Slice ==
    ASSUME NEW S, NEW c \in Seq(S), IsInjective(c), NEW from \in 1..Len(c) + 1,
           NEW e \in from - 1..Len(c)
    PROVE  LET got == SubSeq(c, from, e) IN
           /\ got \in Seq(S) /\ Len(got) = e - from + 1 /\ IsInjective(got)
           /\ Range(got) = {c[i] : i \in from..e}
           /\ from =< e => Last(got) = c[e]
<1> DEFINE got == SubSeq(c, from, e)
<1>1. /\ DOMAIN c = 1..Len(c) /\ Len(c) \in Nat /\ \A i \in DOMAIN c : c[i] \in S
      /\ \A i, j \in DOMAIN c : c[i] = c[j] => i = j
  BY DEF IsInjective
<1>2. /\ got \in Seq(S) /\ Len(got) = e - from + 1
      /\ \A i \in 1..e - from + 1 : got[i] = c[from + i - 1]
  <2>1. \A i \in from..e : c[i] \in S
    BY <1>1
  <2>2. /\ got \in Seq(S) /\ Len(got) = IF from =< e THEN e - from + 1 ELSE 0
        /\ \A i \in 1..e - from + 1 : got[i] = c[from + i - 1]
    BY <2>1, SubSeqProperties
  <2> QED BY <2>2
<1> HIDE DEF got
<1>3. DOMAIN got = 1..e - from + 1
  BY <1>2
<1>4. \A i \in DOMAIN got : from + i - 1 \in from..e /\ from + i - 1 \in DOMAIN c
  BY <1>1, <1>3
<1>5. \A i \in from..e : i - from + 1 \in DOMAIN got /\ got[i - from + 1] = c[i]
  <2> TAKE i \in from..e
  <2>1. i - from + 1 \in DOMAIN got /\ from + (i - from + 1) - 1 = i
    BY <1>3
  <2> QED BY <1>2, <1>3, <2>1
<1>6. IsInjective(got)
  <2>1. \A i, j \in DOMAIN got : from + i - 1 = from + j - 1 => i = j
    BY <1>3
  <2> QED BY <1>1, <1>2, <1>3, <1>4, <2>1 DEF IsInjective
<1>7. Range(got) = {c[i] : i \in from..e}
  <2>1. \A x \in Range(got) : x \in {c[i] : i \in from..e}
    BY <1>2, <1>3, <1>4 DEF Range
  <2>2. \A x \in {c[i] : i \in from..e} : x \in Range(got)
    BY <1>5 DEF Range
  <2> QED BY <2>1, <2>2
<1>8. ASSUME from =< e PROVE Last(got) = c[e]
  <2>1. Len(got) \in 1..e - from + 1 /\ from + Len(got) - 1 = e
    BY <1>2, <1>8
  <2> QED BY <1>2, <2>1 DEF Last
<1> QED BY <1>2, <1>6, <1>7, <1>8 DEF got

\* The rest behind them.
LEMMA SliceRest ==
    ASSUME NEW S, NEW c \in Seq(S), IsInjective(c), NEW from \in 1..Len(c) + 1,
           NEW e \in from - 1..Len(c)
    PROVE  /\ {c[i] : i \in from..e} \subseteq {c[i] : i \in from..Len(c)}
           /\ {c[i] : i \in e + 1..Len(c)} = {c[i] : i \in from..Len(c)} \ {c[i] : i \in from..e}
           /\ from =< e => e \in DOMAIN c
<1>1. DOMAIN c = 1..Len(c) /\ \A i, j \in DOMAIN c : c[i] = c[j] => i = j
  BY DEF IsInjective
<1>2. \A i \in from..e : i \in from..Len(c) /\ i \in DOMAIN c
  BY <1>1
<1>3. \A i \in e + 1..Len(c) : i \in from..Len(c) /\ i \in DOMAIN c /\ i \notin from..e
  BY <1>1
<1>4. \A i \in from..Len(c) : i \in from..e \/ i \in e + 1..Len(c)
  BY <1>1
<1>5. \A i \in e + 1..Len(c), j \in from..e : c[i] # c[j]
  BY <1>1, <1>2, <1>3
<1>6. from =< e => e \in DOMAIN c
  BY <1>1
<1> QED BY <1>2, <1>3, <1>4, <1>5, <1>6

\* What a listing has ahead, by the place it goes on from.
Origin(c, n) == IF n = List THEN 1 ELSE 1 + CHOOSE i \in DOMAIN c : c[i] = n

LEMMA BeyondFrom ==
    ASSUME NEW S, NEW c \in Seq(S), IsInjective(c), List \notin S,
           NEW n, n = List \/ n \in Range(c)
    PROVE  Origin(c, n) \in 1..Len(c) + 1 /\ Beyond(c, n) = {c[i] : i \in Origin(c, n)..Len(c)}
<1>1. DOMAIN c = 1..Len(c) /\ Len(c) \in Nat
  OBVIOUS
<1>2. CASE n = List
  <2>1. Range(c) = {c[i] : i \in 1..Len(c)}
    BY <1>1 DEF Range
  <2> QED BY <1>1, <1>2, <2>1 DEF Beyond, Origin
<1>3. CASE n # List
  <2> DEFINE k == CHOOSE i \in DOMAIN c : c[i] = n
  <2>1. \E i \in DOMAIN c : c[i] = n
    BY <1>3 DEF Range
  <2>2. k \in DOMAIN c /\ c[k] = n
    BY <2>1
  <2> HIDE DEF k
  <2>3. Beyond(c, n) = {c[i] : i \in k + 1..Len(c)}
    BY <1>3, <2>2, BeyondPlace
  <2>4. 1 + k = k + 1 /\ 1 + k \in 1..Len(c) + 1
    BY <1>1, <2>2
  <2> QED BY <1>3, <2>3, <2>4 DEF k, Origin
<1> QED BY <1>2, <1>3

\* A batch of at most m.
Batched(c, from, m) ==
    SubSeq(c, from, IF from + m - 1 < Len(c) THEN from + m - 1 ELSE Len(c))

LEMMA BatchLemma ==
    ASSUME NEW S, NEW c \in Seq(S), IsInjective(c), List \notin S,
           NEW from \in 1..Len(c) + 1, NEW m \in Nat \ {0}
    PROVE  LET got == Batched(c, from, m)
               ahead == {c[i] : i \in from..Len(c)}
           IN  /\ got \in Seq(S) /\ IsInjective(got) /\ Range(got) \subseteq ahead
               /\ Len(got) = m => Last(got) \in Range(c) /\ Beyond(c, Last(got)) = ahead \ Range(got)
               /\ Len(got) # m => Range(got) = ahead
<1> DEFINE e == IF from + m - 1 < Len(c) THEN from + m - 1 ELSE Len(c)
           got == SubSeq(c, from, e)
           ahead == {c[i] : i \in from..Len(c)}
<1>1. /\ DOMAIN c = 1..Len(c) /\ Len(c) \in Nat /\ \A i \in DOMAIN c : c[i] \in S
      /\ \A i, j \in DOMAIN c : c[i] = c[j] => i = j
  BY DEF IsInjective
<1>2. e \in from - 1..Len(c) /\ (e - from + 1 # m => e = Len(c)) /\ Batched(c, from, m) = got
  BY DEF Batched
<1> HIDE DEF e
<1>3. /\ got \in Seq(S) /\ Len(got) = e - from + 1 /\ IsInjective(got)
      /\ Range(got) = {c[i] : i \in from..e}
      /\ from =< e => Last(got) = c[e]
  BY <1>2, Slice
<1> HIDE DEF got
<1>4. /\ {c[i] : i \in from..e} \subseteq ahead
      /\ {c[i] : i \in e + 1..Len(c)} = ahead \ {c[i] : i \in from..e}
      /\ from =< e => e \in DOMAIN c
  BY <1>2, SliceRest
<1>5. from =< e \/ Len(got) # m
  BY <1>2, <1>3
<1>6. ASSUME Len(got) = m
      PROVE  Last(got) \in Range(c) /\ Beyond(c, Last(got)) = ahead \ Range(got)
  <2>1. e \in DOMAIN c /\ Last(got) = c[e]
    BY <1>3, <1>4, <1>6, <1>5
  <2>2. c[e] \in S /\ c[e] # List
    BY <1>1, <2>1
  <2>3. Beyond(c, c[e]) = {c[i] : i \in e + 1..Len(c)}
    BY <2>1, <2>2, BeyondPlace
  <2> QED BY <2>1, <2>3, <1>3, <1>4 DEF Range
<1>7. Len(got) # m => Range(got) = ahead
  BY <1>2, <1>3
<1> QED BY <1>2, <1>3, <1>4, <1>6, <1>7

-----------------------------------------------------------------------------
(* The makers of objects                                                    *)

\* What the listing's record keeps when a block is met.
LEMMA MetFacts ==
    ASSUME RegistryInv, NEW b \in Registry!Blocks, Registry!Met(b)
    PROVE  /\ lister' \in [at : {"off", "get", "show", "done", "wild"},
                           next : Registry!Blocks \union {List, Null}, todo : Seq(Registry!Blocks),
                           stay : SUBSET Registry!Blocks, shown : SUBSET Registry!Blocks,
                           met : BOOLEAN]
           /\ lister'.shown \subseteq lister'.stay
           /\ lister'.at = lister.at /\ lister'.next = lister.next /\ lister'.todo = lister.todo
           /\ lister'.stay = lister.stay \ {b} /\ lister'.shown = lister.shown \ {b}
           /\ lister'.met <=> lister.met \/ b = lister.next
  BY DEF Registry!Met, RegistryInv, Registry!ChainSound, Registry!TypeOK

\* A maker that leaves the list alone: the listing's course is the same.
LEMMA MeetsOnly ==
    ASSUME RegistryInv, NEW b \in Registry!Blocks, Registry!Met(b), UNCHANGED chain,
           \A x \in Registry!Blocks : x # b => life'[x] = life[x]
    PROVE  Course'
<1>1. /\ lister'.at = lister.at /\ lister'.next = lister.next /\ lister'.todo = lister.todo
      /\ lister'.stay = lister.stay \ {b} /\ lister'.shown = lister.shown \ {b}
      /\ lister'.met <=> lister.met \/ b = lister.next
  BY MetFacts
<1>2. Course
  BY DEF RegistryInv
<1>3. Beyond(chain', lister'.next) = Beyond(chain, lister.next)
  BY <1>1 DEF Beyond
<1> QED BY <1>1, <1>2, <1>3 DEF Course

LEMMA TypeStep ==
    ASSUME RegistryInv, NEW b \in Registry!Blocks,
           Registry!InitType(b) \/ Registry!AllocateType(b)
    PROVE  RegistryInv'
<1>1. /\ life[b] = "free" /\ Registry!Met(b) /\ UNCHANGED chain
      /\ typed' = typed \union {b} /\ life' = [life EXCEPT ![b] = "made"]
      /\ stray' = stray \/ stray' = [stray EXCEPT ![b] = Null]
  BY DEF Registry!InitType, Registry!AllocateType
<1>2. /\ life \in [Registry!Blocks -> {"free", "other", "made", "linked", "leaving"}]
      /\ stray \in [Registry!Blocks -> Registry!Blocks \union {Null}]
  BY DEF RegistryInv, Registry!ChainSound, Registry!TypeOK
<1>3. life'[b] = "made" /\ \A x \in Registry!Blocks : x # b => life'[x] = life[x]
  BY <1>1, <1>2
<1>4. Registry!ChainSound'
  <2>1. life' \in [Registry!Blocks -> {"free", "other", "made", "linked", "leaving"}]
    BY <1>1, <1>2
  <2>2. stray' \in [Registry!Blocks -> Registry!Blocks \union {Null}]
    BY <1>1, <1>2
  <2>3. Registry!TypeOK'
    BY <1>1, <2>1, <2>2, MetFacts DEF RegistryInv, Registry!ChainSound, Registry!TypeOK
  <2>4. {x \in Registry!Blocks : life'[x] \in {"linked", "leaving"}}
           = {x \in Registry!Blocks : life[x] \in {"linked", "leaving"}}
    BY <1>1, <1>3
  <2> QED BY <1>1, <2>3, <2>4 DEF RegistryInv, Registry!ChainSound, Registry!Linked
<1>5. UsesAgree'
  BY <1>1, <1>3, MetFacts DEF RegistryInv, UsesAgree
<1> QED BY <1>1, <1>3, <1>4, <1>5, MeetsOnly DEF RegistryInv

LEMMA LinkStep ==
    ASSUME Registry!ObjectsAssumption, RegistryInv, NEW b \in Registry!Blocks, Registry!Link(b)
    PROVE  RegistryInv'
<1>1. /\ life[b] = "made" /\ chain' = <<b>> \o chain /\ life' = [life EXCEPT ![b] = "linked"]
      /\ UNCHANGED <<typed, stray, lister>>
  BY DEF Registry!Link
<1>2. /\ life \in [Registry!Blocks -> {"free", "other", "made", "linked", "leaving"}]
      /\ chain \in Seq(Registry!Blocks) /\ IsInjective(chain)
      /\ Range(chain) = {x \in Registry!Blocks : life[x] \in {"linked", "leaving"}}
  BY SameLists DEF RegistryInv, Registry!ChainSound, Registry!TypeOK, Registry!Linked
<1>3. /\ life' \in [Registry!Blocks -> {"free", "other", "made", "linked", "leaving"}]
      /\ life'[b] = "linked" /\ \A x \in Registry!Blocks : x # b => life'[x] = life[x]
  BY <1>1, <1>2
<1>4. /\ chain' \in Seq(Registry!Blocks) /\ Len(chain') = Len(chain) + 1
      /\ \A i \in 1..Len(chain) + 1 : chain'[i] = IF i = 1 THEN b ELSE chain[i - 1]
  <2>1. <<b>> \in Seq(Registry!Blocks) /\ Len(<<b>>) = 1 /\ <<b>>[1] = b
    OBVIOUS
  <2> QED BY <1>1, <1>2, <2>1, ConcatProperties
<1>5. b \notin Range(chain)
  BY <1>1, <1>2
<1>6. IsInjective(chain') /\ Range(chain') = Range(chain) \union {b}
  <2>1. DOMAIN chain' = 1..Len(chain) + 1 /\ DOMAIN chain = 1..Len(chain)
    BY <1>2, <1>4
  <2>2. \A i \in DOMAIN chain' : i # 1 => i - 1 \in DOMAIN chain /\ chain'[i] = chain[i - 1]
    BY <1>2, <1>4, <2>1
  <2>3. \A i \in DOMAIN chain : i + 1 \in DOMAIN chain' /\ i + 1 # 1 /\ chain'[i + 1] = chain[i]
    BY <1>2, <1>4, <2>1
  <2>4. 1 \in DOMAIN chain' /\ chain'[1] = b
    BY <1>2, <1>4, <2>1
  <2>5. \A i \in DOMAIN chain : chain[i] # b
    BY <1>5 DEF Range
  <2>6. \A i, j \in DOMAIN chain' : i - 1 = j - 1 => i = j
    BY <2>1
  <2>7. IsInjective(chain')
    BY <1>2, <2>2, <2>4, <2>5, <2>6 DEF IsInjective
  <2>8. \A x : x \in Range(chain') <=> x \in Range(chain) \/ x = b
    BY <2>2, <2>3, <2>4 DEF Range
  <2> QED BY <2>7, <2>8
<1>7. Registry!ChainSound'
  <2>1. Registry!TypeOK'
    BY <1>1, <1>3, <1>4 DEF RegistryInv, Registry!ChainSound, Registry!TypeOK
  <2>2. Range(chain') = {x \in Registry!Blocks : life'[x] \in {"linked", "leaving"}}
    BY <1>2, <1>3, <1>6
  <2> QED BY <1>6, <2>1, <2>2, SameLists DEF Registry!ChainSound, Registry!Linked
<1>8. UsesAgree'
  BY <1>1, <1>3 DEF RegistryInv, UsesAgree
<1>9. Course'
  <2>1. b \notin lister.stay
    BY <1>1 DEF RegistryInv, UsesAgree
  <2>2. Course /\ lister.stay \subseteq Registry!Blocks
    BY DEF RegistryInv, Registry!ChainSound, Registry!TypeOK
  <2>3. ASSUME ~lister.met, lister.at \in {"get", "show"}, NEW x \in lister.stay
        PROVE  x \in Beyond(chain', lister.next) <=> x \in Beyond(chain, lister.next)
    <3>1. lister.next # b
      BY <1>1, <2>2, <2>3 DEF Course
    <3> QED BY <1>1, <1>2, <2>1, <2>3, <3>1, BeyondLinked
  <2>4. lister.next \in Registry!Blocks /\ life[lister.next] = "linked"
           => life'[lister.next] = "linked"
    BY <1>3
  <2> QED BY <1>1, <2>2, <2>3, <2>4 DEF Course
<1> QED BY <1>7, <1>8, <1>9 DEF RegistryInv

LEMMA ClearStep ==
    ASSUME RegistryInv, NEW b \in Registry!Blocks, Registry!ClearType(b)
    PROVE  RegistryInv'
<1>1. /\ life[b] = "linked" /\ typed' = typed \ {b} /\ life' = [life EXCEPT ![b] = "leaving"]
      /\ Registry!Met(b) /\ UNCHANGED <<chain, stray>>
  BY DEF Registry!ClearType
<1>2. life \in [Registry!Blocks -> {"free", "other", "made", "linked", "leaving"}]
  BY DEF RegistryInv, Registry!ChainSound, Registry!TypeOK
<1>3. /\ life' \in [Registry!Blocks -> {"free", "other", "made", "linked", "leaving"}]
      /\ life'[b] = "leaving" /\ \A x \in Registry!Blocks : x # b => life'[x] = life[x]
  BY <1>1, <1>2
<1>4. Registry!ChainSound'
  <2>1. Registry!TypeOK'
    BY <1>1, <1>3, MetFacts DEF RegistryInv, Registry!ChainSound, Registry!TypeOK
  <2>2. {x \in Registry!Blocks : life'[x] \in {"linked", "leaving"}}
           = {x \in Registry!Blocks : life[x] \in {"linked", "leaving"}}
    BY <1>1, <1>3
  <2> QED BY <1>1, <2>1, <2>2 DEF RegistryInv, Registry!ChainSound, Registry!Linked
<1>5. UsesAgree'
  BY <1>1, <1>3, MetFacts DEF RegistryInv, UsesAgree
<1> QED BY <1>1, <1>3, <1>4, <1>5, MeetsOnly DEF RegistryInv

LEMMA UnlinkStep ==
    ASSUME Registry!ObjectsAssumption, RegistryInv, NEW b \in Registry!Blocks, Registry!Unlink(b)
    PROVE  RegistryInv'
<1>1. /\ life[b] = "leaving" /\ life' = [life EXCEPT ![b] = "free"]
      /\ chain' = RemoveAt(chain, CHOOSE i \in DOMAIN chain : chain[i] = b)
      /\ stray' = [stray EXCEPT ![b] = b] /\ UNCHANGED <<typed, lister>>
  BY SameLists DEF Registry!Unlink
<1>2. /\ life \in [Registry!Blocks -> {"free", "other", "made", "linked", "leaving"}]
      /\ stray \in [Registry!Blocks -> Registry!Blocks \union {Null}]
      /\ chain \in Seq(Registry!Blocks) /\ IsInjective(chain)
      /\ Range(chain) = {x \in Registry!Blocks : life[x] \in {"linked", "leaving"}}
  BY SameLists DEF RegistryInv, Registry!ChainSound, Registry!TypeOK, Registry!Linked
<1>3. /\ life' \in [Registry!Blocks -> {"free", "other", "made", "linked", "leaving"}]
      /\ life'[b] = "free" /\ \A x \in Registry!Blocks : x # b => life'[x] = life[x]
  BY <1>1, <1>2
<1>4. PICK k \in 1..Len(chain) : chain[k] = b /\ chain' = RemoveAt(chain, k)
  <2>1. \E i \in DOMAIN chain : chain[i] = b
    BY <1>1, <1>2 DEF Range
  <2> DEFINE k == CHOOSE i \in DOMAIN chain : chain[i] = b
  <2>2. k \in DOMAIN chain /\ chain[k] = b
    BY <2>1
  <2>3. k \in 1..Len(chain) /\ chain' = RemoveAt(chain, k)
    BY <1>1, <1>2, <2>2
  <2> QED BY <2>2, <2>3
<1>5. Shorter(chain', chain, k, Registry!Blocks)
  BY <1>2, <1>4, RemoveAtShorter
<1>6. /\ chain' \in Seq(Registry!Blocks) /\ IsInjective(chain')
      /\ Range(chain') = Range(chain) \ {b}
  <2>1. IsInjective(chain') /\ Range(chain') = Range(chain) \ {chain[k]}
    BY <1>2, <1>5, ShorterKeeps
  <2> QED BY <1>4, <1>5, <2>1 DEF Shorter
<1>7. Registry!ChainSound'
  <2>1. stray' \in [Registry!Blocks -> Registry!Blocks \union {Null}]
    BY <1>1, <1>2
  <2>2. Registry!TypeOK'
    BY <1>1, <1>3, <1>6, <2>1 DEF RegistryInv, Registry!ChainSound, Registry!TypeOK
  <2>3. Range(chain') = {x \in Registry!Blocks : life'[x] \in {"linked", "leaving"}}
    BY <1>2, <1>3, <1>6
  <2> QED BY <1>6, <2>2, <2>3, SameLists DEF Registry!ChainSound, Registry!Linked
<1>8. UsesAgree'
  BY <1>1, <1>3 DEF RegistryInv, UsesAgree
<1>9. Course'
  <2>1. b \notin lister.stay
    BY <1>1 DEF RegistryInv, UsesAgree
  <2>2. Course /\ lister.stay \subseteq Registry!Blocks
    BY DEF RegistryInv, Registry!ChainSound, Registry!TypeOK
  <2>3. ASSUME ~lister.met, lister.at \in {"get", "show"}, NEW x \in lister.stay
        PROVE  x \in Beyond(chain', lister.next) <=> x \in Beyond(chain, lister.next)
    <3>1. lister.next # b
      BY <1>1, <2>2, <2>3 DEF Course
    <3> QED BY <1>2, <1>4, <2>1, <2>3, <3>1, BeyondUnlinked
  <2>4. lister.next \in Registry!Blocks /\ life[lister.next] = "linked"
           => life'[lister.next] = "linked"
    BY <1>1, <1>3
  <2> QED BY <1>1, <2>2, <2>3, <2>4 DEF Course
<1> QED BY <1>7, <1>8, <1>9 DEF RegistryInv

LEMMA ReuseStep ==
    ASSUME RegistryInv, NEW b \in Registry!Blocks, Registry!Reuse(b) \/ Registry!Free(b)
    PROVE  RegistryInv'
<1>1. life \in [Registry!Blocks -> {"free", "other", "made", "linked", "leaving"}]
      /\ stray \in [Registry!Blocks -> Registry!Blocks \union {Null}]
  BY DEF RegistryInv, Registry!ChainSound, Registry!TypeOK
<1>2. CASE Registry!Reuse(b)
  <2>1. /\ life[b] = "free" /\ (typed' = typed \ {b} \/ typed' = typed \union {b})
        /\ stray' = [stray EXCEPT ![b] = Null] /\ life' = [life EXCEPT ![b] = "other"]
        /\ Registry!Met(b) /\ UNCHANGED chain
    BY <1>2 DEF Registry!Reuse
  <2>2. /\ life' \in [Registry!Blocks -> {"free", "other", "made", "linked", "leaving"}]
        /\ stray' \in [Registry!Blocks -> Registry!Blocks \union {Null}]
        /\ life'[b] = "other" /\ \A x \in Registry!Blocks : x # b => life'[x] = life[x]
    BY <1>1, <2>1
  <2>3. Registry!ChainSound'
    <3>1. typed' \subseteq Registry!Blocks
      BY <2>1 DEF RegistryInv, Registry!ChainSound, Registry!TypeOK
    <3>2. Registry!TypeOK'
      BY <2>1, <2>2, <3>1, MetFacts DEF RegistryInv, Registry!ChainSound, Registry!TypeOK
    <3>3. {x \in Registry!Blocks : life'[x] \in {"linked", "leaving"}}
             = {x \in Registry!Blocks : life[x] \in {"linked", "leaving"}}
      BY <2>1, <2>2
    <3> QED BY <2>1, <3>2, <3>3 DEF RegistryInv, Registry!ChainSound, Registry!Linked
  <2>4. UsesAgree'
    BY <2>1, <2>2, MetFacts DEF RegistryInv, UsesAgree
  <2> QED BY <2>1, <2>2, <2>3, <2>4, MeetsOnly DEF RegistryInv
<1>3. CASE Registry!Free(b)
  <2>1. life[b] = "other" /\ life' = [life EXCEPT ![b] = "free"]
        /\ UNCHANGED <<chain, typed, stray, lister>>
    BY <1>3 DEF Registry!Free
  <2>2. /\ life' \in [Registry!Blocks -> {"free", "other", "made", "linked", "leaving"}]
        /\ life'[b] = "free" /\ \A x \in Registry!Blocks : x # b => life'[x] = life[x]
    BY <1>1, <2>1
  <2>3. Registry!ChainSound'
    <3>1. Registry!TypeOK'
      BY <2>1, <2>2 DEF RegistryInv, Registry!ChainSound, Registry!TypeOK
    <3>2. {x \in Registry!Blocks : life'[x] \in {"linked", "leaving"}}
             = {x \in Registry!Blocks : life[x] \in {"linked", "leaving"}}
      BY <2>1, <2>2
    <3> QED BY <2>1, <3>1, <3>2 DEF RegistryInv, Registry!ChainSound, Registry!Linked
  <2>4. UsesAgree'
    BY <2>1, <2>2 DEF RegistryInv, UsesAgree
  <2>5. Course'
    BY <2>1, <2>2 DEF RegistryInv, Course
  <2> QED BY <2>3, <2>4, <2>5 DEF RegistryInv
<1> QED BY <1>2, <1>3

-----------------------------------------------------------------------------
(* The listing                                                              *)

\* A step of the listing changes nothing but its record.
LEMMA Lists ==
    ASSUME RegistryInv, UNCHANGED Registry!makers,
           lister' \in [at : {"off", "get", "show", "done", "wild"},
                        next : Registry!Blocks \union {List, Null}, todo : Seq(Registry!Blocks),
                        stay : SUBSET Registry!Blocks, shown : SUBSET Registry!Blocks,
                        met : BOOLEAN],
           lister'.shown \subseteq lister'.stay,
           \A b \in lister'.stay : life[b] = "linked",
           Course'
    PROVE  RegistryInv'
<1>1. UNCHANGED <<chain, typed, stray, life>>
  BY DEF Registry!makers
<1>2. Registry!ChainSound'
  BY <1>1 DEF RegistryInv, Registry!ChainSound, Registry!TypeOK, Registry!Linked
<1>3. UsesAgree'
  BY <1>1 DEF RegistryInv, UsesAgree
<1> QED BY <1>2, <1>3 DEF RegistryInv

LEMMA BeginStep ==
    ASSUME Registry!ObjectsAssumption, RegistryInv, Registry!Begin
    PROVE  RegistryInv'
<1>1. /\ lister' = [at |-> "get", next |-> List, todo |-> <<>>, shown |-> {},
                    stay |-> {b \in Registry!Blocks : life[b] = "linked"}, met |-> FALSE]
      /\ UNCHANGED Registry!makers
  BY DEF Registry!Begin
<1>2. /\ lister'.at = "get" /\ lister'.next = List /\ lister'.todo = <<>> /\ lister'.shown = {}
      /\ lister'.stay = {b \in Registry!Blocks : life[b] = "linked"} /\ ~lister'.met
  BY <1>1
<1>3. <<>> \in Seq(Registry!Blocks) /\ Range(<<>>) = {} /\ IsInjective(<<>>)
  BY EmptySeq DEF Range, IsInjective
<1>4. lister' \in [at : {"off", "get", "show", "done", "wild"},
                   next : Registry!Blocks \union {List, Null}, todo : Seq(Registry!Blocks),
                   stay : SUBSET Registry!Blocks, shown : SUBSET Registry!Blocks, met : BOOLEAN]
  BY <1>1, <1>3
<1>5. \A b \in lister'.stay : b \in Beyond(chain', lister'.next)
  BY <1>1, <1>2, SameLists
     DEF Registry!makers, RegistryInv, Registry!ChainSound, Registry!Linked, Beyond
<1>6. Course'
  BY <1>2, <1>3, <1>5 DEF Course, Registry!ObjectsAssumption
<1> QED BY <1>1, <1>2, <1>4, <1>6, Lists

LEMMA GetStep ==
    ASSUME Registry!ObjectsAssumption, RegistryInv, Registry!GetNext
    PROVE  RegistryInv'
<1> DEFINE from == Registry!After(lister.next)
           got == Batched(chain, from, Batch)
           next == IF Len(got) = Batch THEN Last(got) ELSE Null
           ahead == {chain[i] : i \in from..Len(chain)}
<1>1. /\ lister.at = "get" /\ lister.next \in {List} \union (typed \intersect Registry!Linked)
      /\ lister' = [lister EXCEPT !.at = "show", !.todo = got, !.next = next,
                        !.met = @ \/ (Len(got) = Batch /\ Last(got) \notin typed)]
      /\ UNCHANGED Registry!makers
  BY DEF Registry!GetNext, Batched, Registry!Last, Last
<1>2. /\ chain \in Seq(Registry!Blocks) /\ IsInjective(chain)
      /\ Range(chain) = {x \in Registry!Blocks : life[x] \in {"linked", "leaving"}}
      /\ lister.next = List \/ lister.next \in Range(chain)
  BY <1>1, SameLists DEF RegistryInv, Registry!ChainSound, Registry!TypeOK, Registry!Linked
<1>3. List \notin Registry!Blocks /\ Null \notin Registry!Blocks /\ Batch \in Nat \ {0}
  BY DEF Registry!ObjectsAssumption
<1>4. from \in 1..Len(chain) + 1 /\ Beyond(chain, lister.next) = ahead
  <2>1. from = Origin(chain, lister.next)
    BY DEF Registry!After, Origin
  <2> HIDE DEF from
  <2> QED BY <2>1, <1>2, <1>3, BeyondFrom
<1> HIDE DEF from
<1>5. /\ got \in Seq(Registry!Blocks) /\ IsInjective(got) /\ Range(got) \subseteq ahead
      /\ Len(got) = Batch => Last(got) \in Range(chain)
                             /\ Beyond(chain, Last(got)) = ahead \ Range(got)
      /\ Len(got) # Batch => Range(got) = ahead
  BY <1>2, <1>3, <1>4, BatchLemma
<1> HIDE DEF got
<1>6. next \in Registry!Blocks \union {Null} /\ Beyond(chain, next) = ahead \ Range(got)
  <2>1. CASE Len(got) = Batch
    BY <2>1, <1>2, <1>5
  <2>2. CASE Len(got) # Batch
    <3>1. \A i \in DOMAIN chain : chain[i] # Null
      BY <1>2, <1>3
    <3>2. Null # List
      BY DEF Registry!ObjectsAssumption
    <3>3. Beyond(chain, Null) = {}
      BY <3>1, <3>2 DEF Beyond
    <3> QED BY <2>2, <3>3, <1>5
  <2> QED BY <2>1, <2>2
<1>7. /\ lister \in [at : {"off", "get", "show", "done", "wild"},
                     next : Registry!Blocks \union {List, Null}, todo : Seq(Registry!Blocks),
                     stay : SUBSET Registry!Blocks, shown : SUBSET Registry!Blocks,
                     met : BOOLEAN]
      /\ lister.shown \subseteq lister.stay
  BY DEF RegistryInv, Registry!ChainSound, Registry!TypeOK
<1>8. /\ lister'.at = "show" /\ lister'.todo = got /\ lister'.next = next
      /\ lister'.stay = lister.stay /\ lister'.shown = lister.shown
      /\ lister'.met <=> lister.met \/ (Len(got) = Batch /\ Last(got) \notin typed)
  BY <1>1, <1>7
<1> HIDE DEF ahead
<1>9. lister' \in [at : {"off", "get", "show", "done", "wild"},
                   next : Registry!Blocks \union {List, Null}, todo : Seq(Registry!Blocks),
                   stay : SUBSET Registry!Blocks, shown : SUBSET Registry!Blocks, met : BOOLEAN]
  BY <1>1, <1>5, <1>6, <1>7
<1>10. ASSUME ~lister'.met, next \in Registry!Blocks PROVE life[next] = "linked"
  <2>1. Len(got) = Batch /\ next = Last(got) /\ next \in typed
    BY <1>3, <1>8, <1>10
  <2>2. life[next] \in {"linked", "leaving"}
    BY <1>2, <1>5, <2>1
  <2> QED BY <1>10, <2>1, <2>2 DEF RegistryInv, UsesAgree
<1> HIDE DEF next
<1>11. Course'
  <2>1. Course /\ chain' = chain /\ life' = life
    BY <1>1 DEF RegistryInv, Registry!makers
  <2>2. ASSUME ~lister'.met
        PROVE  /\ \A b \in lister.stay : b \in ahead <=> b \notin lister.shown
               /\ \A b \in Range(got) : b \in lister.stay => b \notin lister.shown
    <3>1. /\ ~lister.met /\ lister.todo = <<>>
          /\ \A b \in lister.stay :
                (b \in ahead <=> b \notin lister.shown /\ b \notin Range(lister.todo))
      BY <1>1, <1>4, <1>8, <2>1, <2>2 DEF Course
    <3>2. Range(<<>>) = {}
      BY DEF Range
    <3> QED BY <1>5, <3>1, <3>2
  <2>3. ASSUME ~lister'.met, NEW b \in lister.stay
        PROVE  b \in Beyond(chain, next) <=> b \notin lister.shown /\ b \notin Range(got)
    BY <1>6, <2>2, <2>3
  <2> QED BY <1>5, <1>7, <1>8, <1>10, <2>1, <2>2, <2>3 DEF Course
<1>12. \A b \in lister'.stay : life[b] = "linked"
  BY <1>7, <1>8 DEF RegistryInv, UsesAgree
<1> QED BY <1>1, <1>7, <1>8, <1>9, <1>11, <1>12, Lists

\* The end of the listing, or the block it goes on from is not there any more.
LEMMA LostStep ==
    ASSUME Registry!ObjectsAssumption, RegistryInv, Registry!GetNothing \/ Registry!GetStray
    PROVE  RegistryInv'
<1>1. /\ lister \in [at : {"off", "get", "show", "done", "wild"},
                     next : Registry!Blocks \union {List, Null}, todo : Seq(Registry!Blocks),
                     stay : SUBSET Registry!Blocks, shown : SUBSET Registry!Blocks,
                     met : BOOLEAN]
      /\ lister.shown \subseteq lister.stay /\ Course
      /\ \A b \in lister.stay : life[b] = "linked"
  BY DEF RegistryInv, Registry!ChainSound, Registry!TypeOK, UsesAgree
<1>2. lister.at = "get" /\ UNCHANGED Registry!makers
  BY DEF Registry!GetNothing, Registry!GetStray
<1>3. lister.met
  <2>1. lister.next # List
    <3>1. typed \subseteq Registry!Blocks /\ List \notin Registry!Blocks
      BY DEF RegistryInv, Registry!ChainSound, Registry!TypeOK, Registry!ObjectsAssumption
    <3> QED BY <3>1 DEF Registry!GetNothing, Registry!GetStray
  <2>2. ASSUME ~lister.met PROVE FALSE
    <3>1. lister.next \in Registry!Blocks /\ life[lister.next] = "linked"
      BY <1>1, <1>2, <2>1, <2>2 DEF Course
    <3>2. lister.next \in typed /\ lister.next \in Registry!Linked
      BY <3>1 DEF RegistryInv, UsesAgree, Registry!ChainSound
    <3> QED BY <2>1, <3>2 DEF Registry!GetNothing, Registry!GetStray
  <2> QED BY <2>2
<1>4. \/ lister' = [lister EXCEPT !.at = "done"]
      \/ lister' = [lister EXCEPT !.at = "wild"]
      \/ /\ lister.next \in Registry!Blocks
         /\ lister' = [lister EXCEPT !.at = "show", !.todo = [i \in 1..Batch |-> lister.next]]
  <2>1. typed \subseteq Registry!Blocks
    BY DEF RegistryInv, Registry!ChainSound, Registry!TypeOK
  <2> QED BY <2>1 DEF Registry!GetNothing, Registry!GetStray
<1>5. ASSUME lister.next \in Registry!Blocks
      PROVE  [i \in 1..Batch |-> lister.next] \in Seq(Registry!Blocks)
  <2>1. Batch \in Nat
    BY DEF Registry!ObjectsAssumption
  <2> QED BY <2>1, <1>5
<1>6. /\ lister' \in [at : {"off", "get", "show", "done", "wild"},
                      next : Registry!Blocks \union {List, Null}, todo : Seq(Registry!Blocks),
                      stay : SUBSET Registry!Blocks, shown : SUBSET Registry!Blocks,
                      met : BOOLEAN]
      /\ lister'.stay = lister.stay /\ lister'.shown = lister.shown /\ lister'.met
      /\ lister'.at # "show" => lister'.todo = lister.todo
  BY <1>1, <1>3, <1>4, <1>5
<1>7. Course'
  BY <1>1, <1>2, <1>6 DEF Course
<1> QED BY <1>1, <1>2, <1>6, <1>7, Lists

LEMMA ShowStep ==
    ASSUME RegistryInv, Registry!Show
    PROVE  RegistryInv'
<1> DEFINE h == Head(lister.todo)
<1>1. /\ lister.at = "show" /\ lister.todo # <<>> /\ UNCHANGED Registry!makers
      /\ lister' = [lister EXCEPT !.todo = Tail(@),
                        !.shown = @ \union ({h} \intersect typed \intersect lister.stay)]
  BY DEF Registry!Show
<1>2. /\ lister \in [at : {"off", "get", "show", "done", "wild"},
                     next : Registry!Blocks \union {List, Null}, todo : Seq(Registry!Blocks),
                     stay : SUBSET Registry!Blocks, shown : SUBSET Registry!Blocks,
                     met : BOOLEAN]
      /\ lister.shown \subseteq lister.stay /\ Course
      /\ \A b \in lister.stay : life[b] = "linked" /\ b \in typed
  BY DEF RegistryInv, Registry!ChainSound, Registry!TypeOK, UsesAgree
<1>3. /\ Tail(lister.todo) \in Seq(Registry!Blocks)
      /\ \A x : x \in Range(lister.todo) <=> x \in Range(Tail(lister.todo)) \/ x = h
      /\ IsInjective(lister.todo) => IsInjective(Tail(lister.todo))
                                       /\ h \notin Range(Tail(lister.todo))
  <2> DEFINE l == lister.todo
             r == Tail(l)
  <2>1. /\ l \in Seq(Registry!Blocks) /\ l # <<>> /\ r \in Seq(Registry!Blocks)
        /\ Len(l) \in Nat \ {0} /\ Len(r) = Len(l) - 1 /\ h = l[1]
        /\ \A i \in 1..Len(r) : r[i] = l[i + 1]
    BY <1>1, <1>2
  <2> HIDE DEF l, r, h
  <2>2. DOMAIN l = 1..Len(l) /\ DOMAIN r = 1..Len(l) - 1 /\ 1 \in DOMAIN l
    BY <2>1
  <2>3. \A i \in DOMAIN r : i + 1 \in DOMAIN l /\ i + 1 # 1 /\ r[i] = l[i + 1]
    BY <2>1, <2>2
  <2>4. \A i \in DOMAIN l : i # 1 => i - 1 \in DOMAIN r /\ r[i - 1] = l[i]
    BY <2>1, <2>2
  <2>5. \A i, j \in DOMAIN r : i + 1 = j + 1 => i = j
    BY <2>2
  <2>6. \A x : x \in Range(l) <=> x \in Range(r) \/ x = h
    <3>1. \A x \in Range(l) : x \in Range(r) \/ x = h
      BY <2>1, <2>4 DEF Range
    <3>2. h \in Range(l) /\ \A x \in Range(r) : x \in Range(l)
      BY <2>1, <2>2, <2>3 DEF Range
    <3> QED BY <3>1, <3>2
  <2>7. IsInjective(l) => IsInjective(r) /\ h \notin Range(r)
    BY <2>1, <2>2, <2>3, <2>5 DEF IsInjective, Range
  <2> QED BY <2>1, <2>6, <2>7 DEF l, r
<1>4. /\ lister' \in [at : {"off", "get", "show", "done", "wild"},
                      next : Registry!Blocks \union {List, Null}, todo : Seq(Registry!Blocks),
                      stay : SUBSET Registry!Blocks, shown : SUBSET Registry!Blocks,
                      met : BOOLEAN]
      /\ lister'.stay = lister.stay /\ lister'.met = lister.met /\ lister'.next = lister.next
      /\ lister'.at = "show" /\ lister'.todo = Tail(lister.todo)
      /\ lister'.shown = lister.shown \union ({h} \intersect lister.stay)
  BY <1>1, <1>2, <1>3
<1>5. Course'
  <2>1. chain' = chain /\ life' = life
    BY <1>1 DEF Registry!makers
  <2> HIDE DEF h
  <2>2. ASSUME ~lister.met
        PROVE  \A b \in Range(Tail(lister.todo)) : b \notin lister'.shown
    <3>1. \A b \in Range(lister.todo) : b \notin lister.shown
      BY <1>2, <2>2 DEF Course
    <3>2. IsInjective(lister.todo)
      BY <1>2, <2>2 DEF Course
    <3> QED BY <1>3, <1>4, <3>1, <3>2
  <2>3. ASSUME NEW b \in lister.stay
        PROVE  b \notin lister'.shown /\ b \notin Range(Tail(lister.todo))
                 <=> b \notin lister.shown /\ b \notin Range(lister.todo)
    BY <1>3, <1>4, <2>3
  <2> QED BY <1>1, <1>2, <1>3, <1>4, <2>1, <2>2, <2>3 DEF Course
<1> QED BY <1>1, <1>2, <1>4, <1>5, Lists

LEMMA ShownStep ==
    ASSUME Registry!ObjectsAssumption, RegistryInv, Registry!Shown
    PROVE  RegistryInv'
<1>1. /\ lister.at = "show" /\ lister.todo = <<>> /\ UNCHANGED Registry!makers
      /\ lister' = [lister EXCEPT !.at = IF lister.next = Null THEN "done" ELSE "get"]
  BY DEF Registry!Shown
<1>2. /\ lister \in [at : {"off", "get", "show", "done", "wild"},
                     next : Registry!Blocks \union {List, Null}, todo : Seq(Registry!Blocks),
                     stay : SUBSET Registry!Blocks, shown : SUBSET Registry!Blocks,
                     met : BOOLEAN]
      /\ lister.shown \subseteq lister.stay /\ Course
      /\ \A b \in lister.stay : life[b] = "linked"
  BY DEF RegistryInv, Registry!ChainSound, Registry!TypeOK, UsesAgree
<1>3. /\ lister' \in [at : {"off", "get", "show", "done", "wild"},
                      next : Registry!Blocks \union {List, Null}, todo : Seq(Registry!Blocks),
                      stay : SUBSET Registry!Blocks, shown : SUBSET Registry!Blocks,
                      met : BOOLEAN]
      /\ lister'.stay = lister.stay /\ lister'.met = lister.met /\ lister'.next = lister.next
      /\ lister'.todo = lister.todo /\ lister'.shown = lister.shown
      /\ lister'.at = IF lister.next = Null THEN "done" ELSE "get"
  BY <1>1, <1>2
<1>4. Beyond(chain, Null) = {}
  <2>1. chain \in Seq(Registry!Blocks)
    BY DEF RegistryInv, Registry!ChainSound, Registry!TypeOK
  <2>2. Null # List /\ \A i \in DOMAIN chain : chain[i] # Null
    BY <2>1 DEF Registry!ObjectsAssumption
  <2> QED BY <2>2 DEF Beyond
<1>5. Course'
  <2>1. chain' = chain /\ life' = life
    BY <1>1 DEF Registry!makers
  <2>2. Range(<<>>) = {}
    BY DEF Range
  <2>3. ~lister.met /\ lister.next = Null => lister.stay = lister.shown
    BY <1>1, <1>2, <1>4, <2>2 DEF Course
  <2> QED BY <1>1, <1>2, <1>3, <2>1, <2>3 DEF Course
<1> QED BY <1>1, <1>2, <1>3, <1>5, Lists
-----------------------------------------------------------------------------
LEMMA RegistryStarts == Registry!Init => RegistryInv
<1> SUFFICES ASSUME Registry!Init PROVE RegistryInv
  OBVIOUS
<1>1. <<>> \in Seq(Registry!Blocks) /\ Range(<<>>) = {} /\ IsInjective(<<>>)
  BY EmptySeq DEF Range, IsInjective
<1>2. Registry!ChainSound
  BY <1>1, SameLists DEF Registry!Init, Registry!ChainSound, Registry!TypeOK, Registry!Linked
<1>3. UsesAgree /\ Course
  BY <1>1 DEF Registry!Init, UsesAgree, Course
<1> QED BY <1>2, <1>3 DEF RegistryInv

LEMMA RegistrySteps ==
    Registry!ObjectsAssumption /\ RegistryInv /\ [Registry!Next]_Registry!vars => RegistryInv'
<1> SUFFICES ASSUME Registry!ObjectsAssumption, RegistryInv, [Registry!Next]_Registry!vars
             PROVE  RegistryInv'
  OBVIOUS
<1>1. CASE UNCHANGED Registry!vars
  BY <1>1 DEF Registry!vars, RegistryInv, Registry!ChainSound, Registry!TypeOK, Registry!Linked,
              UsesAgree, Course
<1>2. ASSUME NEW b \in Registry!Blocks,
             \/ Registry!InitType(b) \/ Registry!AllocateType(b) \/ Registry!Link(b)
             \/ Registry!ClearType(b) \/ Registry!Unlink(b)
             \/ Registry!Reuse(b) \/ Registry!Free(b)
      PROVE  RegistryInv'
  BY <1>2, TypeStep, LinkStep, ClearStep, UnlinkStep, ReuseStep
<1>3. ASSUME \/ Registry!Begin \/ Registry!GetNext \/ Registry!GetNothing
             \/ Registry!GetStray \/ Registry!Show \/ Registry!Shown
      PROVE  RegistryInv'
  BY <1>3, BeginStep, GetStep, LostStep, ShowStep, ShownStep
<1> QED BY <1>1, <1>2, <1>3 DEF Registry!Next

\* What the run checks of a state.
LEMMA RegistrySays == RegistryInv => Registry!ChainSound /\ Registry!ListingComplete
BY SameLists DEF RegistryInv, Course, Registry!ListingComplete

-----------------------------------------------------------------------------
(* The cells of the input line                                              *)

Row == [1..Size -> Typed \union {Nul}]

\* A text as the shell types it.
Words == {s \in Seq(Typed) : Len(s) < Size}

\* strlen of the cells l is n.
Ends(l, n) ==
    /\ n \in 0..Size
    /\ \A i \in 1..n : l[i] # Nul
    /\ n < Size => l[n + 1] = Nul

\* The cells l with p of them used and the cursor behind c of these.  Unless the
\* last cell is in use the others are clear.
Ready(l, p, c) ==
    /\ l \in Row /\ p \in 0..Size - 1 /\ c \in 0..p
    /\ \A i \in 1..p : l[i] # Nul
    /\ l[Size] = Nul => \A i \in p + 1..Size : l[i] = Nul

Cut(l, n) == SubSeq(l, 1, n)

\* The cells when a byte is taken out at the cursor, and when x goes in there.
WithoutByte(l, p, c) ==
    [i \in 1..Size |-> IF i = p THEN Nul
                       ELSE IF i \in c..p - 1 THEN l[i + 1] ELSE l[i]]
WithByte(l, p, c, x) ==
    [i \in 1..Size |-> IF i = c + 1 THEN x
                       ELSE IF i \in c + 2..p + 1 THEN l[i - 1] ELSE l[i]]

\* Line is a shell.
Limits == Nul \notin Typed /\ Size \in Nat \ {0} /\ Lines \in Nat \ {0}

\* The library's operators under the instances' names.
LEMMA SameWords ==
    /\ \A x, y : (Line!IsPrefix(x, y) <=> IsPrefix(x, y))
                 /\ (Editor!IsPrefix(x, y) <=> IsPrefix(x, y))
    /\ \A x : Line!Last(x) = Last(x) /\ Editor!Last(x) = Last(x) /\ Line!Range(x) = Range(x)
    /\ \A x, k : Editor!RemoveAt(x, k) = RemoveAt(x, k)
    /\ \A x, k, y : Editor!InsertAt(x, k, y) = InsertAt(x, k, y)
    /\ \A S : Line!Min(S) = Min(S)
BY DEF IsPrefix, Last, Range, RemoveAt, InsertAt, Min, Line!IsPrefix, Editor!IsPrefix,
       Line!Last, Editor!Last, Line!Range, Editor!RemoveAt, Editor!InsertAt, Line!Min

LEMMA WordsLemma ==
    ASSUME Limits
    PROVE  Words = Line!BoundedSeq(Typed, Size - 1) /\ Words = Editor!BoundedSeq(Typed, Size - 1)
<1>1. \A s : s \in Words => s \in UNION {[1..m -> Typed] : m \in 0..Size - 1}
  <2> TAKE s
  <2>1. s \in Words => s \in [1..Len(s) -> Typed] /\ Len(s) \in 0..Size - 1
    BY DEF Words, Limits
  <2> QED BY <2>1
<1>2. \A s : s \in UNION {[1..m -> Typed] : m \in 0..Size - 1} => s \in Words
  <2> SUFFICES ASSUME NEW m \in 0..Size - 1, NEW s \in [1..m -> Typed] PROVE s \in Words
    OBVIOUS
  <2>1. s \in Seq(Typed) /\ Len(s) = m
    OBVIOUS
  <2> QED BY <2>1 DEF Words, Limits
<1> QED BY <1>1, <1>2 DEF Line!BoundedSeq, Line!SeqOf, Editor!BoundedSeq, Editor!SeqOf

\* The first cells of a line, as a text.
LEMMA CutLemma ==
    ASSUME Limits, NEW l \in Row, NEW n \in 0..Size, \A i \in 1..n : l[i] # Nul
    PROVE  /\ Cut(l, n) \in Seq(Typed) /\ Len(Cut(l, n)) = n
           /\ \A i \in 1..n : Cut(l, n)[i] = l[i]
<1>1. \A i \in 1..n : l[i] \in Typed
  BY DEF Row, Limits
<1>2. /\ Cut(l, n) \in Seq(Typed) /\ Len(Cut(l, n)) = IF 1 <= n THEN n - 1 + 1 ELSE 0
      /\ \A i \in 1..n - 1 + 1 : Cut(l, n)[i] = l[1 + i - 1]
  BY <1>1, SubSeqProperties DEF Cut
<1>3. n \in Nat
  BY DEF Limits
<1> QED BY <1>2, <1>3

LEMMA CutReady ==
    ASSUME Limits, NEW l, NEW p, NEW c, Ready(l, p, c)
    PROVE  /\ Cut(l, p) \in Seq(Typed) /\ Len(Cut(l, p)) = p
           /\ \A i \in 1..p : Cut(l, p)[i] = l[i]
<1>1. l \in Row /\ p \in 0..Size /\ \A i \in 1..p : l[i] # Nul
  BY DEF Ready, Limits
<1> QED BY <1>1, CutLemma

LEMMA EndsOnce ==
    ASSUME Limits, NEW l, NEW m, NEW n, Ends(l, m), Ends(l, n)
    PROVE  m = n
BY DEF Ends, Limits

LEMMA LengthLemma ==
    ASSUME Limits, NEW l \in Row
    PROVE  Ends(l, Line!Length(l))
<1> DEFINE a == Append(l, Nul)
           I == {i \in 1..Len(a) : a[i] = Nul}
<1>1. l \in Seq(Typed \union {Nul}) /\ Len(l) = Size
  BY DEF Row, Limits
<1>2. /\ Len(a) = Size + 1 /\ a[Size + 1] = Nul
      /\ \A i \in 1..Size : a[i] = l[i]
  BY <1>1, AppendProperties
<1>3. Size + 1 \in I /\ I \in SUBSET Nat
  BY <1>2 DEF Limits
<1>4. Line!Length(l) = Min(I) - 1
  BY <1>3, SameWords DEF Line!Length, Line!SelectInSeq
<1>5. Min(I) \in I /\ \A y \in I : Min(I) =< y
  BY <1>3, FirstLemma
<1> DEFINE n == Min(I)
<1>6. n \in 1..Size + 1 /\ a[n] = Nul /\ \A i \in 1..Size : a[i] = Nul => n =< i
  <2>1. n \in 1..Len(a) /\ a[n] = Nul
    BY <1>5
  <2>2. ASSUME NEW i \in 1..Size, a[i] = Nul PROVE n =< i
    <3>1. i \in I
      BY <1>2, <2>2 DEF Limits
    <3> QED BY <1>5, <3>1
  <2> QED BY <1>2, <2>1, <2>2
<1> HIDE DEF I, a, n
<1>7. Ends(l, n - 1)
  <2>1. n \in Nat /\ Size \in Nat /\ n >= 1 /\ n =< Size + 1
    BY <1>6 DEF Limits
  <2>2. \A i \in 1..n - 1 : l[i] # Nul
    BY <1>2, <1>6, <2>1
  <2>3. n - 1 < Size => l[(n - 1) + 1] = Nul
    BY <1>2, <1>6, <2>1
  <2> QED BY <2>1, <2>2, <2>3 DEF Ends
<1> QED BY <1>4, <1>7 DEF n

\* A text in cells, and read from them again.
LEMMA CellsOfText ==
    ASSUME Limits, NEW s \in Words
    PROVE  /\ Ready(Line!Cells(s), Len(s), Len(s)) /\ Line!Cells(s)[Size] = Nul
           /\ Line!Length(Line!Cells(s)) = Len(s) /\ Cut(Line!Cells(s), Len(s)) = s
<1> DEFINE l == Line!Cells(s)
<1>1. /\ l \in [1..Size -> Typed \union {Nul}] /\ Len(s) \in 0..Size - 1
      /\ \A i \in 1..Size : l[i] = IF i =< Len(s) THEN s[i] ELSE Nul
  <2>1. s \in Seq(Typed) /\ Len(s) \in Nat /\ \A i \in 1..Len(s) : s[i] \in Typed
    BY DEF Words
  <2> QED BY <2>1 DEF Line!Cells, Limits, Words
<1>2. \A i \in 1..Len(s) : l[i] = s[i] /\ s[i] # Nul
  BY <1>1 DEF Words, Limits
<1> HIDE DEF l
<1>3. Ready(l, Len(s), Len(s)) /\ l[Size] = Nul
  <2>1. \A i \in Len(s) + 1..Size : l[i] = Nul
    BY <1>1 DEF Limits
  <2>2. Size \in Len(s) + 1..Size
    BY <1>1 DEF Limits
  <2> QED BY <1>1, <1>2, <2>1, <2>2 DEF Ready, Row
<1>4. Line!Length(l) = Len(s)
  <2>1. Ends(l, Len(s))
    BY <1>1, <1>2 DEF Ends, Limits
  <2> QED BY <1>1, <2>1, LengthLemma, EndsOnce DEF Row
<1>5. Cut(l, Len(s)) = s
  <2>1. /\ Cut(l, Len(s)) \in Seq(Typed) /\ Len(Cut(l, Len(s))) = Len(s)
        /\ \A i \in 1..Len(s) : Cut(l, Len(s))[i] = l[i]
    BY <1>1, <1>2, CutLemma DEF Row, Limits
  <2> QED BY <1>2, <2>1, SeqEqual DEF Words
<1> QED BY <1>3, <1>4, <1>5 DEF l

\* A byte taken out at the cursor.
LEMMA ErasedCells ==
    ASSUME Limits, NEW l, NEW p, NEW c, Ready(l, p, c), c > 0, NEW m,
           m = WithoutByte(l, p, c)
    PROVE  /\ Ready(m, p - 1, c - 1) /\ m[Size] = l[Size]
           /\ Cut(m, p - 1) = RemoveAt(Cut(l, p), c)
<1>1. /\ l \in [1..Size -> Typed \union {Nul}] /\ Size \in Nat \ {0}
      /\ p \in 0..Size - 1 /\ c \in 0..p /\ p > 0
      /\ \A i \in 1..p : l[i] # Nul
      /\ l[Size] = Nul => \A i \in p + 1..Size : l[i] = Nul
  BY DEF Ready, Row, Limits
<1>2. /\ m \in [1..Size -> Typed \union {Nul}] /\ m[Size] = l[Size]
      /\ \A i \in 1..p - 1 : m[i] = IF i < c THEN l[i] ELSE l[i + 1]
      /\ m[p] = Nul /\ \A i \in p + 1..Size : m[i] = l[i]
  BY <1>1 DEF WithoutByte
<1>3. Ready(m, p - 1, c - 1)
  <2>1. \A i \in 1..p - 1 : m[i] # Nul
    BY <1>1, <1>2
  <2>2. m[Size] = Nul => \A i \in (p - 1) + 1..Size : m[i] = Nul
    BY <1>1, <1>2
  <2> QED BY <1>1, <1>2, <2>1, <2>2 DEF Ready, Row
<1> DEFINE t == Cut(l, p)
           u == Cut(m, p - 1)
<1>4. t \in Seq(Typed) /\ Len(t) = p /\ \A i \in 1..p : t[i] = l[i]
  BY <1>1, CutLemma DEF Row
<1>5. u \in Seq(Typed) /\ Len(u) = p - 1 /\ \A i \in 1..p - 1 : u[i] = m[i]
  BY <1>3, CutReady
<1> HIDE DEF t, u
<1>6. Shorter(RemoveAt(t, c), t, c, Typed)
  BY <1>1, <1>4, RemoveAtShorter
<1>7. u = RemoveAt(t, c)
  <2> DEFINE r == RemoveAt(t, c)
  <2>1. /\ r \in Seq(Typed) /\ Len(r) = p - 1
        /\ \A i \in 1..p - 1 : r[i] = IF i < c THEN t[i] ELSE t[i + 1]
    BY <1>4, <1>6 DEF Shorter
  <2> HIDE DEF r
  <2>2. \A i \in 1..p - 1 : u[i] = r[i]
    <3> TAKE i \in 1..p - 1
    <3>1. i \in 1..p /\ i + 1 \in 1..p
      BY <1>1
    <3>2. u[i] = IF i < c THEN l[i] ELSE l[i + 1]
      BY <1>2, <1>5
    <3>3. r[i] = IF i < c THEN t[i] ELSE t[i + 1]
      BY <2>1
    <3> QED BY <1>4, <3>1, <3>2, <3>3
  <2>3. u = r
    BY <1>5, <2>1, <2>2, SeqEqual
  <2> QED BY <2>3 DEF r
<1> QED BY <1>2, <1>3, <1>7 DEF t, u

\* A byte put in at the cursor.
LEMMA TypedCells ==
    ASSUME Limits, NEW l, NEW p, NEW c, Ready(l, p, c), NEW x \in Typed, NEW m,
           m = WithByte(l, p, c, x)
    PROVE  /\ Longer(InsertAt(Cut(l, p), c + 1, x), Cut(l, p), c + 1, x, Typed)
           /\ p + 1 < Size => /\ Ready(m, p + 1, c + 1) /\ m[Size] = l[Size]
                              /\ Cut(m, p + 1) = InsertAt(Cut(l, p), c + 1, x)
           /\ ~(p + 1 < Size) => Ready(m, 0, 0) /\ m[Size] # Nul
<1>1. /\ l \in [1..Size -> Typed \union {Nul}] /\ Size \in Nat \ {0}
      /\ p \in 0..Size - 1 /\ c \in 0..p /\ x # Nul
      /\ \A i \in 1..p : l[i] # Nul
      /\ l[Size] = Nul => \A i \in p + 1..Size : l[i] = Nul
  BY DEF Ready, Row, Limits
<1>2. /\ m \in [1..Size -> Typed \union {Nul}]
      /\ \A i \in 1..p + 1 : m[i] = IF i < c + 1 THEN l[i] ELSE IF i = c + 1 THEN x ELSE l[i - 1]
      /\ \A i \in p + 2..Size : m[i] = l[i]
  <2>1. \A i \in 1..p + 1 : i \in 1..Size
    BY <1>1
  <2>2. \A i \in p + 2..Size : i \in 1..Size
    BY <1>1
  <2>3. m \in [1..Size -> Typed \union {Nul}]
    BY <1>1 DEF WithByte
  <2> QED BY <1>1, <2>1, <2>2, <2>3 DEF WithByte
<1>3. \A i \in 1..p + 1 : m[i] # Nul
  BY <1>1, <1>2
<1> DEFINE t == Cut(l, p)
           r == InsertAt(t, c + 1, x)
<1>4. t \in Seq(Typed) /\ Len(t) = p /\ \A i \in 1..p : t[i] = l[i]
  BY <1>1, CutLemma DEF Row
<1> HIDE DEF t
<1>5. Longer(r, t, c + 1, x, Typed)
  BY <1>1, <1>4, InsertAtLonger
<1> HIDE DEF r
<1>6. ASSUME p + 1 < Size
      PROVE  Ready(m, p + 1, c + 1) /\ m[Size] = l[Size] /\ Cut(m, p + 1) = r
  <2>1. p + 1 \in 0..Size - 1 /\ c + 1 \in 0..p + 1 /\ Size \in p + 2..Size
    BY <1>1, <1>6
  <2>2. m[Size] = Nul => \A i \in (p + 1) + 1..Size : m[i] = Nul
    BY <1>1, <1>2, <2>1
  <2>3. Ready(m, p + 1, c + 1)
    BY <1>2, <1>3, <2>1, <2>2 DEF Ready, Row
  <2>4. /\ Cut(m, p + 1) \in Seq(Typed) /\ Len(Cut(m, p + 1)) = p + 1
        /\ \A i \in 1..p + 1 : Cut(m, p + 1)[i] = m[i]
    <3> DEFINE q == p + 1
    <3>1. Ready(m, q, c + 1)
      BY <2>3
    <3> HIDE DEF q
    <3>2. /\ Cut(m, q) \in Seq(Typed) /\ Len(Cut(m, q)) = q
          /\ \A i \in 1..q : Cut(m, q)[i] = m[i]
      BY <3>1, CutReady
    <3> QED BY <3>2 DEF q
  <2>5. /\ r \in Seq(Typed) /\ Len(r) = p + 1
        /\ \A i \in 1..p + 1 : r[i] = IF i < c + 1 THEN t[i] ELSE IF i = c + 1 THEN x ELSE t[i - 1]
    BY <1>4, <1>5 DEF Longer
  <2>6. \A i \in 1..p + 1 : r[i] = m[i]
    BY <1>1, <1>2, <1>4, <2>5
  <2>7. Cut(m, p + 1) = r
    BY <2>4, <2>5, <2>6, SeqEqual
  <2> QED BY <1>2, <2>1, <2>3, <2>7
<1>7. ASSUME ~(p + 1 < Size) PROVE Ready(m, 0, 0) /\ m[Size] # Nul
  <2>1. Size = p + 1
    BY <1>1, <1>7
  <2> QED BY <1>1, <1>2, <1>3, <2>1 DEF Ready, Row
<1> QED BY <1>5, <1>6, <1>7 DEF t, r

-----------------------------------------------------------------------------
(* What Tab makes of the line                                               *)

LEMMA PrefixLemma ==
    ASSUME NEW S, NEW s \in Seq(S), NEW t \in Seq(S)
    PROVE  IsPrefix(s, t) <=> (Len(s) =< Len(t) /\ \A i \in 1..Len(s) : s[i] = t[i])
<1> SUFFICES ASSUME Len(s) =< Len(t)
             PROVE  SubSeq(s, 1, Len(s)) = SubSeq(t, 1, Len(s)) <=>
                       \A i \in 1..Len(s) : s[i] = t[i]
  BY DEF IsPrefix
<1> DEFINE n == Len(s)
           a == SubSeq(s, 1, n)
           b == SubSeq(t, 1, n)
<1>1. n \in Nat /\ n =< Len(t) /\ n = Len(s)
  OBVIOUS
<1>2. /\ a \in Seq(S) /\ Len(a) = n /\ \A i \in 1..n : a[i] = s[i]
      /\ b \in Seq(S) /\ Len(b) = n /\ \A i \in 1..n : b[i] = t[i]
  <2>1. \A i \in 1..n : s[i] \in S /\ t[i] \in S
    BY <1>1
  <2> HIDE DEF n
  <2>2. /\ a \in Seq(S) /\ Len(a) = IF 1 <= n THEN n - 1 + 1 ELSE 0
        /\ \A i \in 1..n - 1 + 1 : a[i] = s[1 + i - 1]
    BY <1>1, <2>1, SubSeqProperties
  <2>3. /\ b \in Seq(S) /\ Len(b) = IF 1 <= n THEN n - 1 + 1 ELSE 0
        /\ \A i \in 1..n - 1 + 1 : b[i] = t[1 + i - 1]
    BY <1>1, <2>1, SubSeqProperties
  <2> QED BY <1>1, <2>2, <2>3
<1> HIDE DEF n, a, b
<1>3. (\A i \in 1..n : s[i] = t[i]) => a = b
  BY <1>2, SeqEqual
<1>4. a = b => \A i \in 1..n : s[i] = t[i]
  BY <1>2
<1> QED BY <1>3, <1>4 DEF n, a, b

\* What commands have in common is there, and no shorter than a text they all
\* begin with.
LEMMA CommonLemma ==
    ASSUME Limits, NEW C \in SUBSET Words, C # {}, NEW s \in Words,
           \A c \in C : IsPrefix(s, c)
    PROVE  /\ Line!LongestCommonPrefix(C) \in Words
           /\ IsPrefix(s, Line!LongestCommonPrefix(C))
<1> DEFINE P == Line!CommonPrefixes(C)
<1>1. PICK c0 \in C : TRUE
  OBVIOUS
<1>2. \A c \in C : c \in Seq(Typed) /\ Len(c) \in Nat /\ Len(c) < Size
  BY DEF Words
<1>3. s \in Seq(Typed) /\ Len(s) \in Nat /\ Len(s) =< Len(c0)
  BY <1>1, <1>2, PrefixLemma DEF Words
<1>4. s \in P
  <2>1. s = SubSeq(c0, 1, Len(s)) /\ Len(s) \in 0..Len(c0)
    <3>1. SubSeq(s, 1, Len(s)) = SubSeq(c0, 1, Len(s))
      BY <1>1 DEF IsPrefix
    <3>2. SubSeq(s, 1, Len(s)) = s
      BY <1>3
    <3> QED BY <1>2, <1>3, <3>1, <3>2
  <2>2. s \in Line!Prefixes(c0)
    BY <2>1 DEF Line!Prefixes
  <2> QED BY <1>1, <2>2, SameWords DEF Line!CommonPrefixes
<1>5. \A p \in P : p \in Seq(Typed) /\ Len(p) =< Len(c0) /\ IsPrefix(p, c0)
  <2> SUFFICES ASSUME NEW p \in P PROVE p \in Seq(Typed) /\ Len(p) =< Len(c0) /\ IsPrefix(p, c0)
    OBVIOUS
  <2>1. PICK c \in C : p \in Line!Prefixes(c)
    BY DEF Line!CommonPrefixes
  <2>2. PICK n \in 0..Len(c) : p = SubSeq(c, 1, n)
    BY <2>1 DEF Line!Prefixes
  <2>3. c \in Seq(Typed) /\ n \in Int /\ \A i \in 1..n : c[i] \in Typed
    BY <1>2, <2>1, <2>2
  <2>4. p \in Seq(Typed)
    BY <2>2, <2>3, SubSeqProperties
  <2>5. IsPrefix(p, c0)
    BY <1>1, SameWords DEF Line!CommonPrefixes
  <2> QED BY <2>4, <2>5 DEF IsPrefix
<1> HIDE DEF P
<1>6. PICK q \in P : \A p \in P : Len(p) =< Len(q)
  <2> DEFINE D == {Len(c0) - Len(p) : p \in P}
  <2>1. D \in SUBSET Nat /\ D # {}
    <3>1. \A p \in P : Len(p) \in Nat /\ Len(p) =< Len(c0) /\ Len(c0) \in Nat
      BY <1>1, <1>2, <1>5
    <3>2. \A p \in P : Len(c0) - Len(p) \in Nat
      BY <3>1
    <3> QED BY <1>4, <3>2
  <2>2. Min(D) \in D /\ \A y \in D : Min(D) =< y
    BY <2>1, FirstLemma
  <2>3. PICK q \in P : Min(D) = Len(c0) - Len(q)
    BY <2>2
  <2>4. ASSUME NEW p \in P PROVE Len(p) =< Len(q)
    <3>1. Len(c0) - Len(q) =< Len(c0) - Len(p)
      BY <2>2, <2>3
    <3>2. Len(c0) \in Nat /\ Len(p) \in Nat /\ Len(q) \in Nat
      BY <1>1, <1>2, <1>5
    <3> QED BY <3>1, <3>2
  <2> QED BY <2>4
<1> DEFINE r == Line!LongestCommonPrefix(C)
<1>7. r \in P /\ \A p \in P : Len(p) =< Len(r)
  BY <1>6 DEF Line!LongestCommonPrefix, P
<1> HIDE DEF r
<1>8. r \in Words
  <2>1. r \in Seq(Typed) /\ Len(r) \in Nat /\ Len(r) =< Len(c0)
    BY <1>5, <1>7
  <2> QED BY <1>1, <1>2, <2>1 DEF Words, Limits
<1>9. IsPrefix(s, r)
  <2>1. Len(s) =< Len(r) /\ r \in Seq(Typed) /\ IsPrefix(r, c0) /\ IsPrefix(s, c0)
    BY <1>1, <1>4, <1>5, <1>7
  <2>2. \A i \in 1..Len(s) : s[i] = c0[i]
    BY <1>1, <1>2, <1>3, <2>1, PrefixLemma
  <2>3. \A i \in 1..Len(r) : r[i] = c0[i]
    BY <1>1, <1>2, <2>1, PrefixLemma
  <2>4. Len(r) \in Nat
    BY <2>1
  <2>5. \A i \in 1..Len(s) : s[i] = r[i]
    BY <1>3, <2>1, <2>2, <2>3, <2>4
  <2> QED BY <1>3, <2>1, <2>5, PrefixLemma
<1> QED BY <1>8, <1>9 DEF r

LEMMA CompletedLemma ==
    ASSUME Limits, Commands \subseteq Words, NEW s \in Words
    PROVE  Line!Completed(s) \in Words /\ IsPrefix(s, Line!Completed(s))
<1> DEFINE C == {c \in Commands : IsPrefix(s, c)}
<1>1. Line!Completed(s) = IF s = <<>> \/ C = {} THEN s ELSE Line!LongestCommonPrefix(C)
  <2>1. C = {c \in Commands : Line!IsPrefix(s, c)}
    BY SameWords
  <2> QED BY <2>1 DEF Line!Completed
<1>2. IsPrefix(s, s)
  BY PrefixLemma DEF Words
<1>3. C \in SUBSET Words /\ \A c \in C : IsPrefix(s, c)
  OBVIOUS
<1> HIDE DEF C
<1> QED BY <1>1, <1>2, <1>3, CommonLemma

\* The line when Tab was pressed, if strlen stayed inside.
LEMMA TabbedLemma ==
    ASSUME Limits, Commands \subseteq Words, Ready(line, pos, cur), Line!Length(line) < Size
    PROVE  LET l == Line!Tabbed
               m == Line!Length(l)
           IN  /\ line[Size] = Nul => m < Size
               /\ m < Size => /\ Ready(l, m, m) /\ l[Size] = line[Size]
                              /\ Cut(l, m) \in Words /\ IsPrefix(Cut(line, pos), Cut(l, m))
<1> DEFINE n == Line!Length(line)
           t == Cut(line, n)
           s == Line!Completed(t)
           l == Line!Tabbed
           m == Line!Length(l)
<1>1. /\ line \in [1..Size -> Typed \union {Nul}] /\ Size \in Nat \ {0}
      /\ pos \in 0..Size - 1 /\ \A i \in 1..pos : line[i] # Nul
      /\ line[Size] = Nul => \A i \in pos + 1..Size : line[i] = Nul
  BY DEF Ready, Row, Limits
<1>2. Ends(line, n) /\ n \in 0..Size - 1
  <2>1. Ends(line, n)
    BY <1>1, LengthLemma DEF Row
  <2> QED BY <1>1, <2>1 DEF Ends
<1>3. l = [i \in 1..Size |-> IF i =< Len(s) THEN s[i] ELSE line[i]]
  BY DEF Line!Tabbed, Cut
<1> HIDE DEF n
<1>4. pos =< n
  BY <1>1, <1>2 DEF Ends
<1>5. t \in Words /\ Len(t) = n /\ \A i \in 1..n : t[i] = line[i]
  <2>1. n \in 0..Size /\ \A i \in 1..n : line[i] # Nul
    BY <1>2 DEF Ends
  <2>2. t \in Seq(Typed) /\ Len(t) = n /\ \A i \in 1..n : t[i] = line[i]
    BY <1>1, <2>1, CutLemma DEF Row
  <2>3. n < Size
    BY <1>1, <1>2
  <2> HIDE DEF t
  <2> QED BY <2>2, <2>3 DEF Words
<1> HIDE DEF t
<1>6. /\ s \in Seq(Typed) /\ Len(s) \in 0..Size - 1 /\ n =< Len(s)
      /\ \A i \in 1..n : s[i] = line[i]
  <2>1. s \in Words /\ IsPrefix(t, s)
    BY <1>5, CompletedLemma
  <2>2. Len(t) =< Len(s) /\ \A i \in 1..Len(t) : t[i] = s[i]
    BY <1>5, <2>1, PrefixLemma DEF Words
  <2> QED BY <1>1, <1>5, <2>1, <2>2 DEF Words
<1> HIDE DEF s
<1>7. /\ l \in [1..Size -> Typed \union {Nul}]
      /\ \A i \in 1..Len(s) : l[i] = s[i] /\ s[i] # Nul
      /\ \A i \in Len(s) + 1..Size : l[i] = line[i]
  <2>1. \A i \in 1..Len(s) : s[i] \in Typed /\ i \in 1..Size
    BY <1>1, <1>6
  <2>2. \A i \in Len(s) + 1..Size : i \in 1..Size /\ ~(i =< Len(s))
    BY <1>1, <1>6
  <2>3. l \in [1..Size -> Typed \union {Nul}]
    BY <1>1, <1>3, <1>6, <2>1
  <2> QED BY <1>3, <2>1, <2>2, <2>3 DEF Limits
<1> HIDE DEF l
<1>8. Ends(l, m)
  BY <1>7, LengthLemma DEF Row
<1> HIDE DEF m
<1>9. Len(s) =< m /\ l[Size] = line[Size]
  <2>1. Size \in Len(s) + 1..Size
    BY <1>1, <1>6
  <2>2. m \in 0..Size /\ (m < Size => l[m + 1] = Nul)
    BY <1>8 DEF Ends
  <2>3. m < Len(s) => m + 1 \in 1..Len(s)
    BY <1>6, <2>2
  <2> QED BY <1>1, <1>6, <1>7, <2>1, <2>2, <2>3
<1>10. line[Size] = Nul => m < Size
  <2>1. m = Size => l[Size] # Nul
    BY <1>1, <1>8 DEF Ends
  <2> QED BY <1>8, <1>9, <2>1 DEF Ends, Limits
<1>11. ASSUME m < Size
       PROVE  Ready(l, m, m) /\ Cut(l, m) \in Words /\ IsPrefix(Cut(line, pos), Cut(l, m))
  <2>1. m \in 0..Size - 1 /\ \A i \in 1..m : l[i] # Nul
    BY <1>1, <1>8, <1>11 DEF Ends
  <2>2. \A i \in m + 1..Size : i \in Len(s) + 1..Size /\ i \in pos + 1..Size
    <3>1. Len(s) \in Nat /\ n \in Nat /\ m \in Nat /\ pos \in Nat /\ Size \in Nat
      BY <1>1, <1>2, <1>6, <2>1
    <3>2. Len(s) =< m /\ pos =< m
      BY <1>4, <1>6, <1>9, <3>1
    <3> QED BY <3>1, <3>2
  <2>3. l[Size] = Nul => \A i \in m + 1..Size : l[i] = Nul
    BY <1>1, <1>7, <1>9, <2>2
  <2>4. Ready(l, m, m)
    BY <1>7, <2>1, <2>3 DEF Ready, Row
  <2>5. Cut(l, m) \in Seq(Typed) /\ Len(Cut(l, m)) = m /\ \A i \in 1..m : Cut(l, m)[i] = l[i]
    BY <2>4, CutReady
  <2>6. /\ Cut(line, pos) \in Seq(Typed) /\ Len(Cut(line, pos)) = pos
        /\ \A i \in 1..pos : Cut(line, pos)[i] = line[i]
    BY CutReady
  <2>7. pos =< m /\ \A i \in 1..pos : line[i] = l[i]
    <3>1. pos =< m
      BY <1>1, <1>4, <1>6, <1>9, <2>1, <1>2
    <3>2. \A i \in 1..pos : i \in 1..n /\ i \in 1..Len(s)
      BY <1>1, <1>2, <1>4, <1>6
    <3> QED BY <1>6, <1>7, <3>1, <3>2
  <2>8. \A i \in 1..pos : i \in 1..m
    BY <1>1, <2>1, <2>7
  <2>9. IsPrefix(Cut(line, pos), Cut(l, m))
    <3> DEFINE a == Cut(line, pos)
               b == Cut(l, m)
    <3>1. /\ a \in Seq(Typed) /\ b \in Seq(Typed) /\ Len(a) =< Len(b)
          /\ \A i \in 1..Len(a) : a[i] = b[i]
      BY <2>5, <2>6, <2>7, <2>8
    <3> HIDE DEF a, b
    <3>2. IsPrefix(a, b)
      BY <3>1, PrefixLemma
    <3> QED BY <3>2 DEF a, b
  <2> QED BY <1>11, <2>4, <2>5, <2>9 DEF Words
<1> QED BY <1>9, <1>10, <1>11 DEF l, m

-----------------------------------------------------------------------------
(* The steps of the shell                                                   *)

LineInv ==
    /\ Ready(line, pos, cur)
    /\ history \in Seq(Words) /\ Len(history) =< Lines /\ current \in 0..Len(history)
    /\ stat \in {"normal", "spec", "func", "wild"}
    /\ line[Size] = Nul => stat # "wild"

\* The part is the shell, before and after the step.
Ours == part = "shell" /\ part' = "shell"

\* The editor takes a step or none.
EditorStep == Editor!Next \/ UNCHANGED Editor!vars

Given == Limits /\ Commands \subseteq Words /\ Ours /\ LineInv

\* What the editor sees.
LEMMA SeenLemma ==
    ASSUME Ours
    PROVE  /\ Written = Cut(line, pos) /\ Cursor = cur /\ Past = history /\ Recalled = current
           /\ Written' = Cut(line', pos') /\ Cursor' = cur' /\ Past' = history'
           /\ Recalled' = current'
BY DEF Ours, Written, Cursor, Past, Recalled, Cut, Line!Text

LEMMA SeenDropped ==
    ASSUME Ours
    PROVE  /\ Dropped <=> line[Size] # Nul
           /\ line'[Size] = Nul => Dropped' = FALSE
           /\ line'[Size] # Nul => Dropped' = TRUE
           /\ line'[Size] = line[Size] => Dropped' = Dropped
BY DEF Ours, Dropped, Line!Full

LEMMA Stutters ==
    ASSUME Ours, UNCHANGED <<line, pos, cur, history, current>>
    PROVE  EditorStep
<1>1. UNCHANGED <<Written, Cursor, Past, Recalled>>
  BY SeenLemma
<1>2. UNCHANGED Dropped
  BY SeenDropped
<1> QED BY <1>1, <1>2 DEF EditorStep, Editor!vars

LEMMA StatusSteps ==
    ASSUME Given, Line!Escape \/ Line!Bracket \/ Line!Ignored
    PROVE  LineInv' /\ EditorStep
<1>1. UNCHANGED <<line, pos, cur, history, current>> /\ stat' \in {"normal", "spec", "func"}
  BY DEF Line!Escape, Line!Bracket, Line!Ignored, Line!Plain
<1> QED BY <1>1, Stutters DEF Given, LineInv

\* A line of the history is shown.
LEMMA Recall ==
    ASSUME Given, NEW i \in 0..Len(history) - 1, Line!Show(Line!Cells(history[i + 1])),
           current' = i, history' = history, stat' = "normal"
    PROVE  LineInv' /\ Editor!Show(i)
<1> DEFINE s == history[i + 1]
<1>1. s \in Words /\ history \in Seq(Words) /\ i + 1 \in 1..Len(history)
  BY DEF Given, LineInv
<1>2. line' = Line!Cells(s) /\ pos' = Len(s) /\ cur' = Len(s)
  BY <1>1, CellsOfText DEF Given, Line!Show
<1>3. Ready(line', pos', cur') /\ line'[Size] = Nul /\ Cut(line', pos') = s
  BY <1>1, <1>2, CellsOfText DEF Given
<1>4. LineInv'
  BY <1>1, <1>3 DEF Given, LineInv
<1>5. Written' = s /\ Cursor' = Len(s) /\ Past' = Past /\ Past = history /\ Recalled' = i
  BY <1>2, <1>3, SeenLemma DEF Given
<1>6. Dropped' = FALSE
  BY <1>3, SeenDropped DEF Given
<1> QED BY <1>4, <1>5, <1>6 DEF Editor!Show

LEMMA ArrowSteps ==
    ASSUME Given, Line!Up \/ Line!Down
    PROVE  LineInv' /\ EditorStep
<1>1. history \in Seq(Words) /\ Len(history) \in Nat /\ current \in 0..Len(history)
  BY DEF Given, LineInv
<1>2. CASE UNCHANGED <<line, pos, cur, history, current>>
  <2>1. stat' = "normal"
    BY DEF Line!Up, Line!Down, Line!Plain
  <2> QED BY <1>2, <2>1, Stutters DEF Given, LineInv
<1>3. CASE Line!Up /\ current > 0
  <2>1. /\ current' = current - 1 /\ Line!Show(Line!Cells(history[current]))
        /\ history' = history /\ stat' = "normal"
    BY <1>3 DEF Line!Up, Line!Plain
  <2> DEFINE i == current - 1
  <2>2. i \in 0..Len(history) - 1 /\ i + 1 = current /\ current' = i
    BY <1>1, <1>3, <2>1
  <2> HIDE DEF i
  <2>3. Line!Show(Line!Cells(history[i + 1]))
    BY <2>1, <2>2
  <2>4. LineInv' /\ Editor!Show(i)
    BY <2>1, <2>2, <2>3, Recall
  <2>5. i = Recalled - 1
    BY <2>2, SeenLemma DEF Given, i
  <2> QED BY <2>4, <2>5 DEF EditorStep, Editor!Next, Editor!Older
<1>4. CASE Line!Down /\ history # <<>>
  <2> DEFINE i == IF current < Len(history) - 1 THEN current + 1 ELSE Len(history) - 1
  <2>1. current' = i /\ Line!Show(Line!Cells(history[current' + 1]))
        /\ history' = history /\ stat' = "normal"
    BY <1>4 DEF Line!Down, Line!Plain
  <2>2. i \in 0..Len(history) - 1
    BY <1>1, <1>4
  <2>3. i = IF Recalled < Len(Past) - 1 THEN Recalled + 1 ELSE Len(Past) - 1
    BY SeenLemma DEF Given
  <2> HIDE DEF i
  <2>4. LineInv' /\ Editor!Show(i)
    BY <2>1, <2>2, Recall
  <2> QED BY <2>3, <2>4 DEF EditorStep, Editor!Next, Editor!Newer
<1> QED BY <1>2, <1>3, <1>4 DEF Line!Up, Line!Down

LEMMA MoveSteps ==
    ASSUME Given, Line!Left \/ Line!Right
    PROVE  LineInv' /\ EditorStep
<1>1. /\ UNCHANGED <<line, pos, history, current>> /\ stat' = "normal"
      /\ pos \in 0..Size - 1 /\ cur \in 0..pos /\ Size \in Nat
  BY DEF Given, LineInv, Ready, Limits, Line!Left, Line!Right, Line!Plain
<1>2. cur' \in 0..pos /\ (cur' = cur \/ cur' = cur + 1 \/ cur' = cur + -1)
  BY <1>1 DEF Line!Left, Line!Right
<1>3. LineInv'
  BY <1>1, <1>2 DEF Given, LineInv, Ready
<1>4. ASSUME NEW n \in {-1, 1}, cur' = cur + n PROVE Editor!Move(n)
  <2>1. /\ UNCHANGED <<Written, Past, Recalled>> /\ Cursor' = Cursor + n
        /\ Cursor + n \in 0..pos /\ Len(Written) = pos
    <3>1. Len(Cut(line, pos)) = pos
      BY CutReady DEF Given, LineInv
    <3> QED BY <1>1, <1>2, <1>4, <3>1, SeenLemma DEF Given
  <2>2. UNCHANGED Dropped
    BY <1>1, SeenDropped DEF Given
  <2> QED BY <2>1, <2>2 DEF Editor!Move
<1>5. CASE cur' = cur
  BY <1>1, <1>3, <1>5, Stutters DEF Given
<1>6. CASE cur' = cur + 1
  <2>1. Editor!Move(1)
    BY <1>4, <1>6
  <2> QED BY <1>3, <2>1 DEF EditorStep, Editor!Next
<1>7. CASE cur' = cur + -1
  <2>1. Editor!Move(-1)
    BY <1>4, <1>7
  <2> QED BY <1>3, <2>1 DEF EditorStep, Editor!Next
<1> QED BY <1>2, <1>5, <1>6, <1>7

LEMMA TabStep ==
    ASSUME Given, Line!Tab
    PROVE  LineInv' /\ EditorStep
<1> DEFINE l == Line!Tabbed
           m == Line!Length(l)
<1>1. history' = history /\ current' = current /\ Ready(line, pos, cur)
  BY DEF Given, LineInv, Line!Tab
<1>2. Line!Length(line) < Size =>
         /\ line[Size] = Nul => m < Size
         /\ m < Size => /\ Ready(l, m, m) /\ l[Size] = line[Size]
                        /\ Cut(l, m) \in Words /\ IsPrefix(Cut(line, pos), Cut(l, m))
  BY <1>1, TabbedLemma DEF Given
<1>3. line[Size] = Nul => Line!Length(line) < Size
  <2>1. Ends(line, Line!Length(line))
    BY <1>1, LengthLemma DEF Given, Ready
  <2> QED BY <2>1 DEF Ends, Given, Limits
<1>a. CASE Line!Length(line) < Size /\ m < Size
  <2>1. line' = l /\ pos' = m /\ cur' = m /\ stat' = "normal"
    BY <1>a DEF Line!Tab, Line!Show, Line!Plain
  <2>2. /\ Ready(l, m, m) /\ l[Size] = line[Size]
        /\ Cut(l, m) \in Words /\ IsPrefix(Cut(line, pos), Cut(l, m))
    BY <1>2, <1>a
  <2>3. Len(Cut(l, m)) = m
    BY <2>2, CutReady DEF Given
  <2> HIDE DEF l, m
  <2>4. LineInv'
    BY <1>1, <2>1, <2>2 DEF Given, LineInv
  <2>5. /\ Written = Cut(line, pos) /\ Written' = Cut(l, m) /\ Cursor' = m
        /\ Past' = Past /\ Recalled' = Recalled
    BY <1>1, <2>1, SeenLemma DEF Given
  <2>6. Dropped' = Dropped
    BY <2>1, <2>2, SeenDropped DEF Given
  <2>7. Written' \in Editor!BoundedSeq(Typed, Size - 1) /\ Editor!IsPrefix(Written, Written')
    BY <2>2, <2>5, WordsLemma, SameWords DEF Given
  <2>8. Editor!Complete
    BY <2>3, <2>5, <2>6, <2>7 DEF Editor!Complete
  <2> QED BY <2>4, <2>8 DEF EditorStep, Editor!Next
<1>b. CASE ~(Line!Length(line) < Size /\ m < Size)
  <2>1. stat' = "wild" /\ UNCHANGED <<line, pos, cur>>
    BY <1>b DEF Line!Tab
  <2>2. line[Size] # Nul
    BY <1>2, <1>3, <1>b
  <2> QED BY <1>1, <2>1, <2>2, Stutters DEF Given, LineInv
<1> QED BY <1>a, <1>b

LEMMA BackspaceStep ==
    ASSUME Given, Line!Backspace
    PROVE  LineInv' /\ EditorStep
<1>1. /\ history' = history /\ current' = current /\ stat' = "normal"
      /\ Ready(line, pos, cur)
  BY DEF Given, LineInv, Line!Backspace, Line!Plain
<1>a. CASE cur = 0
  <2>1. UNCHANGED <<line, pos, cur>>
    BY <1>a DEF Line!Backspace
  <2> QED BY <1>1, <2>1, Stutters DEF Given, LineInv
<1>b. CASE cur # 0
  <2>1. cur \in Nat /\ cur > 0
    BY <1>1, <1>b DEF Ready, Given, Limits
  <2>2. pos' = pos - 1 /\ cur' = cur - 1 /\ line' = WithoutByte(line, pos, cur)
    BY <1>b DEF Line!Backspace, WithoutByte
  <2>3. /\ Ready(line', pos - 1, cur - 1) /\ line'[Size] = line[Size]
        /\ Cut(line', pos - 1) = RemoveAt(Cut(line, pos), cur)
    BY <1>1, <2>1, <2>2, ErasedCells DEF Given
  <2>4. LineInv'
    BY <1>1, <2>2, <2>3 DEF Given, LineInv
  <2>5. /\ Cursor = cur /\ Written' = RemoveAt(Written, Cursor) /\ Cursor' = Cursor - 1
        /\ Past' = Past /\ Recalled' = Recalled
    BY <1>1, <2>2, <2>3, SeenLemma DEF Given
  <2>6. Dropped' = Dropped
    BY <2>3, SeenDropped DEF Given
  <2>7. Editor!Erase
    BY <2>1, <2>5, <2>6, SameWords DEF Editor!Erase
  <2> QED BY <2>4, <2>7 DEF EditorStep, Editor!Next
<1> QED BY <1>a, <1>b

\* The last command is not pushed again; after a line was given up it may be.
LEMMA PushedLemma ==
    ASSUME Given
    PROVE  /\ Line!Pushed \in Seq(Words) /\ Len(Line!Pushed) =< Lines
           /\ LET t == Cut(line, pos)
              IN  \/ /\ Line!Pushed = history
                     /\ t = <<>> \/ (history # <<>> /\ Last(history) = t)
                  \/ /\ t # <<>> /\ (line[Size] # Nul \/ history = <<>> \/ Last(history) # t)
                     /\ Line!Pushed = IF Len(history) < Lines THEN Append(history, t)
                                      ELSE Append(Tail(history), t)
<1> DEFINE t == Cut(line, pos)
<1>1. /\ Ready(line, pos, cur) /\ history \in Seq(Words) /\ Len(history) =< Lines
      /\ Lines \in Nat \ {0}
  BY DEF Given, LineInv, Limits
<1>2. t \in Words /\ Len(t) = pos
  <2>1. t \in Seq(Typed) /\ Len(t) = pos
    BY <1>1, CutReady DEF Given
  <2>2. pos < Size
    BY <1>1 DEF Ready, Given, Limits
  <2> QED BY <2>1, <2>2 DEF Words
<1>3. t = <<>> <=> pos = 0
  <2>1. t \in Seq(Typed)
    BY <1>2 DEF Words
  <2> QED BY <1>2, <2>1
<1>4. t = Line!Text
  BY DEF Cut, Line!Text
<1> HIDE DEF t
<1>5. ASSUME history # <<>>
      PROVE  Last(history) \in Words /\ Line!Last(history) = Last(history)
  BY <1>1, <1>5, SameWords DEF Last
<1>6. ASSUME history # <<>>, Line!Cells(Last(history)) = line PROVE Last(history) = t
  <2> DEFINE h == Last(history)
  <2>1. h \in Words /\ Line!Cells(h) = line
    BY <1>5, <1>6
  <2> HIDE DEF h
  <2>2. /\ Line!Cells(h)[Size] = Nul /\ Line!Length(Line!Cells(h)) = Len(h)
        /\ Cut(Line!Cells(h), Len(h)) = h
    BY <2>1, CellsOfText DEF Given
  <2>3. Ends(line, pos)
    BY <1>1, <2>1, <2>2 DEF Ends, Ready, Given, Limits
  <2>4. Ends(line, Len(h))
    BY <1>1, <2>1, <2>2, LengthLemma DEF Ready, Given
  <2>5. pos = Len(h)
    BY <2>3, <2>4, EndsOnce DEF Given
  <2> QED BY <2>1, <2>2, <2>5 DEF t, h
<1>7. ASSUME history # <<>>, line[Size] = Nul, Last(history) = t
      PROVE  Line!Cells(Last(history)) = line
  <2>1. line \in [1..Size -> Typed \union {Nul}] /\ Size \in Nat \ {0} /\ pos \in 0..Size - 1
    BY <1>1 DEF Ready, Row, Given, Limits
  <2>2. \A i \in 1..pos : t[i] = line[i]
    BY <1>1, CutReady DEF Given, t
  <2>3. \A i \in pos + 1..Size : line[i] = Nul
    BY <1>1, <1>7 DEF Ready
  <2>4. Line!Cells(t) = [i \in 1..Size |-> IF i =< pos THEN t[i] ELSE Nul]
    BY <1>2 DEF Line!Cells
  <2>5. \A i \in 1..Size : line[i] = IF i =< pos THEN t[i] ELSE Nul
    BY <2>1, <2>2, <2>3
  <2> QED BY <1>7, <2>1, <2>4, <2>5
<1>8. /\ Append(history, t) \in Seq(Words) /\ Len(Append(history, t)) = Len(history) + 1
      /\ history # <<>> => /\ Append(Tail(history), t) \in Seq(Words)
                           /\ Len(Append(Tail(history), t)) = Len(history)
  BY <1>1, <1>2, AppendProperties, HeadTailProperties
<1>9. CASE pos = 0 \/ (history # <<>> /\ Line!Cells(Last(history)) = line)
  <2>1. Line!Pushed = history
    BY <1>5, <1>9 DEF Line!Pushed
  <2> QED BY <1>1, <1>3, <1>6, <1>9, <2>1 DEF t
<1>10. CASE ~(pos = 0 \/ (history # <<>> /\ Line!Cells(Last(history)) = line))
  <2>1. Line!Pushed = IF Len(history) < Lines THEN Append(history, t)
                      ELSE Append(Tail(history), t)
    BY <1>4, <1>5, <1>10 DEF Line!Pushed
  <2>2. ~(Len(history) < Lines) => history # <<>>
    BY <1>1
  <2>3. Line!Pushed \in Seq(Words) /\ Len(Line!Pushed) =< Lines
    BY <1>1, <1>8, <2>1, <2>2
  <2>4. t # <<>> /\ (line[Size] # Nul \/ history = <<>> \/ Last(history) # t)
    BY <1>3, <1>7, <1>10
  <2> QED BY <2>1, <2>3, <2>4 DEF t
<1> QED BY <1>9, <1>10

LEMMA EnterStep ==
    ASSUME Given, Line!Enter
    PROVE  LineInv' /\ EditorStep
<1> DEFINE h == Line!Pushed
           t == Cut(line, pos)
<1>1. /\ history' = h /\ current' = Len(h) /\ stat' = "normal"
      /\ Line!Show(Line!Cells(<<>>))
  BY DEF Line!Enter, Line!Plain
<1>2. /\ h \in Seq(Words) /\ Len(h) =< Lines
      /\ \/ h = history /\ (t = <<>> \/ (history # <<>> /\ Last(history) = t))
         \/ /\ t # <<>> /\ (line[Size] # Nul \/ history = <<>> \/ Last(history) # t)
            /\ h = IF Len(history) < Lines THEN Append(history, t)
                   ELSE Append(Tail(history), t)
  BY PushedLemma
<1> HIDE DEF h
<1>3. <<>> \in Words /\ Len(<<>>) = 0
  BY DEF Words, Given, Limits
<1>4. line' = Line!Cells(<<>>) /\ pos' = 0 /\ cur' = 0
  BY <1>1, <1>3, CellsOfText DEF Given, Line!Show
<1>5. Ready(line', pos', cur') /\ line'[Size] = Nul /\ Cut(line', pos') = <<>>
  <2>1. /\ Ready(Line!Cells(<<>>), Len(<<>>), Len(<<>>)) /\ Line!Cells(<<>>)[Size] = Nul
        /\ Cut(Line!Cells(<<>>), Len(<<>>)) = <<>>
    BY <1>3, CellsOfText DEF Given
  <2> QED BY <1>3, <1>4, <2>1
<1>6. LineInv'
  BY <1>1, <1>2, <1>5 DEF LineInv
<1>7. /\ Written = t /\ Written' = <<>> /\ Cursor' = 0 /\ Past = history /\ Past' = h
      /\ Recalled' = Len(Past')
  BY <1>1, <1>4, <1>5, SeenLemma DEF Given
<1>8. Dropped' = FALSE /\ (Dropped <=> line[Size] # Nul)
  BY <1>5, SeenDropped DEF Given
<1> HIDE DEF t
<1>9. Editor!Enter
  BY <1>2, <1>7, <1>8, SameWords DEF Editor!Enter
<1> QED BY <1>6, <1>9 DEF EditorStep, Editor!Next

LEMMA TypeByte ==
    ASSUME Given, NEW x \in Typed, Line!Type(x)
    PROVE  LineInv' /\ EditorStep
<1> DEFINE t == Cut(line, pos)
           r == InsertAt(t, cur + 1, x)
<1>1. /\ history' = history /\ current' = current /\ stat' = "normal"
      /\ Ready(line, pos, cur)
      /\ line' = WithByte(line, pos, cur, x)
      /\ IF pos + 1 >= Size THEN pos' = 0 /\ cur' = 0 ELSE pos' = pos + 1 /\ cur' = cur + 1
  BY DEF Given, LineInv, Line!Type, Line!Plain, WithByte
<1>2. pos \in Nat /\ Size \in Nat /\ Len(t) = pos
  <2>1. Len(t) = pos
    BY <1>1, CutReady DEF Given
  <2> QED BY <1>1, <2>1 DEF Given, Ready, Limits
<1>3. /\ Longer(r, t, cur + 1, x, Typed)
      /\ pos + 1 < Size => /\ Ready(line', pos + 1, cur + 1) /\ line'[Size] = line[Size]
                           /\ Cut(line', pos + 1) = r
      /\ ~(pos + 1 < Size) => Ready(line', 0, 0) /\ line'[Size] # Nul
  BY <1>1, TypedCells DEF Given
<1>4. Len(r) = pos + 1
  BY <1>2, <1>3 DEF Longer
<1>5. Written = t /\ Cursor = cur /\ Past' = Past /\ Recalled' = Recalled
  BY <1>1, SeenLemma DEF Given
<1>6. r = Editor!InsertAt(Written, Cursor + 1, x)
  BY <1>5, SameWords
<1> HIDE DEF r, t
<1>a. CASE pos + 1 < Size
  <2>1. pos' = pos + 1 /\ cur' = cur + 1
    BY <1>1, <1>2, <1>a
  <2>2. LineInv'
    BY <1>1, <1>3, <1>a, <2>1 DEF Given, LineInv
  <2>3. Written' = r /\ Cursor' = Cursor + 1
    BY <1>3, <1>a, <2>1, SeenLemma DEF Given
  <2>4. Dropped' = Dropped
    BY <1>3, <1>a, SeenDropped DEF Given
  <2>5. Editor!Insert(x)
    BY <1>4, <1>5, <1>6, <1>a, <2>3, <2>4 DEF Editor!Insert
  <2> QED BY <2>2, <2>5 DEF EditorStep, Editor!Next
<1>b. CASE ~(pos + 1 < Size)
  <2>1. pos' = 0 /\ cur' = 0
    BY <1>1, <1>2, <1>b
  <2>2. LineInv'
    BY <1>1, <1>3, <1>b, <2>1 DEF Given, LineInv
  <2>3. Written' = <<>> /\ Cursor' = 0
    <3>1. Len(Cut(line', 0)) = 0 /\ Cut(line', 0) \in Seq(Typed)
      BY <1>3, <1>b, CutReady DEF Given
    <3>2. Cut(line', 0) = <<>>
      BY <3>1
    <3> QED BY <2>1, <3>2, SeenLemma DEF Given
  <2>4. Dropped' = TRUE
    BY <1>3, <1>b, SeenDropped DEF Given
  <2>5. Editor!Insert(x)
    BY <1>4, <1>5, <1>6, <1>b, <2>3, <2>4 DEF Editor!Insert
  <2> QED BY <2>2, <2>5 DEF EditorStep, Editor!Next
<1> QED BY <1>a, <1>b

\* The shell's assumption, in words.
LEMMA LimitsLemma == Line!ShellAssumption => Limits /\ Commands \subseteq Words
<1> SUFFICES ASSUME Line!ShellAssumption PROVE Limits /\ Commands \subseteq Words
  OBVIOUS
<1>1. Limits
  BY DEF Line!ShellAssumption, Limits
<1>2. Commands \subseteq Line!BoundedSeq(Typed, Size - 1)
  BY DEF Line!ShellAssumption
<1> QED BY <1>1, <1>2, WordsLemma

LEMMA LineSteps ==
    ASSUME Line!ShellAssumption, Ours, LineInv, Line!Next
    PROVE  LineInv' /\ EditorStep
<1>1. Given
  BY LimitsLemma DEF Given
<1> QED BY <1>1, StatusSteps, ArrowSteps, MoveSteps, TabStep, BackspaceStep, EnterStep, TypeByte
        DEF Line!Next

LEMMA LineStarts ==
    ASSUME Line!ShellAssumption, part = "shell", Line!Init
    PROVE  LineInv /\ Editor!Init
<1>1. Limits /\ <<>> \in Words /\ Len(<<>>) = 0
  BY LimitsLemma DEF Words, Limits
<1>2. /\ line = Line!Cells(<<>>) /\ pos = 0 /\ cur = 0 /\ history = <<>> /\ current = 0
      /\ stat = "normal"
  BY DEF Line!Init
<1>3. Ready(line, pos, cur) /\ line[Size] = Nul /\ Cut(line, pos) = <<>>
  <2>1. /\ Ready(Line!Cells(<<>>), Len(<<>>), Len(<<>>)) /\ Line!Cells(<<>>)[Size] = Nul
        /\ Cut(Line!Cells(<<>>), Len(<<>>)) = <<>>
    BY <1>1, CellsOfText
  <2> QED BY <1>1, <1>2, <2>1
<1>4. LineInv
  BY <1>1, <1>2, <1>3 DEF LineInv, Limits
<1>5. Written = <<>> /\ Cursor = 0 /\ Past = <<>> /\ Recalled = 0 /\ Dropped = FALSE
  BY <1>2, <1>3 DEF Written, Cursor, Past, Recalled, Dropped, Cut, Line!Text, Line!Full
<1> QED BY <1>4, <1>5 DEF Editor!Init

\* What the run checks of a state.
LEMMA LineSays == Line!ShellAssumption /\ LineInv => Line!LineEnds
<1> SUFFICES ASSUME Line!ShellAssumption, LineInv PROVE Line!LineEnds
  OBVIOUS
<1>1. Limits
  BY LimitsLemma
<1>2. /\ line \in [1..Size -> Typed \union {Nul}] /\ Size \in Nat \ {0}
      /\ pos \in 0..Size - 1 /\ cur \in 0..pos
      /\ history \in Seq(Words) /\ Len(history) =< Lines /\ current \in 0..Len(history)
      /\ stat \in {"normal", "spec", "func", "wild"} /\ Lines \in Nat
  BY <1>1 DEF LineInv, Ready, Row, Limits
<1>3. Line!TypeOK
  <2>1. \A i \in DOMAIN history : Len(history[i]) < Size
    BY <1>2 DEF Words
  <2> QED BY <1>2, <2>1 DEF Line!TypeOK
<1>4. Nul \notin Line!Range(Line!Text)
  <2> DEFINE t == Cut(line, pos)
  <2>1. t \in Seq(Typed)
    BY <1>1, CutReady DEF LineInv
  <2> HIDE DEF t
  <2>2. Nul \notin Range(t)
    BY <1>1, <2>1 DEF Range, Limits
  <2> QED BY <2>2, SameWords DEF t, Cut, Line!Text
<1>5. ~Line!Full => line[pos + 1] = Nul /\ stat # "wild"
  <2>1. pos + 1 \in pos + 1..Size
    BY <1>2
  <2> QED BY <2>1 DEF LineInv, Ready, Line!Full
<1> QED BY <1>2, <1>3, <1>4, <1>5 DEF Line!LineEnds

-----------------------------------------------------------------------------
(* The parts side by side                                                   *)

\* Each part keeps its invariant; the timers keep theirs in every part.
PartInv ==
    /\ Inv
    /\ part = "mem" => HeapInv
    /\ part = "memheap" => ItemInv
    /\ part = "slab" => SlabInv
    /\ part = "objects" => RegistryInv
    /\ part = "shell" => LineInv
    /\ part = "console" => PrintInv

LEMMA PartStarts ==
    ASSUME AllInit
    PROVE  PartInv
<1>1. Inv
  BY InstancesAssumption, InitInv DEF AllInit
<1>2. part = "mem" => HeapInv
  <2>1. part = "mem" => Small!Init
    BY DEF AllInit
  <2> QED BY <2>1, InstancesAssumption, HeapStarts
<1>3. part = "objects" => RegistryInv
  BY RegistryStarts DEF AllInit
<1>4. part = "shell" => LineInv
  <2>1. part = "shell" => Line!Init
    BY DEF AllInit
  <2> QED BY <2>1, InstancesAssumption, LineStarts
<1>5. part = "console" => PrintInv
  <2>1. part = "console" => Output!Init
    BY DEF AllInit
  <2> QED BY <2>1, InstancesAssumption, PrintStarts
<1>6. part = "memheap" => ItemInv
  <2>1. part = "memheap" => Large!Init
    BY DEF AllInit
  <2> QED BY <2>1, InstancesAssumption, ItemStarts
<1>7. part = "slab" => SlabInv
  <2>1. part = "slab" => Paged!Init
    BY DEF AllInit
  <2> QED BY <2>1, InstancesAssumption, SlabStarts
<1> QED BY <1>1, <1>2, <1>3, <1>4, <1>5, <1>6, <1>7 DEF PartInv

\* In every step what the part names takes a step of its own, or waits, and the
\* timers wait in the other parts.
LEMMA PartMoves ==
    ASSUME [AllNext]_allVars
    PROVE  /\ part' = part
           /\ [Next]_vars
           /\ part = "mem" => [Small!Next]_(Small!vars)
           /\ part = "memheap" => [Large!Next]_(Large!vars)
           /\ part = "slab" => [Paged!Next]_(Paged!vars)
           /\ part = "objects" => Registry!Next \/ UNCHANGED Registry!vars
           /\ part = "shell" => Line!Next \/ UNCHANGED Line!vars
           /\ part = "console" => Output!Next \/ UNCHANGED Output!vars
<1>1. CASE AllNext
  BY <1>1 DEF AllNext, TimersStep, MemStep, MemheapStep, SlabStep, ObjectsStep, ShellStep,
              ConsoleStep
<1>2. CASE UNCHANGED allVars
  <2>1. /\ UNCHANGED <<part, vars>> /\ UNCHANGED <<memVars, call, held>>
        /\ UNCHANGED <<memheapVars, slabVars>>
        /\ UNCHANGED <<objectVars, shellVars, consoleVars>>
    BY <1>2 DEF allVars
  <2>2. UNCHANGED Small!vars
    BY <2>1 DEF memVars, Small!vars
  <2>3. UNCHANGED Registry!vars
    BY <2>1 DEF objectVars, Registry!vars
  <2>4. UNCHANGED Line!vars
    BY <2>1 DEF shellVars, Line!vars
  <2>5. UNCHANGED Output!vars
    BY <2>1 DEF consoleVars, Output!vars
  <2>6. UNCHANGED Large!vars
    BY <2>1 DEF memheapVars, Large!vars
  <2>7. UNCHANGED Paged!vars
    BY <2>1 DEF slabVars, Paged!vars
  <2> QED BY <2>1, <2>2, <2>3, <2>4, <2>5, <2>6, <2>7
<1> QED BY <1>1, <1>2

\* The shell's step, and what the editor makes of it.
LEMMA ShellMoves ==
    ASSUME part = "shell", LineInv, [AllNext]_allVars
    PROVE  LineInv' /\ EditorStep
<1>1. Ours /\ (Line!Next \/ UNCHANGED Line!vars)
  BY PartMoves DEF Ours
<1>2. CASE Line!Next
  BY <1>1, <1>2, InstancesAssumption, LineSteps
<1>3. CASE UNCHANGED Line!vars
  <2>1. UNCHANGED <<line, pos, cur, history, current>> /\ stat' = stat
    BY <1>3 DEF Line!vars
  <2> QED BY <1>1, <2>1, Stutters DEF LineInv
<1> QED BY <1>1, <1>2, <1>3

LEMMA PartSteps ==
    ASSUME PartInv, [AllNext]_allVars
    PROVE  PartInv'
<1>1. /\ part' = part /\ [Next]_vars
      /\ part = "mem" => [Small!Next]_(Small!vars)
      /\ part = "memheap" => [Large!Next]_(Large!vars)
      /\ part = "slab" => [Paged!Next]_(Paged!vars)
      /\ part = "objects" => Registry!Next \/ UNCHANGED Registry!vars
      /\ part = "console" => Output!Next \/ UNCHANGED Output!vars
  BY PartMoves
<1>2. Inv'
  BY <1>1, InstancesAssumption, SizesLemma, NextInv DEF PartInv
<1>3. part = "mem" => HeapInv'
  BY <1>1, InstancesAssumption, HeapSteps DEF PartInv
<1>4. part = "objects" => RegistryInv'
  BY <1>1, InstancesAssumption, RegistrySteps DEF PartInv
<1>5. part = "shell" => LineInv'
  BY ShellMoves DEF PartInv
<1>6. part = "console" => PrintInv'
  BY <1>1, InstancesAssumption, PrintSteps DEF PartInv
<1>7. part = "memheap" => ItemInv'
  BY <1>1, InstancesAssumption, ItemSteps DEF PartInv
<1>8. part = "slab" => SlabInv'
  BY <1>1, InstancesAssumption, SlabSteps DEF PartInv
<1> QED BY <1>1, <1>2, <1>3, <1>4, <1>5, <1>6, <1>7, <1>8 DEF PartInv

LEMMA PartHolds == AllSpec => []PartInv
<1>1. AllInit => PartInv
  BY PartStarts
<1>2. PartInv /\ [AllNext]_allVars => PartInv'
  BY PartSteps
<1> QED BY <1>1, <1>2, PTL DEF AllSpec

\* The timers behave as on their own.
LEMMA TimersAlone == AllSpec => Spec
<1>1. AllInit => Init
  BY DEF AllInit
<1>2. [AllNext]_allVars => [Next]_vars
  BY PartMoves
<1> QED BY <1>1, <1>2, PTL DEF AllSpec, Spec

-----------------------------------------------------------------------------
(* The theorems of the parts                                                *)

\* OrderOfTheList, of the specification the run checks: rt_timer_list is in the
\* order of the deadlines, across the wrap of rt_tick.
THEOREM TimersOrdered == AllSpec => []ListOrdered
<1>1. Spec => []ListOrdered
  BY InstancesAssumption, OrderOfTheList
<1> QED BY <1>1, TimersAlone

\* FlagOfTheList, of the specification the run checks: RT_TIMER_FLAG_ACTIVATED
\* tells whether a timer nobody is busy with is linked.
THEOREM TimersFlagged == AllSpec => []FlagTellsLinked
<1>1. Spec => []FlagTellsLinked
  BY InstancesAssumption, FlagOfTheList
<1> QED BY <1>1, TimersAlone

\* EqualsInOrder, of the specification the run checks: of two timers with the
\* same deadline the one started first fires first.
THEOREM TimersEqual == AllSpec => EqualDeadlinesInOrder
<1>1. Spec => EqualDeadlinesInOrder
  BY InstancesAssumption, EqualsInOrder
<1> QED BY <1>1, TimersAlone

\* TimersAreAlarms, of the specification the run checks: each start of a timer is
\* one alarm in true time.
THEOREM TimersRing == AllSpec => ImplementsAlarms
<1>1. Spec => ImplementsAlarms
  BY InstancesAssumption, TimersAreAlarms
<1> QED BY <1>1, TimersAlone

\* Whatever is allocated, resized and freed by any number of threads: the headers
\* of both heaps tile their memory, with next and prev leading to the neighbours,
\* no two of which are free, and lfree, free_list and available_size say what the
\* headers say; the runs of free pages, the zones, the large blocks and the pages
\* a call has in its hands tile the pages of the slab allocator, and memusage
\* leads to the zone of every page.
THEOREM BlocksTile == AllSpec => []Tiled
<1>1. PartInv => Tiled
  <2> SUFFICES ASSUME PartInv PROVE Tiled
    OBVIOUS
  <2>1. part = "mem" => Small!Tiled /\ Small!FreeSound
    BY InstancesAssumption, TiledNow, FreeSoundNow DEF PartInv
  <2>2. part = "memheap" => Large!Tiled
    BY InstancesAssumption, ItemsTiled DEF PartInv
  <2>3. part = "slab" => Paged!Tiled
    BY InstancesAssumption, SlabTiled DEF PartInv
  <2> QED BY <2>1, <2>2, <2>3 DEF Tiled
<1> QED BY <1>1, PartHolds, PTL

\* The pointers callers have and the used blocks of either heap are one to one,
\* and each block has the room its owner counts on; a chunk of a zone is given to
\* one owner or free, once, and the zones with free chunks are those their class
\* finds.
THEOREM BlocksOwnedOnce == AllSpec => []OwnedOnce
<1>1. PartInv => OwnedOnce
  <2> SUFFICES ASSUME PartInv PROVE OwnedOnce
    OBVIOUS
  <2>1. part = "mem" => Small!OwnedOnce
    BY InstancesAssumption, OwnedOnceNow DEF PartInv
  <2>2. part = "memheap" => Large!OwnedOnce
    BY InstancesAssumption, ItemsOwned DEF PartInv
  <2>3. part = "slab" => Paged!OwnedOnce
    BY InstancesAssumption, SlabOwned DEF PartInv
  <2> QED BY <2>1, <2>2, <2>3 DEF OwnedOnce
<1> QED BY <1>1, PartHolds, PTL

\* When everything is freed, in whatever order, the heap of mem.c is one free
\* block that lfree leads to; the slab allocator keeps no more empty zones than
\* its threshold and one in each class.
THEOREM HeapsRecover == AllSpec => []Recovered
<1>1. PartInv => Recovered
  BY InstancesAssumption, RecoveredNow, SlabRecovered DEF PartInv, Recovered
<1> QED BY <1>1, PartHolds, PTL

\* Of all calls only an rt_realloc that cuts the end off a block below lfree
\* makes a free block that the search of rt_malloc passes over.
THEOREM LossesByShrinking == AllSpec => LostOnlyByShrinking
<1>1. PartInv /\ [AllNext]_allVars => [part = "mem" => Small!HiddenByShrinking]_allVars
  <2> SUFFICES ASSUME PartInv, [AllNext]_allVars, part = "mem" PROVE Small!HiddenByShrinking
    OBVIOUS
  <2>1. [Small!Next]_(Small!vars)
    BY PartMoves
  <2>2. Small!HeapAssumption /\ HeapInv
    BY InstancesAssumption DEF PartInv
  <2> QED BY <2>1, <2>2, HeapSteps
<1> QED BY <1>1, PartHolds, PTL DEF AllSpec, LostOnlyByShrinking

\* rt_list_insert_after and rt_list_remove keep the list of a class a list without
\* repetitions, and a listing that goes through it in batches shows every object
\* that was there all the time, once and in the order of the list, unless it met
\* an object on its way in or out.
THEOREM ListingsComplete == AllSpec => []ListingComplete
<1>1. PartInv => ListingComplete
  BY RegistrySays DEF PartInv, ListingComplete
<1> QED BY <1>1, PartHolds, PTL

\* Whatever is typed, moved, erased, completed and recalled, the cursor is in the
\* text of the input line, the text has no hole, and unless a full line was given
\* up strlen finds its end.
THEOREM LinesEnd == AllSpec => []LineEnds
<1>1. PartInv => LineEnds
  BY InstancesAssumption, LineSays DEF PartInv, LineEnds
<1> QED BY <1>1, PartHolds, PTL

\* OutputSound, of the specification the run checks: who prints alone prints his
\* text, output ends in the buffer, and threads do not interleave what they send.
THEOREM OutputPrinted == AllSpec => []Printed
<1>1. PartInv => Printed
  BY InstancesAssumption, PrintSays DEF PartInv, Printed
<1> QED BY <1>1, PartHolds, PTL

\* The cells of the shell's line, its position, cursor and history implement a
\* text with a cursor and the last commands (LineEditor): every byte typed,
\* erased, completed or recalled does to the text what it should.
THEOREM LineIsEditor == AllSpec => ImplementsEditor
<1>1. AllInit => Editor!Init
  <2> SUFFICES ASSUME AllInit PROVE Editor!Init
    OBVIOUS
  <2>1. CASE part = "shell"
    <3>1. Line!Init
      BY <2>1 DEF AllInit
    <3> QED BY <2>1, <3>1, InstancesAssumption, LineStarts
  <2>2. CASE part # "shell"
    BY <2>2 DEF Editor!Init, Written, Cursor, Past, Recalled, Dropped
  <2> QED BY <2>1, <2>2
<1>2. PartInv /\ [AllNext]_allVars => [Editor!Next]_(Editor!vars)
  <2> SUFFICES ASSUME PartInv, [AllNext]_allVars PROVE EditorStep
    BY DEF EditorStep
  <2>1. CASE part = "shell"
    BY <2>1, ShellMoves DEF PartInv
  <2>2. CASE part # "shell"
    <3>1. part' # "shell"
      BY <2>2, PartMoves
    <3>2. UNCHANGED <<Written, Cursor, Past, Recalled, Dropped>>
      BY <2>2, <3>1 DEF Written, Cursor, Past, Recalled, Dropped
    <3> QED BY <3>2 DEF EditorStep, Editor!vars
  <2> QED BY <2>1, <2>2
<1> QED BY <1>1, <1>2, PartHolds, PTL DEF AllSpec, ImplementsEditor, Editor!Spec
=============================================================================
