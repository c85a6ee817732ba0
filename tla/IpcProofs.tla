----------------------------- MODULE IpcProofs -----------------------------
(***************************************************************************)
(* Theorems about Ipc: for any threads, sizes, values and bits, the        *)
(* message queue and the mailbox are the same bounded FIFO, no unit, block *)
(* or node is lost or handed out twice, nobody sleeps beside what it waits *)
(* for, woken waiters have what they asked for, and a deletion leaves      *)
(* nobody but who came back while it was under way.  One section for each  *)
(* object; the mailbox's is MailboxProofs.                                 *)
(***************************************************************************)
EXTENDS Ipc, SequenceTheorems, FiniteSetTheorems, WellFoundedInduction, TLAPS

-----------------------------------------------------------------------------
(* Lists without repetitions                                                *)

Row(l, S) == l \in Seq(S) /\ \A i, j \in DOMAIN l : l[i] = l[j] => i = j

\* The empty one.
LEMMA EmptyRow ==
    ASSUME NEW S
    PROVE  Row(<<>>, S) /\ Range(<<>>) = {} /\ DOMAIN <<>> = {}
BY DEF Row, Range

\* The library's operators are the same under the instances' names.
LEMMA SameRange ==
    \A l : Flags!Range(l) = Range(l) /\ Area!Range(l) = Range(l) /\ Queue!Range(l) = Range(l)
BY DEF Range, Flags!Range, Area!Range, Queue!Range

LEMMA SameRemoveAt ==
    \A l, i : /\ Flags!RemoveAt(l, i) = RemoveAt(l, i)
              /\ Area!RemoveAt(l, i) = RemoveAt(l, i)
              /\ Queue!RemoveAt(l, i) = RemoveAt(l, i)
BY DEF RemoveAt, Flags!RemoveAt, Area!RemoveAt, Queue!RemoveAt

LEMMA SameSize ==
    \A S : /\ (Area!IsFiniteSet(S) <=> IsFiniteSet(S))
           /\ (Queue!IsFiniteSet(S) <=> IsFiniteSet(S))
           /\ Area!Cardinality(S) = Cardinality(S)
           /\ Queue!Cardinality(S) = Cardinality(S)
BY DEF IsFiniteSet, Area!IsFiniteSet, Queue!IsFiniteSet,
       Cardinality, Area!Cardinality, Queue!Cardinality

\* r is l without entry k: those behind it moved up.
Shorter(r, l, k, S) ==
    /\ r \in Seq(S) /\ Len(r) = Len(l) - 1 /\ k \in 1..Len(l)
    /\ \A i \in 1..Len(l) - 1 : r[i] = IF i < k THEN l[i] ELSE l[i+1]

\* No other entry is lost, and none passes another.
Follows(r, l, i, j) ==
    \E x, y \in DOMAIN l : x < y /\ r[i] = l[x] /\ r[j] = l[y]
LEMMA ShorterRow ==
    ASSUME NEW S, NEW l, Row(l, S), NEW k, NEW r, Shorter(r, l, k, S)
    PROVE  /\ Row(r, S) /\ Range(r) = Range(l) \ {l[k]}
           /\ \A i, j \in DOMAIN r : i < j => Follows(r, l, i, j)
<1>0. /\ r \in Seq(S) /\ Len(r) = Len(l) - 1 /\ k \in 1..Len(l)
      /\ \A i \in 1..Len(l) - 1 : r[i] = IF i < k THEN l[i] ELSE l[i+1]
  BY DEF Shorter
<1> DEFINE From(i) == IF i < k THEN i ELSE i + 1
<1>1. l \in Seq(S)
  BY DEF Row
<1>2. \A i \in 1..Len(l) - 1 : From(i) \in DOMAIN l \ {k} /\ r[i] = l[From(i)]
  BY <1>0, <1>1
<1>3. \A i, j \in 1..Len(l) - 1 : (From(i) = From(j) => i = j) /\ (i < j => From(i) < From(j))
  BY <1>0, <1>1
<1>4. \A x \in DOMAIN l \ {k} : \E i \in 1..Len(l) - 1 : From(i) = x
  <2> TAKE x \in DOMAIN l \ {k}
  <2>1. CASE x < k
    BY <1>0, <1>1, <2>1
  <2>2. CASE x > k
    <3>1. x - 1 \in 1..Len(l) - 1 /\ From(x - 1) = x
      BY <1>0, <1>1, <2>2
    <3> QED BY <3>1
  <2> QED BY <1>0, <1>1, <2>1, <2>2
<1> HIDE DEF From
<1>5. DOMAIN r = 1..Len(l) - 1
  BY <1>0
<1>6. \A i, j \in DOMAIN r : r[i] = r[j] => i = j
  BY <1>2, <1>3, <1>5 DEF Row
<1>7. \A i, j \in DOMAIN r : i < j => Follows(r, l, i, j)
  <2> SUFFICES ASSUME NEW i \in DOMAIN r, NEW j \in DOMAIN r, i < j
               PROVE  Follows(r, l, i, j)
    OBVIOUS
  <2>1. From(i) < From(j) /\ From(i) \in DOMAIN l /\ From(j) \in DOMAIN l
    BY <1>2, <1>3, <1>5
  <2> QED BY <1>2, <1>5, <2>1 DEF Follows
<1>8. Range(r) = Range(l) \ {l[k]}
  <2>1. k \in DOMAIN l
    BY <1>0, <1>1
  <2>2. \A x \in DOMAIN l : l[x] = l[k] => x = k
    BY <2>1 DEF Row
  <2>3. \A x \in Range(r) : x \in Range(l) /\ x # l[k]
    BY <1>2, <1>5, <2>2 DEF Range
  <2>4. ASSUME NEW x \in Range(l), x # l[k] PROVE x \in Range(r)
    <3>1. PICK y \in DOMAIN l \ {k} : l[y] = x
      BY <2>4 DEF Range
    <3>2. PICK i \in DOMAIN r : From(i) = y
      BY <1>4, <1>5
    <3> QED BY <1>2, <1>5, <3>1, <3>2 DEF Range
  <2> QED BY <2>3, <2>4
<1> QED BY <1>0, <1>6, <1>7, <1>8 DEF Row

\* The first waiter goes.
LEMMA TailRow ==
    ASSUME NEW S, NEW l, Row(l, S), l # <<>>
    PROVE  /\ Shorter(Tail(l), l, 1, S)
           /\ Row(Tail(l), S) /\ Range(Tail(l)) = Range(l) \ {Head(l)}
           /\ Head(l) \in Range(l) /\ Range(l) \subseteq S
           /\ Len(l) \in Nat /\ Len(Tail(l)) = Len(l) - 1
<1>1. /\ l \in Seq(S) /\ Head(l) = l[1] /\ 1 \in 1..Len(l) /\ DOMAIN l = 1..Len(l)
  BY DEF Row
<1>2. Shorter(Tail(l), l, 1, S)
  BY <1>1 DEF Shorter
<1>3. Row(Tail(l), S) /\ Range(Tail(l)) = Range(l) \ {Head(l)}
  BY <1>1, <1>2, ShorterRow
<1>4. Head(l) \in Range(l) /\ Range(l) \subseteq S
  BY <1>1 DEF Range
<1>5. Len(l) \in Nat /\ Len(Tail(l)) = Len(l) - 1
  BY <1>1
<1> QED BY <1>2, <1>3, <1>4, <1>5

\* rt_list_remove of a waiter.
LEMMA RemovedRow ==
    ASSUME NEW S, NEW l, Row(l, S), NEW t \in Range(l)
    PROVE  LET r == RemoveAt(l, CHOOSE i \in DOMAIN l : l[i] = t)
           IN  /\ \E k \in 1..Len(l) : l[k] = t /\ Shorter(r, l, k, S)
               /\ Row(r, S) /\ Range(r) = Range(l) \ {t}
<1>1. l \in Seq(S)
  BY DEF Row
<1>2. PICK k \in 1..Len(l) : l[k] = t /\ k = CHOOSE i \in DOMAIN l : l[i] = t
  <2> DEFINE k == CHOOSE i \in DOMAIN l : l[i] = t
  <2>1. \E i \in DOMAIN l : l[i] = t
    BY DEF Range
  <2>2. k \in DOMAIN l /\ l[k] = t /\ DOMAIN l = 1..Len(l)
    BY <1>1, <2>1
  <2> QED BY <2>2
<1> DEFINE u == SubSeq(l, 1, k-1)
           v == SubSeq(l, k+1, Len(l))
<1>3. RemoveAt(l, k) = u \o v
  BY DEF RemoveAt
<1>4. /\ u \in Seq(S) /\ Len(u) = k - 1
      /\ v \in Seq(S) /\ Len(v) = Len(l) - k
      /\ \A i \in 1..(k-1) : u[i] = l[i]
      /\ \A i \in 1..(Len(l) - k) : v[i] = l[i+k]
  BY <1>1, SubSeqProperties
<1> HIDE DEF u, v
<1> DEFINE r == u \o v
<1>5. /\ r \in Seq(S) /\ Len(r) = Len(l) - 1
      /\ \A i \in 1..Len(l) - 1 : r[i] = IF i <= Len(u) THEN u[i] ELSE v[i - Len(u)]
  <2>1. /\ r \in Seq(S) /\ Len(r) = Len(u) + Len(v)
        /\ \A i \in 1..Len(u) + Len(v) : r[i] = IF i <= Len(u) THEN u[i] ELSE v[i - Len(u)]
    BY <1>4, ConcatProperties
  <2>2. Len(u) + Len(v) = Len(l) - 1
    BY <1>1, <1>4
  <2> QED BY <2>1, <2>2
<1> HIDE DEF r
<1>6. \A i \in 1..Len(l) - 1 : r[i] = IF i < k THEN l[i] ELSE l[i+1]
  <2> TAKE i \in 1..Len(l) - 1
  <2>1. CASE i < k
    <3>1. i \in 1..(k-1)
      BY <1>1, <2>1
    <3> QED BY <1>4, <1>5, <2>1, <3>1
  <2>2. CASE ~(i < k)
    <3>1. i - (k-1) \in 1..(Len(l) - k) /\ (i - (k-1)) + k = i + 1
      BY <1>1, <2>2
    <3> QED BY <1>4, <1>5, <2>2, <3>1
  <2> QED BY <2>1, <2>2
<1>7. RemoveAt(l, k) = r /\ Shorter(r, l, k, S)
  BY <1>3, <1>5, <1>6 DEF r, Shorter
<1>8. Row(r, S) /\ Range(r) = Range(l) \ {t}
  BY <1>2, <1>7, ShorterRow
<1> QED BY <1>2, <1>7, <1>8

\* Another waiter comes, last ...
LEMMA AppendRow ==
    ASSUME NEW S, NEW l, Row(l, S), NEW t \in S, t \notin Range(l)
    PROVE  /\ Row(Append(l, t), S) /\ Range(Append(l, t)) = Range(l) \union {t}
           /\ Append(l, t) # <<>> /\ Len(l) \in Nat /\ Len(Append(l, t)) = Len(l) + 1
<1> DEFINE r == Append(l, t)
<1>1. /\ l \in Seq(S) /\ DOMAIN l = 1..Len(l) /\ Len(l) \in Nat
      /\ \A i \in DOMAIN l : l[i] # t
  BY DEF Row, Range
<1>2. /\ r \in Seq(S) /\ DOMAIN r = 1..Len(l) + 1 /\ Len(r) = Len(l) + 1
      /\ \A i \in 1..Len(l) : r[i] = l[i]
      /\ r[Len(l) + 1] = t
  BY <1>1
<1> HIDE DEF r
<1>3. \A i, j \in DOMAIN r : r[i] = r[j] => i = j
  BY <1>1, <1>2 DEF Row
<1>4. Range(r) = Range(l) \union {t}
  <2>1. DOMAIN r = DOMAIN l \union {Len(l) + 1}
    BY <1>1, <1>2
  <2> QED BY <1>1, <1>2, <2>1 DEF Range
<1>5. r # <<>>
  BY <1>1, <1>2
<1> QED BY <1>1, <1>2, <1>3, <1>4, <1>5 DEF r, Row

\* ... or first.
LEMMA PrependRow ==
    ASSUME NEW S, NEW l, Row(l, S), NEW t \in S, t \notin Range(l)
    PROVE  /\ Row(<<t>> \o l, S) /\ Range(<<t>> \o l) = Range(l) \union {t}
           /\ <<t>> \o l # <<>> /\ Len(l) \in Nat /\ Len(<<t>> \o l) = Len(l) + 1
           /\ Head(<<t>> \o l) = t /\ Tail(<<t>> \o l) = l
<1> DEFINE r == <<t>> \o l
<1>1. /\ l \in Seq(S) /\ DOMAIN l = 1..Len(l) /\ Len(l) \in Nat
      /\ \A i \in DOMAIN l : l[i] # t
  BY DEF Row, Range
<1>2. /\ r \in Seq(S) /\ DOMAIN r = 1..Len(l) + 1 /\ Len(r) = Len(l) + 1
      /\ \A i \in 1..Len(l) : r[i + 1] = l[i]
      /\ r[1] = t
  BY <1>1
<1>3. Tail(r) = l
  <2>1. Tail(r) \in Seq(S) /\ Len(Tail(r)) = Len(l) /\ \A i \in 1..Len(l) : Tail(r)[i] = l[i]
    BY <1>1, <1>2
  <2> QED BY <1>1, <2>1, SeqEqual
<1> HIDE DEF r
<1>4. \A i \in DOMAIN r : i = 1 \/ (i - 1 \in DOMAIN l /\ r[i] = l[i - 1])
  BY <1>1, <1>2
<1>5. \A i, j \in DOMAIN r : r[i] = r[j] => i = j
  <2> SUFFICES ASSUME NEW i \in DOMAIN r, NEW j \in DOMAIN r, r[i] = r[j] PROVE i = j
    OBVIOUS
  <2>1. i = 1 <=> j = 1
    BY <1>1, <1>2, <1>4
  <2>2. i # 1 /\ j # 1 => i - 1 = j - 1
    BY <1>4 DEF Row
  <2> QED BY <1>2, <2>1, <2>2
<1>6. Range(r) = Range(l) \union {t}
  <2>1. \A x \in Range(r) : x \in Range(l) \union {t}
    BY <1>2, <1>4 DEF Range
  <2>2. t \in Range(r) /\ \A i \in DOMAIN l : l[i] \in Range(r)
    <3>1. 1 \in DOMAIN r /\ \A i \in DOMAIN l : i + 1 \in DOMAIN r /\ r[i + 1] = l[i]
      BY <1>1, <1>2
    <3> QED BY <1>2, <3>1 DEF Range
  <2> QED BY <2>1, <2>2 DEF Range
<1>7. r # <<>> /\ Head(r) = t
  BY <1>1, <1>2
<1> QED BY <1>1, <1>2, <1>3, <1>5, <1>6, <1>7 DEF r, Row

\* As many entries as members.
LEMMA RowLength ==
    ASSUME NEW S, NEW l, Row(l, S)
    PROVE  IsFiniteSet(Range(l)) /\ Cardinality(Range(l)) = Len(l) /\ Len(l) \in Nat
<1>1. l \in Seq(S) /\ DOMAIN l = 1..Len(l) /\ Len(l) \in Nat
  BY DEF Row
<1>2. Range(l) = {l[i] : i \in 1..Len(l)}
  BY <1>1 DEF Range
<1>3. l \in [1..Len(l) -> Range(l)]
  BY <1>1 DEF Range
<1>4. l \in Surjection(1..Len(l), Range(l)) /\ l \in Injection(1..Len(l), Range(l))
  BY <1>1, <1>2, <1>3 DEF Row, Surjection, Injection, IsInjective
<1>5. IsFiniteSet(1..Len(l)) /\ Cardinality(1..Len(l)) = Len(l)
  BY <1>1, FS_Interval
<1> QED BY <1>1, <1>4, <1>5, FS_Surjection

\* The enumeration of a finite set has each of its members once.
LEMMA SetToSeqRow ==
    ASSUME NEW S, IsFiniteSet(S)
    PROVE  Row(SetToSeq(S), S) /\ Range(SetToSeq(S)) = S /\ Len(SetToSeq(S)) = Cardinality(S)
<1>1. Cardinality(S) \in Nat /\ ExistsBijection(1..Cardinality(S), S)
  BY FS_CardinalityType
<1> DEFINE n == Cardinality(S)
           s == SetToSeq(S)
<1>2. PICK g \in Bijection(1..n, S) : TRUE
  BY <1>1 DEF ExistsBijection
<1>3. g \in [1..n -> S] /\ IsInjective(g)
  BY <1>2 DEF Bijection, Injection
<1>4. s \in [1..n -> S] /\ IsInjective(s)
  BY <1>3 DEF SetToSeq
<1>5. s \in Injection(1..n, S)
  BY <1>4 DEF Injection
<1>6. IsFiniteSet(1..n) /\ Cardinality(1..n) = n
  BY <1>1, FS_Interval
<1> HIDE DEF s
<1>7. s \in Surjection(1..n, S)
  BY <1>5, <1>6, FS_Injection
<1>8. Range(s) = S
  BY <1>4, <1>7 DEF Surjection, Range
<1>9. s \in Seq(S) /\ Len(s) = n
  BY <1>1, <1>4
<1>10. \A i, j \in DOMAIN s : s[i] = s[j] => i = j
  BY <1>4 DEF IsInjective
<1> QED BY <1>8, <1>9, <1>10 DEF s, Row

LEMMA SameSetToSeq ==
    \A S : Area!SetToSeq(S) = SetToSeq(S) /\ Queue!SetToSeq(S) = SetToSeq(S)
BY DEF SetToSeq, Area!SetToSeq, Queue!SetToSeq,
       IsInjective, Area!IsInjective, Queue!IsInjective,
       Cardinality, Area!Cardinality, Queue!Cardinality

\* A set of positions has a first one.
LEMMA FirstLemma ==
    ASSUME NEW S \in SUBSET Nat, S # {}
    PROVE  Min(S) \in S /\ \A y \in S : Min(S) =< y
<1> DEFINE R == {ss \in Nat \X Nat : ss[1] < ss[2]}
<1>1. IsWellFoundedOn(R, Nat)
  BY NatLessThanWellFounded DEF OpToRel
<1>2. \A m, n \in Nat : m < n => <<m, n>> \in R
  OBVIOUS
<1> HIDE DEF R
<1>3. PICK x \in S : \A y \in S : <<y, x>> \notin R
  BY <1>1, WFMin
<1>4. \A y \in S : x =< y
  <2> TAKE y \in S
  <2>1. ~(y < x) /\ x \in Nat /\ y \in Nat
    BY <1>2, <1>3
  <2> QED BY <2>1
<1> QED BY <1>3, <1>4 DEF Min

-----------------------------------------------------------------------------
(* Semaphore: the suspend list                                              *)

\* A list without repetitions, most urgent first if the semaphore is ordered.
Sorted(l) == Ordered => \A i, j \in DOMAIN l : i < j => Prio[l[i]] =< Prio[l[j]]
Line(l) == Row(l, Threads) /\ Sorted(l)

\* It stays sorted when some leave.
LEMMA ShorterLine ==
    ASSUME NEW l, Line(l), NEW k, NEW r, Shorter(r, l, k, Threads)
    PROVE  Line(r) /\ Range(r) = Range(l) \ {l[k]}
<1>1. /\ Row(r, Threads) /\ Range(r) = Range(l) \ {l[k]}
      /\ \A i, j \in DOMAIN r : i < j => Follows(r, l, i, j)
  BY ShorterRow DEF Line
<1>2. ASSUME Ordered, NEW i \in DOMAIN r, NEW j \in DOMAIN r, i < j
      PROVE  Prio[r[i]] =< Prio[r[j]]
  <2>1. Follows(r, l, i, j)
    BY <1>1, <1>2
  <2> QED BY <1>2, <2>1 DEF Follows, Line, Sorted
<1> QED BY <1>1, <1>2 DEF Line, Sorted

\* r is l with t as entry k: those behind it moved back.
Longer(r, l, k, t) ==
    /\ r \in Seq(Threads) /\ Len(r) = Len(l) + 1 /\ k \in 1..Len(l) + 1
    /\ \A i \in 1..Len(l) + 1 : r[i] = IF i < k THEN l[i] ELSE IF i = k THEN t ELSE l[i-1]

\* ... in a place where it keeps the order.
LEMMA LongerLine ==
    ASSUME NEW l, Line(l), NEW k, NEW t \in Threads, t \notin Range(l),
           NEW r, Longer(r, l, k, t),
           Ordered => /\ \A i \in 1..Len(l) : i < k => Prio[l[i]] =< Prio[t]
                      /\ \A i \in 1..Len(l) : i >= k => Prio[t] =< Prio[l[i]]
    PROVE  Line(r) /\ Range(r) = Range(l) \union {t}
<1>0. /\ r \in Seq(Threads) /\ Len(r) = Len(l) + 1 /\ k \in 1..Len(l) + 1
      /\ \A i \in 1..Len(l) + 1 : r[i] = IF i < k THEN l[i] ELSE IF i = k THEN t ELSE l[i-1]
  BY DEF Longer
<1> DEFINE From(i) == IF i < k THEN i ELSE i - 1
<1>1. l \in Seq(Threads) /\ DOMAIN r = 1..Len(l) + 1 /\ DOMAIN l = 1..Len(l)
  BY <1>0 DEF Line, Row, Sorted
<1>2. r[k] = t
  BY <1>0
<1>3. \A i \in DOMAIN r \ {k} : From(i) \in DOMAIN l /\ r[i] = l[From(i)]
  BY <1>0, <1>1
<1>4. \A i, j \in DOMAIN r \ {k} : /\ From(i) = From(j) => i = j
                                   /\ i < j => From(i) < From(j)
  BY <1>0, <1>1
<1>5. \A i \in DOMAIN r \ {k} : /\ i < k => From(i) < k
                                /\ k < i => From(i) >= k
  BY <1>0, <1>1
<1>6. \A x \in DOMAIN l : \E i \in DOMAIN r \ {k} : From(i) = x
  <2> TAKE x \in DOMAIN l
  <2>1. CASE x < k
    BY <1>0, <1>1, <2>1
  <2>2. CASE x >= k
    <3>1. x + 1 \in DOMAIN r \ {k} /\ From(x + 1) = x
      BY <1>0, <1>1, <2>2
    <3> QED BY <3>1
  <2> QED BY <1>0, <1>1, <2>1, <2>2
<1>7. \A x \in DOMAIN l : l[x] # t
  BY DEF Range
<1> HIDE DEF From
<1>8. \A i, j \in DOMAIN r : r[i] = r[j] => i = j
  <2> SUFFICES ASSUME NEW i \in DOMAIN r, NEW j \in DOMAIN r, r[i] = r[j] PROVE i = j
    OBVIOUS
  <2>1. CASE i # k /\ j # k
    BY <1>3, <1>4, <2>1 DEF Line, Row, Sorted
  <2>2. CASE i = k \/ j = k
    BY <1>2, <1>3, <1>7, <2>2
  <2> QED BY <2>1, <2>2
<1>9. ASSUME Ordered, NEW i \in DOMAIN r, NEW j \in DOMAIN r, i < j
      PROVE  Prio[r[i]] =< Prio[r[j]]
  <2>1. CASE i # k /\ j # k
    BY <1>3, <1>4, <1>9, <2>1 DEF Line, Row, Sorted
  <2>2. CASE i = k
    BY <1>0, <1>1, <1>2, <1>3, <1>5, <1>9, <2>2
  <2>3. CASE j = k
    BY <1>0, <1>1, <1>2, <1>3, <1>5, <1>9, <2>3
  <2> QED BY <2>1, <2>2, <2>3
<1>10. Range(r) = Range(l) \union {t}
  <2>1. Range(r) = {r[i] : i \in DOMAIN r} /\ Range(l) = {l[i] : i \in DOMAIN l} /\ k \in DOMAIN r
    BY <1>0, <1>1 DEF Range
  <2> QED BY <1>2, <1>3, <1>6, <2>1
<1> QED BY <1>0, <1>8, <1>9, <1>10 DEF Line, Row, Sorted

\* The first waiter goes: nobody is more urgent.
LEMMA TailLemma ==
    ASSUME SemaphoreAssumption, NEW l, Line(l), l # <<>>
    PROVE  /\ Line(Tail(l)) /\ Range(Tail(l)) = Range(l) \ {Head(l)}
           /\ Head(l) \in Range(l) /\ Range(l) \subseteq Threads
           /\ Ordered => \A u \in Range(l) : Prio[Head(l)] =< Prio[u]
<1>1. /\ l \in Seq(Threads) /\ Head(l) = l[1] /\ 1 \in 1..Len(l) /\ DOMAIN l = 1..Len(l)
  BY DEF Line, Row
<1>2. /\ Shorter(Tail(l), l, 1, Threads)
      /\ Head(l) \in Range(l) /\ Range(l) \subseteq Threads
  BY TailRow DEF Line
<1>3. Line(Tail(l)) /\ Range(Tail(l)) = Range(l) \ {Head(l)}
  BY <1>1, <1>2, ShorterLine
<1>5. ASSUME Ordered, NEW u \in Range(l) PROVE Prio[Head(l)] =< Prio[u]
  <2>1. PICK i \in DOMAIN l : l[i] = u
    BY DEF Range
  <2>2. CASE i = 1
    <3>1. Prio[Head(l)] \in Nat
      BY <1>2 DEF SemaphoreAssumption
    <3> QED BY <1>1, <2>1, <2>2, <3>1
  <2>3. CASE 1 < i
    BY <1>1, <1>5, <2>1, <2>3 DEF Line, Sorted
  <2> QED BY <1>1, <2>1, <2>2, <2>3
<1> QED BY <1>2, <1>3, <1>5

\* rt_list_remove of a waiter.
LEMMA WithoutLemma ==
    ASSUME NEW l, Line(l), NEW t \in Range(l)
    PROVE  Line(Without(l, t)) /\ Range(Without(l, t)) = Range(l) \ {t}
<1>1. PICK k \in 1..Len(l) : l[k] = t /\ Shorter(Without(l, t), l, k, Threads)
  BY RemovedRow DEF Line, Without
<1> QED BY <1>1, ShorterLine

\* rt_ipc_list_suspend, for either flag.
LEMMA EnlistedLemma ==
    ASSUME SemaphoreAssumption, NEW l, Line(l), NEW t \in Threads, t \notin Range(l)
    PROVE  Line(Enlisted(l, t)) /\ Range(Enlisted(l, t)) = Range(l) \union {t}
<1> DEFINE less == {i \in DOMAIN l : Ordered /\ Prio[t] < Prio[l[i]]}
           k == IF less = {} THEN Len(l) + 1 ELSE Min(less)
<1>1. l \in Seq(Threads) /\ DOMAIN l = 1..Len(l)
  BY DEF Line, Row, Sorted
<1>2. Prio[t] \in Nat /\ \A i \in 1..Len(l) : Prio[l[i]] \in Nat
  BY <1>1 DEF SemaphoreAssumption
<1>3. Enlisted(l, t) = InsertAt(l, k, t)
  BY DEF Enlisted
<1>4. \A i : i \in less <=> i \in 1..Len(l) /\ Ordered /\ Prio[t] < Prio[l[i]]
  BY <1>1
<1>5. /\ k \in 1..Len(l) + 1
      /\ k \in less \/ (less = {} /\ k = Len(l) + 1)
      /\ \A i \in less : k =< i
  <2>1. CASE less = {}
    BY <1>1, <2>1
  <2>2. CASE less # {}
    <3>1. less \in SUBSET Nat /\ k = Min(less)
      BY <1>1, <2>2
    <3> HIDE DEF less, k
    <3>2. k \in less /\ \A i \in less : k =< i
      BY <2>2, <3>1, FirstLemma
    <3> QED BY <1>1, <1>4, <3>2
  <2> QED BY <2>1, <2>2
<1> HIDE DEF less, k
<1>6. Longer(InsertAt(l, k, t), l, k, t)
  <2> DEFINE u == SubSeq(l, 1, k-1)
             v == SubSeq(l, k, Len(l))
             w == Append(u, t)
             r == w \o v
  <2>1. /\ u \in Seq(Threads) /\ Len(u) = k - 1
        /\ v \in Seq(Threads) /\ Len(v) = Len(l) - k + 1
        /\ \A i \in 1..(k-1) : u[i] = l[i]
        /\ \A i \in 1..(Len(l) - k + 1) : v[i] = l[i+k-1]
    BY <1>1, <1>5, SubSeqProperties
  <2>2. InsertAt(l, k, t) = (u \o <<t>>) \o v
    BY DEF InsertAt
  <2> HIDE DEF u, v
  <2>3. InsertAt(l, k, t) = r
    BY <2>1, <2>2
  <2>4. /\ w \in Seq(Threads) /\ Len(w) = k
        /\ \A i \in 1..k : w[i] = IF i < k THEN l[i] ELSE t
    <3>1. w \in Seq(Threads) /\ Len(w) = k /\ \A i \in 1..k : w[i] = IF i < k THEN u[i] ELSE t
      BY <1>1, <1>5, <2>1
    <3> HIDE DEF w
    <3>2. \A i \in 1..k : i < k => i \in 1..(k-1)
      BY <1>1, <1>5
    <3> QED BY <2>1, <3>1, <3>2
  <2> HIDE DEF w
  <2>5. /\ r \in Seq(Threads) /\ Len(r) = Len(w) + Len(v)
        /\ \A i \in 1..Len(w) + Len(v) : r[i] = IF i <= Len(w) THEN w[i] ELSE v[i - Len(w)]
    <3>1. w \in Seq(Threads) /\ v \in Seq(Threads)
      BY <2>1, <2>4
    <3> QED BY <3>1, ConcatProperties
  <2>6. Len(w) + Len(v) = Len(l) + 1
    BY <1>1, <1>5, <2>1, <2>4
  <2> HIDE DEF r
  <2>7. \A i \in 1..Len(l) + 1 : r[i] = IF i < k THEN l[i] ELSE IF i = k THEN t ELSE l[i-1]
    <3> SUFFICES ASSUME NEW i \in 1..Len(l) + 1
                 PROVE  r[i] = IF i < k THEN l[i] ELSE IF i = k THEN t ELSE l[i-1]
      OBVIOUS
    <3>1. r[i] = IF i <= k THEN w[i] ELSE v[i - k]
      BY <2>4, <2>5, <2>6
    <3>2. CASE i <= k
      <4>1. i \in 1..k
        BY <1>1, <1>5, <3>2
      <4> QED BY <2>4, <3>1, <3>2, <4>1
    <3>3. CASE i > k
      <4>1. i - k \in 1..(Len(l) - k + 1) /\ (i - k) + k - 1 = i - 1
        BY <1>1, <1>5, <3>3
      <4>2. v[i - k] = l[i - 1]
        BY <2>1, <4>1
      <4> QED BY <1>1, <1>5, <3>1, <3>3, <4>2
    <3> QED BY <1>1, <1>5, <3>2, <3>3
  <2> QED BY <1>5, <2>3, <2>5, <2>6, <2>7 DEF Longer
<1>7. ASSUME Ordered
      PROVE  /\ \A i \in 1..Len(l) : i < k => Prio[l[i]] =< Prio[t]
             /\ \A i \in 1..Len(l) : i >= k => Prio[t] =< Prio[l[i]]
  <2>1. ASSUME NEW i \in 1..Len(l), i < k PROVE Prio[l[i]] =< Prio[t]
    <3>1. i \notin less
      BY <1>1, <1>5, <2>1
    <3> QED BY <1>2, <1>4, <1>7, <3>1
  <2>2. ASSUME NEW i \in 1..Len(l), i >= k PROVE Prio[t] =< Prio[l[i]]
    <3>1. k \in 1..Len(l) /\ Prio[t] < Prio[l[k]]
      BY <1>1, <1>4, <1>5, <2>2
    <3>2. k = i \/ Prio[l[k]] =< Prio[l[i]]
      BY <1>1, <1>7, <2>2, <3>1 DEF Line, Row, Sorted
    <3>3. Prio[l[k]] \in Nat /\ Prio[l[i]] \in Nat
      BY <1>2, <3>1
    <3> QED BY <1>2, <3>1, <3>2, <3>3
  <2> QED BY <2>1, <2>2
<1>8. Line(InsertAt(l, k, t)) /\ Range(InsertAt(l, k, t)) = Range(l) \union {t}
  <2> DEFINE r == InsertAt(l, k, t)
  <2>1. Longer(r, l, k, t)
    BY <1>6
  <2> HIDE DEF r
  <2>2. Line(r) /\ Range(r) = Range(l) \union {t}
    BY <1>7, <2>1, LongerLine
  <2> QED BY <2>2 DEF r
<1> QED BY <1>3, <1>8

-----------------------------------------------------------------------------
(* The inductive invariant                                                  *)

\* Who waits is inside its call and was told nothing yet.
WaitersInside ==
    /\ value \in 0..Width - 1 /\ balance \in Int
    /\ inside \in SUBSET Threads /\ IsFiniteSet(inside)
    /\ err \in [Threads -> {"ok", "timeout", "error"}]
    /\ Line(waiting) /\ armed \subseteq Range(waiting)
    /\ \A t \in Range(waiting) : t \in inside /\ err[t] = "ok"
    /\ waiting # <<>> => value = 0

\* The units the callers may still take are in the count or granted; the count
\* has wrapped k times.
Owed == \E k \in Int : balance - Cardinality(Granted) = value + k * Width

Inv == WaitersInside /\ Owed /\ NobodyLeft

\* UnitsKept is part of it.
LEMMA UnitsLemma ==
    ASSUME SemaphoreAssumption, Inv
    PROVE  UnitsKept
<1>1. PICK k \in Int : balance - Cardinality(Granted) = value + k * Width
  BY DEF Inv, Owed
<1>2. value \in 0..Width - 1 /\ Width \in Nat \ {0}
  BY DEF Inv, WaitersInside, SemaphoreAssumption
<1>3. (value + k * Width) % Width = value
  BY <1>2
<1> QED BY <1>1, <1>3 DEF Inv, WaitersInside, UnitsKept

\* Threads that were granted a unit are finitely many.
LEMMA GrantedLemma ==
    ASSUME Inv
    PROVE  IsFiniteSet(Granted) /\ Cardinality(Granted) \in Nat
<1>1. Granted \subseteq inside
  BY DEF Granted
<1> QED BY <1>1, FS_Subset, FS_CardinalityType DEF Inv, WaitersInside

-----------------------------------------------------------------------------
(* The calls                                                                *)

LEMMA TakeStep ==
    ASSUME SemaphoreAssumption, Inv, NEW t \in Threads, Take(t)
    PROVE  Inv'
<1>1. /\ phase = "live" /\ value > 0 /\ value' = value - 1 /\ balance' = balance - 1
      /\ UNCHANGED <<waiting, armed, err, inside, phase>>
  BY DEF Take, Outside
<1>2. Granted' = Granted
  BY <1>1 DEF Granted
<1>3. Owed'
  <2>1. PICK k \in Int : balance - Cardinality(Granted) = value + k * Width
    BY DEF Inv, Owed
  <2>2. (balance - 1) - Cardinality(Granted) = (value - 1) + k * Width
    BY <2>1, GrantedLemma DEF Inv, WaitersInside, SemaphoreAssumption
  <2> QED BY <1>1, <1>2, <2>2 DEF Owed
<1>4. WaitersInside'
  BY <1>1 DEF Inv, WaitersInside, SemaphoreAssumption, Line, Row, Sorted
<1> QED BY <1>1, <1>3, <1>4 DEF Inv, NobodyLeft

LEMMA WaitStep ==
    ASSUME SemaphoreAssumption, Inv, NEW t \in Threads, NEW b \in BOOLEAN, Wait(t, b)
    PROVE  Inv'
<1>1. /\ phase = "live" /\ t \notin inside /\ value = 0
      /\ waiting' = Enlisted(waiting, t)
      /\ armed' = IF b THEN armed \union {t} ELSE armed
      /\ err' = [err EXCEPT ![t] = "ok"] /\ inside' = inside \union {t}
      /\ UNCHANGED <<value, phase, balance>>
  BY DEF Wait, Outside
<1>2. Line(waiting) /\ t \notin Range(waiting)
  BY <1>1 DEF Inv, WaitersInside
<1>3. Line(waiting') /\ Range(waiting') = Range(waiting) \union {t}
  BY <1>1, <1>2, EnlistedLemma
<1>4. /\ err' \in [Threads -> {"ok", "timeout", "error"}] /\ err'[t] = "ok"
      /\ \A u \in Threads \ {t} : err'[u] = err[u]
  BY <1>1 DEF Inv, WaitersInside
<1>5. inside' \in SUBSET Threads /\ IsFiniteSet(inside')
  BY <1>1, FS_AddElement DEF Inv, WaitersInside
<1>6. Granted' = Granted
  BY <1>1, <1>3, <1>4 DEF Granted, Inv, WaitersInside
<1>7. WaitersInside'
  <2>1. \A u \in Range(waiting) : u \in inside /\ u \in Threads /\ err[u] = "ok"
    BY DEF Inv, WaitersInside
  <2>2. \A u \in Range(waiting') : u \in inside' /\ err'[u] = "ok"
    BY <1>1, <1>3, <1>4, <2>1
  <2>3. value' \in 0..Width - 1 /\ balance' \in Int /\ value' = 0
    BY <1>1 DEF Inv, WaitersInside
  <2>4. armed' \subseteq Range(waiting')
    BY <1>1, <1>3 DEF Inv, WaitersInside
  <2> QED BY <1>3, <1>4, <1>5, <2>2, <2>3, <2>4 DEF WaitersInside
<1>8. Owed'
  BY <1>1, <1>6 DEF Inv, Owed
<1> QED BY <1>1, <1>7, <1>8 DEF Inv, NobodyLeft

\* A thread that was granted a unit returns with it.
LEMMA ReturnStep ==
    ASSUME SemaphoreAssumption, Inv, NEW t \in Threads, Return(t)
    PROVE  Inv'
<1>1. /\ t \in inside /\ t \notin Range(waiting) /\ inside' = inside \ {t}
      /\ balance' = IF err[t] = "ok" THEN balance - 1 ELSE balance
      /\ UNCHANGED <<value, waiting, armed, err, phase>>
  BY DEF Return
<1>2. WaitersInside'
  <2>1. inside' \in SUBSET Threads /\ IsFiniteSet(inside')
    BY <1>1, FS_RemoveElement DEF Inv, WaitersInside
  <2>2. balance' \in Int
    BY <1>1 DEF Inv, WaitersInside
  <2> QED BY <1>1, <2>1, <2>2 DEF Inv, WaitersInside, Line, Row, Sorted
<1>3. PICK k \in Int : balance - Cardinality(Granted) = value + k * Width
  BY DEF Inv, Owed
<1>4. Owed'
  <2>1. CASE err[t] = "ok"
    <3>1. t \in Granted /\ Granted' = Granted \ {t}
      BY <1>1, <2>1 DEF Granted
    <3>2. Cardinality(Granted') = Cardinality(Granted) - 1
      BY <3>1, GrantedLemma, FS_RemoveElement
    <3>3. balance' - Cardinality(Granted') = balance - Cardinality(Granted)
      BY <1>1, <2>1, <3>2, GrantedLemma DEF Inv, WaitersInside
    <3> QED BY <1>1, <1>3, <3>3 DEF Owed
  <2>2. CASE err[t] # "ok"
    <3>1. Granted' = Granted
      BY <1>1, <2>2 DEF Granted
    <3> QED BY <1>1, <1>3, <2>2, <3>1 DEF Owed
  <2> QED BY <2>1, <2>2
<1> QED BY <1>1, <1>2, <1>4 DEF Inv, NobodyLeft

\* The first waiter is granted the unit, or the count goes up and may wrap.
LEMMA ReleaseStep ==
    ASSUME SemaphoreAssumption, Inv, Release
    PROVE  Inv'
<1>1. balance' = balance + 1 /\ UNCHANGED <<err, inside, phase>>
  BY DEF Release
<1>2. PICK k \in Int : balance - Cardinality(Granted) = value + k * Width
  BY DEF Inv, Owed
<1>3. CASE waiting = <<>>
  <2>1. value' = (value + 1) % Width /\ UNCHANGED <<waiting, armed>>
    BY <1>3 DEF Release
  <2>2. value \in 0..Width - 1 /\ Width \in Nat \ {0} /\ balance \in Int
    BY DEF Inv, WaitersInside, SemaphoreAssumption
  <2>3. value' = IF value + 1 = Width THEN 0 ELSE value + 1
    BY <2>1, <2>2
  <2>4. value' \in 0..Width - 1
    BY <2>2, <2>3
  <2>5. Granted' = Granted
    BY <1>1, <2>1 DEF Granted
  <2>6. Owed'
    <3>1. CASE value + 1 = Width
      <4>1. balance' - Cardinality(Granted) = value' + (k + 1) * Width
        BY <1>1, <1>2, <2>2, <2>3, <3>1, GrantedLemma
      <4> QED BY <2>5, <4>1 DEF Owed
    <3>2. CASE value + 1 # Width
      <4>1. balance' - Cardinality(Granted) = value' + k * Width
        BY <1>1, <1>2, <2>2, <2>3, <3>2, GrantedLemma
      <4> QED BY <2>5, <4>1 DEF Owed
    <3> QED BY <3>1, <3>2
  <2>7. WaitersInside'
    BY <1>1, <1>3, <2>1, <2>2, <2>4 DEF Inv, WaitersInside, Line, Row, Sorted
  <2> QED BY <1>1, <2>1, <2>6, <2>7 DEF Inv, NobodyLeft
<1>4. CASE waiting # <<>>
  <2>1. waiting' = Tail(waiting) /\ armed' = armed \ {Head(waiting)} /\ value' = value
    BY <1>4 DEF Release
  <2>2. PICK u : u = Head(waiting)
    OBVIOUS
  <2>3. /\ Line(waiting') /\ Range(waiting') = Range(waiting) \ {u}
        /\ u \in Range(waiting)
    BY <1>4, <2>1, <2>2, TailLemma DEF Inv, WaitersInside
  <2>4. u \in inside /\ err[u] = "ok" /\ value = 0
    BY <1>4, <2>3 DEF Inv, WaitersInside
  <2>5. u \notin Granted /\ Granted' = Granted \union {u}
    BY <1>1, <2>3, <2>4 DEF Granted
  <2>6. Cardinality(Granted') = Cardinality(Granted) + 1
    BY <2>5, GrantedLemma, FS_AddElement
  <2>7. Owed'
    <3>1. balance' - Cardinality(Granted') = balance - Cardinality(Granted)
      BY <1>1, <2>6, GrantedLemma DEF Inv, WaitersInside
    <3> QED BY <1>2, <2>1, <3>1 DEF Owed
  <2>8. WaitersInside'
    BY <1>1, <2>1, <2>2, <2>3, <2>4 DEF Inv, WaitersInside
  <2>9. NobodyLeft'
    BY <1>1, <1>4 DEF Inv, NobodyLeft
  <2> QED BY <2>7, <2>8, <2>9 DEF Inv
<1> QED BY <1>3, <1>4

\* A waiter is told something else than RT_EOK: nothing is granted.
LEMMA FailedStep ==
    ASSUME SemaphoreAssumption, Inv, NEW u \in Range(waiting),
           NEW e \in {"timeout", "error"}, err' = [err EXCEPT ![u] = e],
           Line(waiting'), Range(waiting') = Range(waiting) \ {u}, armed' = armed \ {u},
           UNCHANGED <<value, inside, balance>>
    PROVE  WaitersInside' /\ Owed'
<1>1. u \in Threads /\ u \in inside
  BY DEF Inv, WaitersInside
<1>2. /\ err' \in [Threads -> {"ok", "timeout", "error"}] /\ err'[u] = e
      /\ \A t \in Threads \ {u} : err'[t] = err[t]
  BY <1>1 DEF Inv, WaitersInside
<1>3. Granted' = Granted
  BY <1>1, <1>2 DEF Granted, Inv, WaitersInside
<1>4. WaitersInside'
  <2>1. \A t \in Range(waiting) : t \in Threads
    BY DEF Inv, WaitersInside
  <2>2. value = 0
    BY DEF Inv, WaitersInside, Range
  <2> QED BY <1>2, <2>1, <2>2 DEF Inv, WaitersInside
<1>5. Owed'
  BY <1>3 DEF Inv, Owed
<1> QED BY <1>4, <1>5

LEMMA TimeoutStep ==
    ASSUME SemaphoreAssumption, Inv, NEW t \in Threads, Timeout(t)
    PROVE  Inv'
<1>1. /\ t \in armed /\ phase # "wild" /\ armed' = armed \ {t}
      /\ waiting' = Without(waiting, t) /\ err' = [err EXCEPT ![t] = "timeout"]
      /\ UNCHANGED <<value, inside, phase, balance>>
  BY DEF Timeout
<1>2. t \in Range(waiting) /\ Line(waiting)
  BY <1>1 DEF Inv, WaitersInside
<1>3. Line(waiting') /\ Range(waiting') = Range(waiting) \ {t}
  BY <1>1, <1>2, WithoutLemma
<1>4. WaitersInside' /\ Owed'
  BY <1>1, <1>2, <1>3, FailedStep
<1>5. NobodyLeft'
  BY <1>1, <1>2 DEF Inv, NobodyLeft, Range
<1> QED BY <1>4, <1>5 DEF Inv

LEMMA ResetStep ==
    ASSUME SemaphoreAssumption, Inv, NEW n \in 0..Width - 1, Reset(n)
    PROVE  Inv'
<1>1. /\ waiting' = <<>> /\ armed' = {}
      /\ err' = [t \in Threads |-> IF t \in Range(waiting) THEN "error" ELSE err[t]]
      /\ value' = n /\ balance' = n + Cardinality(Granted)
      /\ UNCHANGED <<inside, phase>>
  BY DEF Reset
<1>2. Range(<<>>) = {} /\ Line(<<>>)
  BY DEF Range, Line, Row, Sorted
<1>3. Granted' = Granted
  <2>1. \A t \in inside : t \in Threads
    BY DEF Inv, WaitersInside
  <2> QED BY <1>1, <1>2, <2>1 DEF Granted
<1>4. n \in Int /\ Width \in Int /\ Cardinality(Granted) \in Nat
  BY GrantedLemma DEF SemaphoreAssumption
<1>5. Owed'
  <2>1. balance' - Cardinality(Granted') = value' + 0 * Width
    BY <1>1, <1>3, <1>4
  <2> QED BY <2>1 DEF Owed
<1>6. WaitersInside'
  <2>1. err' \in [Threads -> {"ok", "timeout", "error"}]
    BY <1>1 DEF Inv, WaitersInside
  <2>2. balance' \in Int /\ value' \in 0..Width - 1
    BY <1>1, <1>4
  <2> QED BY <1>1, <1>2, <2>1, <2>2 DEF Inv, WaitersInside
<1> QED BY <1>1, <1>5, <1>6 DEF Inv, NobodyLeft

LEMMA DeleteStep ==
    ASSUME SemaphoreAssumption, Inv, DeleteCheck \/ DeleteTake
    PROVE  Inv'
<1>1. ASSUME UNCHANGED <<value, waiting, armed, err, inside, balance>>
      PROVE  WaitersInside' /\ Owed'
  <2>1. Granted' = Granted
    BY <1>1 DEF Granted
  <2> QED BY <1>1, <2>1 DEF Inv, WaitersInside, Owed, Line, Row, Sorted
<1>2. CASE DeleteCheck
  BY <1>1, <1>2 DEF DeleteCheck, Inv, NobodyLeft
<1>3. CASE DeleteTake /\ waiting = <<>>
  BY <1>1, <1>3 DEF DeleteTake, Inv, NobodyLeft
<1>4. CASE DeleteTake /\ waiting # <<>>
  <2>1. PICK u : u = Head(waiting)
    OBVIOUS
  <2>2. /\ waiting' = Tail(waiting) /\ armed' = armed \ {u}
        /\ err' = [err EXCEPT ![u] = "error"] /\ phase' = "check"
        /\ UNCHANGED <<value, inside, balance>>
    BY <1>4, <2>1 DEF DeleteTake
  <2>3. /\ Line(waiting') /\ Range(waiting') = Range(waiting) \ {u} /\ u \in Range(waiting)
    BY <1>4, <2>1, <2>2, TailLemma DEF Inv, WaitersInside
  <2>4. WaitersInside' /\ Owed'
    BY <2>2, <2>3, FailedStep
  <2> QED BY <2>2, <2>4 DEF Inv, NobodyLeft
<1> QED BY <1>2, <1>3, <1>4

-----------------------------------------------------------------------------
(* The theorems                                                             *)

LEMMA InvStarts ==
    ASSUME SemaphoreAssumption, Init
    PROVE  Inv
<1>1. /\ value = Initial /\ balance = Initial /\ waiting = <<>> /\ armed = {}
      /\ inside = {} /\ err = [t \in Threads |-> "ok"] /\ phase = "live"
  BY DEF Init
<1>2. Range(<<>>) = {} /\ Line(<<>>)
  BY DEF Range, Line, Row, Sorted
<1>3. WaitersInside
  BY <1>1, <1>2, FS_EmptySet DEF WaitersInside, SemaphoreAssumption
<1>4. Granted = {} /\ Cardinality({}) = 0
  BY <1>1, FS_EmptySet DEF Granted
<1>5. Owed
  <2>1. Initial \in Int /\ Width \in Int
    BY DEF SemaphoreAssumption
  <2>2. balance - Cardinality(Granted) = value + 0 * Width
    BY <1>1, <1>4, <2>1
  <2> QED BY <2>2 DEF Owed
<1> QED BY <1>1, <1>3, <1>5 DEF Inv, NobodyLeft

LEMMA InvSteps ==
    ASSUME SemaphoreAssumption, Inv, [Next]_vars
    PROVE  Inv'
<1>1. CASE UNCHANGED vars
  <2>1. Granted' = Granted
    BY <1>1 DEF vars, Granted
  <2> QED BY <1>1, <2>1 DEF vars, Inv, WaitersInside, Owed, Line, NobodyLeft
<1>2. CASE Next
  BY <1>2, TakeStep, WaitStep, ReturnStep, ReleaseStep, TimeoutStep, ResetStep,
     DeleteStep DEF Next
<1> QED BY <1>1, <1>2

LEMMA InvHolds == ASSUME SemaphoreAssumption PROVE Spec => []Inv
<1>1. Init => Inv
  BY InvStarts
<1>2. Inv /\ [Next]_vars => Inv'
  BY InvSteps
<1> QED BY <1>1, <1>2, PTL DEF Spec

\* The fields have their types; how far rt_sem_delete is the invariant leaves open.
Staged == phase \in {"live", "check", "take", "gone", "wild"}
LEMMA StagedSteps == (Init => Staged) /\ (Staged /\ [Next]_vars => Staged')
BY DEF Init, Staged, Next, vars, Take, Wait, Return, Release, Timeout, Reset, DeleteCheck,
       DeleteTake
\* ... and so the count, the list and the errors have theirs.
LEMMA TypedHolds == ASSUME SemaphoreAssumption PROVE Spec => []TypeOK
<1>1. Inv /\ Staged => TypeOK
  BY DEF Inv, WaitersInside, Line, Row, Staged, TypeOK
<1> QED BY <1>1, InvHolds, StagedSteps, PTL DEF Spec

\* Every unit released is in sem->value, taken, or granted to the thread woken for
\* it, modulo the wrap of the count; and nobody waits while there is one.
THEOREM NoUnitLost == ASSUME SemaphoreAssumption PROVE Spec => []UnitsKept
<1>1. Inv => UnitsKept
  BY UnitsLemma
<1> QED BY <1>1, InvHolds, PTL

\* rt_sem_delete leaves nobody suspended on what it frees.
THEOREM DeletedEmpty == ASSUME SemaphoreAssumption PROVE Spec => []NobodyLeft
<1>1. Inv => NobodyLeft
  BY DEF Inv
<1> QED BY <1>1, InvHolds, PTL

\* Who leaves the suspend list was granted a unit as its first and most urgent
\* waiter, timed out, or was told of a reset or deletion; nobody leaves it else.
THEOREM InTurn == ASSUME SemaphoreAssumption PROVE Spec => FirstServed
<1>1. ASSUME Inv, Next, NEW t \in Range(waiting) \ Range(waiting')
      PROVE  \/ /\ err'[t] = "ok" /\ balance' = balance + 1
                /\ t = Head(waiting) /\ t \notin armed'
                /\ Ordered => \A u \in Range(waiting) : Prio[t] =< Prio[u]
             \/ err'[t] = "timeout" /\ t \in armed /\ balance' = balance
             \/ err'[t] = "error" /\ (waiting' = <<>> \/ phase = "take")
  <2>1. /\ Line(waiting) /\ waiting # <<>> /\ t \in Threads /\ err[t] = "ok"
        /\ err \in [Threads -> {"ok", "timeout", "error"}] /\ armed \subseteq Range(waiting)
    BY <1>1 DEF Inv, WaitersInside, Range
  <2>2. waiting' # waiting
    BY <1>1
  <2>3. CASE Release
    <3>1. /\ waiting' = Tail(waiting) /\ armed' = armed \ {Head(waiting)}
          /\ balance' = balance + 1 /\ err' = err
      BY <2>1, <2>3 DEF Release
    <3>2. /\ t = Head(waiting)
          /\ (Ordered => \A u \in Range(waiting) : Prio[Head(waiting)] =< Prio[u])
      BY <1>1, <2>1, <3>1, TailLemma
    <3> QED BY <2>1, <3>1, <3>2
  <2>4. CASE DeleteTake
    <3>1. /\ waiting' = Tail(waiting) /\ phase = "take"
          /\ err' = [err EXCEPT ![Head(waiting)] = "error"]
      BY <2>1, <2>4 DEF DeleteTake
    <3>2. t = Head(waiting)
      BY <1>1, <2>1, <3>1, TailLemma
    <3> QED BY <2>1, <3>1, <3>2
  <2>5. CASE \E n \in 0..Width - 1 : Reset(n)
    BY <1>1, <2>1, <2>5 DEF Reset
  <2>6. ASSUME NEW u \in Threads, Timeout(u)
        PROVE  err'[t] = "timeout" /\ t \in armed /\ balance' = balance
    <3>1. /\ u \in armed /\ waiting' = Without(waiting, u) /\ balance' = balance
          /\ err' = [err EXCEPT ![u] = "timeout"]
      BY <2>6 DEF Timeout
    <3>2. u \in Range(waiting)
      BY <2>1, <3>1
    <3>3. t = u
      BY <1>1, <2>1, <3>1, <3>2, WithoutLemma
    <3> QED BY <2>1, <3>1, <3>3
  <2>7. ASSUME NEW u \in Threads, NEW b \in BOOLEAN, Wait(u, b)
        PROVE  FALSE
    <3>1. u \notin inside /\ waiting' = Enlisted(waiting, u)
      BY <2>7 DEF Wait, Outside
    <3>2. u \notin Range(waiting)
      BY <1>1, <3>1 DEF Inv, WaitersInside
    <3> QED BY <1>1, <2>1, <3>1, <3>2, EnlistedLemma
  <2> QED BY <1>1, <2>2, <2>3, <2>4, <2>5, <2>6, <2>7 DEF Next, Take, Return, DeleteCheck
<1>2. Inv /\ [Next]_vars => [ServedInOrder]_vars
  BY <1>1 DEF ServedInOrder
<1> QED BY <1>2, InvHolds, PTL DEF Spec, FirstServed

-----------------------------------------------------------------------------
(* Event: the walk of rt_event_send                                         *)

\* The function that FoldLeft folds with, on the lists of positions up to m.
Folds(f, m, z, l) ==
    f = [s \in SUBSET (1..m) |->
           IF s = {} THEN z ELSE Flags!Served(f[s \ {Max(s)}], l[Max(s)])]

LEMMA MaxLemma ==
    ASSUME NEW m \in Nat, NEW s \in SUBSET (1..m + 1), m + 1 \in s
    PROVE  Max(s) = m + 1
<1>1. \A y \in s : m + 1 >= y
  OBVIOUS
<1>2. \A x \in s : (\A y \in s : x >= y) => x = m + 1
  OBVIOUS
<1> QED BY <1>1, <1>2 DEF Max

\* There is one: the least m without would follow one that has it.
LEMMA FoldsLemma ==
    ASSUME NEW l, NEW z, NEW n \in Nat
    PROVE  \E f : Folds(f, n, z, l)
<1> DEFINE Bad == {m \in Nat : ~\E f : Folds(f, m, z, l)}
<1>1. SUFFICES ASSUME Bad # {} PROVE FALSE
  OBVIOUS
<1>2. PICK m : m \in Bad /\ \A y \in Bad : m =< y
  BY <1>1, FirstLemma
<1>3. m # 0
  <2>1. \A s \in SUBSET (1..0) : s = {}
    OBVIOUS
  <2>2. Folds([s \in SUBSET (1..0) |-> z], 0, z, l)
    BY <2>1 DEF Folds
  <2> QED BY <2>2, <1>2
<1>4. m - 1 \in Nat /\ m - 1 \notin Bad
  BY <1>2, <1>3
<1>5. PICK k \in Nat : m = k + 1 /\ k \notin Bad
  BY <1>2, <1>3, <1>4
<1>6. PICK f : Folds(f, k, z, l)
  BY <1>5
<1> DEFINE g == [s \in SUBSET (1..m) |->
                   IF m \in s THEN Flags!Served(f[s \ {m}], l[m]) ELSE f[s]]
<1>7. Folds(g, m, z, l)
  <2> SUFFICES ASSUME NEW s \in SUBSET (1..m)
               PROVE  g[s] = IF s = {} THEN z ELSE Flags!Served(g[s \ {Max(s)}], l[Max(s)])
    BY DEF Folds
  <2>1. \A r \in SUBSET (1..k) :
           f[r] = IF r = {} THEN z ELSE Flags!Served(f[r \ {Max(r)}], l[Max(r)])
    BY <1>6 DEF Folds
  <2>2. \A r \in SUBSET (1..m) : m \notin r => g[r] = f[r]
    OBVIOUS
  <2>3. \A r \in SUBSET (1..m) : m \in r => g[r] = Flags!Served(f[r \ {m}], l[m])
    OBVIOUS
  <2> HIDE DEF g
  <2>4. CASE m \in s
    <3>1. Max(s) = m
      BY <1>5, <2>4, MaxLemma
    <3>2. g[s \ {m}] = f[s \ {m}]
      BY <2>2
    <3> QED BY <2>3, <2>4, <3>1, <3>2
  <2>5. CASE m \notin s
    <3>1. s \in SUBSET (1..k)
      BY <1>5, <2>5
    <3>2. m \notin s \ {Max(s)} /\ s \ {Max(s)} \in SUBSET (1..m)
      BY <2>5
    <3>3. g[s] = f[s] /\ g[s \ {Max(s)}] = f[s \ {Max(s)}]
      BY <2>2, <2>5, <3>2
    <3> QED BY <2>1, <3>1, <3>3
  <2> QED BY <2>4, <2>5
<1> QED BY <1>2, <1>7

\* The walk passes each waiter once, from the first to the last.
WalkOf(w, l, z) ==
    /\ w[0] = z
    /\ \A i \in 1..Len(l) : w[i] = Flags!Served(w[i-1], l[i])
LEMMA WalkLemma ==
    ASSUME NEW S, NEW l \in Seq(S), NEW z
    PROVE  \E w : WalkOf(w, l, z) /\ Flags!FoldLeft(Flags!Served, z, l) = w[Len(l)]
<1> DEFINE n == Len(l)
           iter == CHOOSE f : f = [s \in SUBSET (1..n) |->
                      IF s = {} THEN z ELSE Flags!Served(f[s \ {Max(s)}], l[Max(s)])]
<1>1. n \in Nat /\ DOMAIN l = 1..n
  OBVIOUS
<1>2. Folds(iter, n, z, l)
  <2>1. \E f : Folds(f, n, z, l)
    BY <1>1, FoldsLemma
  <2> QED BY <2>1 DEF Folds
<1>3. Flags!FoldLeft(Flags!Served, z, l) = iter[1..n]
  BY <1>1 DEF Flags!FoldLeft, Flags!MapThenFoldSet, Flags!Max, Max
<1> HIDE DEF iter
<1> DEFINE w == [i \in 0..n |-> iter[1..i]]
<1>4. \A s \in SUBSET (1..n) :
         iter[s] = IF s = {} THEN z ELSE Flags!Served(iter[s \ {Max(s)}], l[Max(s)])
  BY <1>2 DEF Folds
<1>5. w[0] = z
  <2>1. 1..0 = {} /\ 0 \in 0..n
    BY <1>1
  <2> QED BY <1>4, <2>1
<1>6. ASSUME NEW i \in 1..n PROVE w[i] = Flags!Served(w[i-1], l[i])
  <2>1. i - 1 \in Nat /\ (i - 1) + 1 = i /\ i \in 0..n /\ i - 1 \in 0..n
    BY <1>1
  <2>2. 1..i \in SUBSET (1..n) /\ 1..i # {} /\ (1..i) \ {i} = 1..(i - 1)
    <3>1. 1..i \in SUBSET (1..n) /\ 1 \in 1..i
      BY <1>1
    <3>2. (1..i) \ {i} = 1..(i - 1)
      BY <1>1
    <3> QED BY <3>1, <3>2
  <2>3. Max(1..i) = i
    <3>1. 1..i \in SUBSET (1..(i - 1) + 1) /\ (i - 1) + 1 \in 1..i
      BY <2>1
    <3> QED BY <2>1, <3>1, MaxLemma
  <2>4. iter[1..i] = Flags!Served(iter[1..(i - 1)], l[i])
    BY <1>4, <2>2, <2>3
  <2> QED BY <2>1, <2>4
<1>7. Flags!FoldLeft(Flags!Served, z, l) = w[n]
  BY <1>1, <1>3
<1> QED BY <1>5, <1>6, <1>7 DEF WalkOf

-----------------------------------------------------------------------------
(* Event: the inductive invariant                                           *)

FlagsTyped ==
    /\ set \in SUBSET Bits /\ want \in [Peers -> SUBSET Bits]
    /\ info \in [Peers -> Flags!Options]
    /\ result \in [Peers -> {"ok", "timeout", "error"}]
    /\ inCall \in SUBSET Peers /\ stage \in Flags!Phases
    /\ Row(suspended, Peers) /\ timed \in SUBSET Range(suspended)

\* Who waits is inside its call and asks for something.
FlagsInv ==
    /\ FlagsTyped
    /\ \A t \in Range(suspended) : t \in inCall /\ want[t] # {}
    /\ Flags!NobodySatisfied /\ Flags!NobodyLeft

\* What a thread that is woken has, if a is what the walk left.
Has(a, t) ==
    /\ a.want[t] # {} /\ a.want[t] \subseteq want[t]
    /\ info[t].all => a.want[t] = want[t]
    /\ info[t].clear => a.want[t] \intersect a.set = {}

\* The walk has passed the threads V and got as far as a.
Walked(a, V) ==
    /\ a \in [set : SUBSET Bits, want : [Peers -> SUBSET Bits], left : Seq(Peers)]
    /\ Row(a.left, Peers) /\ Range(a.left) \subseteq V
    /\ \A t \in (Peers \ V) \union Range(a.left) : a.want[t] = want[t]
    /\ \A t \in Range(a.left) : ~Flags!Satisfied(a.set, want[t], info[t])
    /\ \A t \in V \ Range(a.left) : Has(a, t)
    /\ \A t, u \in V \ Range(a.left) :
          t # u /\ info[t].clear /\ info[u].clear => a.want[t] \intersect a.want[u] = {}

\* When bits are taken out, what was not there still is not.
LEMMA SatisfiedLess ==
    ASSUME NEW r, NEW s, r \subseteq s, NEW w, NEW o, ~Flags!Satisfied(s, w, o)
    PROVE  ~Flags!Satisfied(r, w, o)
BY DEF Flags!Satisfied

\* One round for a waiter that finds nothing ...
LEMMA PassedOver ==
    ASSUME FlagsTyped, NEW V \in SUBSET Peers, NEW t \in Peers \ V, NEW a, Walked(a, V),
           ~Flags!Satisfied(a.set, a.want[t], info[t])
    PROVE  Walked(Flags!Served(a, t), V \union {t})
<1> DEFINE b == [a EXCEPT !.left = Append(@, t)]
<1>1. Flags!Served(a, t) = b
  BY DEF Flags!Served
<1>2. /\ a \in [set : SUBSET Bits, want : [Peers -> SUBSET Bits], left : Seq(Peers)]
      /\ Row(a.left, Peers) /\ Range(a.left) \subseteq V /\ t \notin Range(a.left)
      /\ a.want[t] = want[t]
  BY DEF Walked
<1>3. /\ b \in [set : SUBSET Bits, want : [Peers -> SUBSET Bits], left : Seq(Peers)]
      /\ b.set = a.set /\ b.want = a.want /\ b.left = Append(a.left, t)
  <2>1. PICK r \in Seq(Peers) : r = Append(a.left, t)
    <3>1. Append(a.left, t) \in Seq(Peers)
      BY <1>2
    <3> QED BY <3>1
  <2>2. b = [a EXCEPT !.left = r]
    BY <2>1
  <2> QED BY <1>2, <2>1, <2>2
<1> HIDE DEF b
<1>4. Row(b.left, Peers) /\ Range(b.left) = Range(a.left) \union {t}
  BY <1>2, <1>3, AppendRow
<1>5. /\ (V \union {t}) \ Range(b.left) = V \ Range(a.left)
      /\ (Peers \ (V \union {t})) \union Range(b.left) = (Peers \ V) \union Range(a.left)
  BY <1>2, <1>4
<1>6. \A u \in V \ Range(a.left) : Has(b, u)
  BY <1>3 DEF Walked, Has
<1>7. \A u \in Range(b.left) : ~Flags!Satisfied(b.set, want[u], info[u])
  BY <1>2, <1>3, <1>4 DEF Walked
<1>8. \A u \in (Peers \ V) \union Range(a.left) : b.want[u] = want[u]
  BY <1>3 DEF Walked
<1>9. \A x, y \in V \ Range(a.left) :
         x # y /\ info[x].clear /\ info[y].clear => b.want[x] \intersect b.want[y] = {}
  BY <1>3 DEF Walked
<1> QED BY <1>1, <1>2, <1>3, <1>4, <1>5, <1>6, <1>7, <1>8, <1>9 DEF Walked

\* ... and for one that finds what it asks for.
LEMMA HandedOver ==
    ASSUME FlagsTyped, NEW V \in SUBSET Peers, NEW t \in Peers \ V, want[t] # {},
           NEW a, Walked(a, V), Flags!Satisfied(a.set, a.want[t], info[t])
    PROVE  Walked(Flags!Served(a, t), V \union {t})
<1> DEFINE b == Flags!Served(a, t)
<1>1. PICK bits : bits = a.want[t] \intersect a.set
  OBVIOUS
<1>2. /\ a \in [set : SUBSET Bits, want : [Peers -> SUBSET Bits], left : Seq(Peers)]
      /\ Row(a.left, Peers) /\ Range(a.left) \subseteq V /\ t \notin Range(a.left)
      /\ a.want[t] = want[t] /\ want[t] \in SUBSET Bits
  BY DEF Walked, FlagsTyped
<1>3. b = [a EXCEPT !.want[t] = bits,
                    !.set = IF info[t].clear THEN @ \ bits ELSE @]
  BY <1>1 DEF Flags!Served
<1>4. PICK s : s = IF info[t].clear THEN a.set \ bits ELSE a.set
  OBVIOUS
<1>5. b = [a EXCEPT !.want[t] = bits, !.set = s]
  BY <1>3, <1>4
<1>6. s \in SUBSET a.set /\ bits \in SUBSET Bits /\ bits \subseteq a.set
  BY <1>1, <1>2, <1>4
<1>7. info[t].clear => s \intersect bits = {}
  BY <1>4
<1>8. bits # {} /\ bits \subseteq want[t] /\ (info[t].all => bits = want[t])
  BY <1>1, <1>2 DEF Flags!Satisfied
<1> HIDE DEF b
<1>9. /\ b \in [set : SUBSET Bits, want : [Peers -> SUBSET Bits], left : Seq(Peers)]
      /\ b.set = s /\ b.left = a.left /\ b.want = [a.want EXCEPT ![t] = bits]
  BY <1>2, <1>5, <1>6
<1>10. b.want[t] = bits /\ \A u \in Peers \ {t} : b.want[u] = a.want[u]
  BY <1>2, <1>9
<1>11. \A u \in Range(a.left) : ~Flags!Satisfied(b.set, want[u], info[u])
  BY <1>6, <1>9, SatisfiedLess DEF Walked
<1>12. ASSUME NEW u \in V \ Range(a.left) PROVE Has(b, u)
  <2>1. Has(a, u) /\ b.want[u] = a.want[u]
    BY <1>10 DEF Walked
  <2>2. info[u].clear => b.want[u] \intersect b.set = {}
    BY <1>6, <1>9, <2>1 DEF Has
  <2> QED BY <2>1, <2>2 DEF Has
<1>13. Has(b, t)
  BY <1>7, <1>8, <1>9, <1>10 DEF Has
<1>14. ASSUME NEW u \in V \ Range(a.left), info[u].clear
       PROVE  b.want[u] \intersect b.want[t] = {}
  <2>1. Has(a, u) /\ b.want[u] = a.want[u]
    BY <1>10 DEF Walked
  <2>2. a.want[u] \intersect a.set = {}
    BY <1>14, <2>1 DEF Has
  <2> QED BY <1>6, <1>10, <2>1, <2>2
<1>15. ASSUME NEW x \in V \ Range(a.left), NEW y \in V \ Range(a.left),
              x # y, info[x].clear, info[y].clear
       PROVE  b.want[x] \intersect b.want[y] = {}
  BY <1>10, <1>15 DEF Walked
<1>16. (V \union {t}) \ Range(b.left) = (V \ Range(a.left)) \union {t}
  BY <1>2, <1>9
<1>17. \A x, y \in (V \union {t}) \ Range(b.left) :
          x # y /\ info[x].clear /\ info[y].clear => b.want[x] \intersect b.want[y] = {}
  BY <1>14, <1>15, <1>16
<1>18. \A u \in (Peers \ (V \union {t})) \union Range(b.left) : b.want[u] = want[u]
  BY <1>2, <1>9, <1>10 DEF Walked
<1> QED BY <1>2, <1>9, <1>11, <1>12, <1>13, <1>16, <1>17, <1>18 DEF b, Walked

\* The whole walk, for the suspend list and the bits of a call.
LEMMA WalkedThrough ==
    ASSUME FlagsTyped, NEW s \in SUBSET Bits, \A t \in Range(suspended) : want[t] # {}
    PROVE  Walked(Flags!FoldLeft(Flags!Served, [set |-> s, want |-> want, left |-> <<>>],
                           suspended), Range(suspended))
<1> DEFINE z == [set |-> s, want |-> want, left |-> <<>>]
           n == Len(suspended)
           V(i) == {suspended[j] : j \in 1..i}
<1>1. /\ suspended \in Seq(Peers) /\ n \in Nat /\ DOMAIN suspended = 1..n
      /\ \A i, j \in 1..n : suspended[i] = suspended[j] => i = j
      /\ \A i \in 1..n : suspended[i] \in Range(suspended) /\ suspended[i] \in Peers
  BY DEF FlagsTyped, Row, Range
<1>2. PICK w : WalkOf(w, suspended, z) /\ Flags!FoldLeft(Flags!Served, z, suspended) = w[n]
  BY <1>1, WalkLemma
<1>3. w[0] = z /\ \A i \in 1..n : w[i] = Flags!Served(w[i-1], suspended[i])
  BY <1>2 DEF WalkOf
<1>4. Walked(z, {})
  <2>1. /\ z \in [set : SUBSET Bits, want : [Peers -> SUBSET Bits], left : Seq(Peers)]
        /\ z.left = <<>> /\ z.want = want
    BY DEF FlagsTyped
  <2> HIDE DEF z
  <2>2. Row(z.left, Peers) /\ Range(z.left) = {}
    BY <2>1, EmptyRow
  <2> QED BY <2>1, <2>2 DEF Walked
<1> HIDE DEF z
<1> DEFINE Bad == {i \in 0..n : ~Walked(w[i], V(i))}
<1>5. Bad = {}
  <2> SUFFICES ASSUME Bad # {} PROVE FALSE
    OBVIOUS
  <2>1. PICK i \in Bad : \A y \in Bad : i =< y
    <3>1. Bad \in SUBSET Nat
      BY <1>1
    <3> QED BY <3>1, FirstLemma
  <2>2. i \in 0..n /\ ~Walked(w[i], V(i))
    OBVIOUS
  <2>3. i # 0
    <3>1. V(0) = {}
      OBVIOUS
    <3> QED BY <1>3, <1>4, <2>2, <3>1
  <2>4. PICK k \in 0..n : i = k + 1 /\ k \notin Bad
    <3>1. i - 1 \in 0..n /\ i = (i - 1) + 1 /\ ~(i =< i - 1)
      BY <1>1, <2>2, <2>3
    <3> QED BY <2>1, <3>1
  <2>5. Walked(w[k], V(k))
    BY <2>4
  <2> DEFINE t == suspended[i]
  <2>6. i \in 1..n /\ k = i - 1
    BY <1>1, <2>2, <2>4
  <2>7. t \in Range(suspended) /\ t \in Peers /\ want[t] # {}
    BY <1>1, <2>6
  <2>8. \A j \in 1..k : j \in 1..n /\ j # i
    BY <1>1, <2>6
  <2>9. V(k) \in SUBSET Peers /\ t \notin V(k)
    BY <1>1, <2>6, <2>8
  <2>10. 1..i = (1..k) \union {i}
    BY <2>4
  <2>11. V(i) = V(k) \union {t}
    BY <2>10
  <2>12. w[i] = Flags!Served(w[k], t)
    BY <1>3, <2>6
  <2> HIDE DEF V, t
  <2>13. Walked(Flags!Served(w[k], t), V(k) \union {t})
    BY <2>5, <2>7, <2>9, PassedOver, HandedOver
  <2> QED BY <2>2, <2>11, <2>12, <2>13
<1>6. Walked(w[n], V(n))
  <2>1. n \in 0..n
    BY <1>1
  <2> QED BY <1>5, <2>1
<1>7. V(n) = Range(suspended)
  BY <1>1 DEF Range
<1>8. Walked(Flags!FoldLeft(Flags!Served, z, suspended), Range(suspended))
  BY <1>2, <1>6, <1>7
<1> QED BY <1>8 DEF z

-----------------------------------------------------------------------------
(* Event: the calls                                                         *)

\* Nobody was woken by a send.
LEMMA NobodyWoken ==
    ASSUME \A t \in Range(suspended) \ Range(suspended') : result'[t] # "ok"
    PROVE  Flags!HandedOut
BY SameRange DEF Flags!HandedOut

LEMMA FlagsSend ==
    ASSUME FlagsInv, NEW s \in SUBSET Bits, Flags!Send(s)
    PROVE  FlagsInv' /\ Flags!HandedOut
<1> DEFINE z == [set |-> set \union s, want |-> want, left |-> <<>>]
<1>1. PICK e : e = Flags!FoldLeft(Flags!Served, z, suspended)
  OBVIOUS
<1>2. /\ set' = e.set /\ want' = e.want /\ suspended' = e.left
      /\ timed' = timed \intersect Range(e.left)
      /\ stage \in {"live", "check", "take"}
      /\ UNCHANGED <<info, result, inCall, stage>>
  BY <1>1, SameRange DEF Flags!Send, Flags!Usable
<1>3. Walked(e, Range(suspended))
  <2>1. set \union s \in SUBSET Bits
    BY DEF FlagsInv, FlagsTyped
  <2> QED BY <1>1, <2>1, WalkedThrough DEF FlagsInv
<1> HIDE DEF z
<1>4. FlagsTyped'
  BY <1>2, <1>3 DEF FlagsInv, FlagsTyped, Walked
<1>5. \A t \in Range(suspended') : t \in Range(suspended) /\ want'[t] = want[t]
  BY <1>2, <1>3 DEF Walked
<1>6. \A t \in Range(suspended') : t \in inCall' /\ want'[t] # {}
  BY <1>2, <1>5 DEF FlagsInv
<1>7. Flags!NobodySatisfied'
  BY <1>2, <1>3, <1>5, SameRange DEF Walked, Flags!NobodySatisfied
<1>8. Flags!NobodyLeft'
  BY <1>2 DEF Flags!NobodyLeft
<1>9. Flags!HandedOut
  <2>1. \A t \in Range(suspended) \ Range(suspended') : Has(e, t)
    BY <1>2, <1>3 DEF Walked
  <2>2. \A t \in Range(suspended) \ Range(suspended') :
           /\ want'[t] # {} /\ want'[t] \subseteq want[t]
           /\ info[t].all => want'[t] = want[t]
           /\ info[t].clear => want'[t] \intersect set' = {}
    BY <1>2, <2>1 DEF Has
  <2>3. \A t, u \in Range(suspended) \ Range(suspended') :
           t # u /\ info[t].clear /\ info[u].clear => want'[t] \intersect want'[u] = {}
    BY <1>2, <1>3 DEF Walked
  <2> QED BY <2>2, <2>3, SameRange DEF Flags!HandedOut
<1> QED BY <1>4, <1>6, <1>7, <1>8, <1>9 DEF FlagsInv

\* A call that finds what it asks for, now or after it waited.
LEMMA FlagsReceive ==
    ASSUME FlagsInv, NEW t \in Peers, NEW w \in SUBSET Bits, NEW o \in Flags!Options,
           Flags!Receive(t, w, o)
    PROVE  FlagsInv' /\ Flags!HandedOut
<1>1. PICK r : r = IF o.clear THEN set \ w ELSE set
  OBVIOUS
<1>2. /\ set' = r /\ UNCHANGED <<suspended, want, info, timed, result, inCall, stage>>
  BY <1>1 DEF Flags!Receive, Flags!request
<1>3. r \subseteq set
  BY <1>1
<1>4. FlagsTyped'
  BY <1>2, <1>3 DEF FlagsInv, FlagsTyped, Row
<1>5. Flags!NobodySatisfied'
  <2>1. \A u \in Range(suspended) : ~Flags!Satisfied(r, want[u], info[u])
    BY <1>3, SatisfiedLess, SameRange DEF FlagsInv, Flags!NobodySatisfied
  <2> QED BY <1>2, <2>1, SameRange DEF Flags!NobodySatisfied
<1> QED BY <1>2, <1>4, <1>5, NobodyWoken DEF FlagsInv, Flags!NobodyLeft

LEMMA FlagsReturn ==
    ASSUME FlagsInv, NEW t \in Peers, Flags!Return(t)
    PROVE  FlagsInv' /\ Flags!HandedOut
<1>1. /\ t \notin Range(suspended) /\ inCall' = inCall \ {t}
      /\ want' = [want EXCEPT ![t] = {}]
      /\ info' = [info EXCEPT ![t] = Flags!NoOption]
      /\ result' = [result EXCEPT ![t] = "ok"]
      /\ UNCHANGED <<set, suspended, timed, stage>>
  BY SameRange DEF Flags!Return
<1>2. Flags!NoOption \in Flags!Options
  BY DEF Flags!NoOption, Flags!Options
<1>3. FlagsTyped'
  BY <1>1, <1>2 DEF FlagsInv, FlagsTyped, Row
<1>4. \A u \in Range(suspended) : u \in Peers /\ want'[u] = want[u] /\ info'[u] = info[u]
  BY <1>1 DEF FlagsInv, FlagsTyped, Row, Range
<1>5. Flags!NobodySatisfied'
  BY <1>1, <1>4, SameRange DEF FlagsInv, Flags!NobodySatisfied
<1> QED BY <1>1, <1>3, <1>4, <1>5, NobodyWoken DEF FlagsInv, Flags!NobodyLeft

LEMMA FlagsWait ==
    ASSUME FlagsInv, NEW t \in Peers, NEW w \in SUBSET Bits, w # {},
           NEW o \in Flags!Options, NEW b \in BOOLEAN, Flags!Wait(t, w, o, b)
    PROVE  FlagsInv' /\ Flags!HandedOut
<1>1. /\ stage = "live" /\ t \notin inCall /\ ~Flags!Satisfied(set, w, o)
      /\ want' = [want EXCEPT ![t] = w] /\ info' = [info EXCEPT ![t] = o]
      /\ suspended' = Append(suspended, t)
      /\ timed' = IF b THEN timed \union {t} ELSE timed
      /\ result' = [result EXCEPT ![t] = "ok"] /\ inCall' = inCall \union {t}
      /\ UNCHANGED <<set, stage>>
  BY DEF Flags!Wait, Flags!Outside
<1>2. t \notin Range(suspended) /\ Row(suspended, Peers)
  BY <1>1 DEF FlagsInv, FlagsTyped
<1>3. Row(suspended', Peers) /\ Range(suspended') = Range(suspended) \union {t}
  BY <1>1, <1>2, AppendRow
<1>4. FlagsTyped'
  <2>1. timed' \in SUBSET Range(suspended')
    BY <1>1, <1>3 DEF FlagsInv, FlagsTyped
  <2> QED BY <1>1, <1>3, <2>1 DEF FlagsInv, FlagsTyped
<1>5. want'[t] = w /\ info'[t] = o
  BY <1>1 DEF FlagsInv, FlagsTyped
<1>6. \A u \in Range(suspended) : u \in Peers /\ want'[u] = want[u] /\ info'[u] = info[u]
  BY <1>1, <1>2 DEF FlagsInv, FlagsTyped, Row, Range
<1>7. Flags!NobodySatisfied'
  BY <1>1, <1>3, <1>5, <1>6, SameRange DEF FlagsInv, Flags!NobodySatisfied
<1>8. \A u \in Range(suspended') : u \in inCall' /\ want'[u] # {}
  BY <1>1, <1>3, <1>5, <1>6 DEF FlagsInv
<1> QED BY <1>1, <1>3, <1>4, <1>7, <1>8, NobodyWoken DEF FlagsInv, Flags!NobodyLeft

\* A waiter is told of something else: its timer, or a deletion.
LEMMA FlagsFails ==
    ASSUME FlagsInv, NEW t \in Range(suspended), NEW e \in {"timeout", "error"},
           result' = [result EXCEPT ![t] = e], timed' = timed \ {t},
           Row(suspended', Peers), Range(suspended') = Range(suspended) \ {t},
           stage' \in Flags!Phases, stage' = "gone" => suspended' = <<>>,
           UNCHANGED <<set, want, info, inCall>>
    PROVE  FlagsInv' /\ Flags!HandedOut
<1>1. t \in Peers
  BY DEF FlagsInv, FlagsTyped, Row, Range
<1>2. FlagsTyped'
  BY <1>1 DEF FlagsInv, FlagsTyped
<1>3. result'[t] # "ok"
  BY <1>1 DEF FlagsInv, FlagsTyped
<1>4. Flags!NobodySatisfied'
  BY SameRange DEF FlagsInv, Flags!NobodySatisfied
<1>5. Flags!HandedOut
  BY <1>3, NobodyWoken
<1> QED BY <1>2, <1>4, <1>5 DEF FlagsInv, Flags!NobodyLeft

LEMMA FlagsTimeout ==
    ASSUME FlagsInv, NEW t \in Peers, Flags!Timeout(t)
    PROVE  FlagsInv' /\ Flags!HandedOut
<1>1. /\ t \in timed /\ timed' = timed \ {t}
      /\ suspended' = Flags!Without(suspended, t)
      /\ result' = [result EXCEPT ![t] = "timeout"]
      /\ UNCHANGED <<set, want, info, inCall, stage>>
  BY DEF Flags!Timeout, Flags!request
<1>2. t \in Range(suspended) /\ Row(suspended, Peers) /\ stage \in Flags!Phases
  BY <1>1 DEF FlagsInv, FlagsTyped
<1>3. Row(suspended', Peers) /\ Range(suspended') = Range(suspended) \ {t}
  BY <1>1, <1>2, RemovedRow, SameRemoveAt DEF Flags!Without
<1>4. stage' # "gone"
  BY <1>1, <1>2, EmptyRow DEF FlagsInv, Flags!NobodyLeft
<1> QED BY <1>1, <1>2, <1>3, <1>4, FlagsFails

LEMMA FlagsReset ==
    ASSUME FlagsInv, Flags!Reset
    PROVE  FlagsInv' /\ Flags!HandedOut
<1>1. /\ suspended' = <<>> /\ timed' = {} /\ set' = {}
      /\ result' = [t \in Peers |-> IF t \in Range(suspended) THEN "error" ELSE result[t]]
      /\ UNCHANGED <<want, info, inCall, stage>>
  BY SameRange DEF Flags!Reset, Flags!request
<1>2. Row(<<>>, Peers) /\ Range(<<>>) = {}
  BY EmptyRow
<1>3. FlagsTyped'
  BY <1>1, <1>2 DEF FlagsInv, FlagsTyped
<1>4. \A t \in Range(suspended) : result'[t] # "ok"
  BY <1>1 DEF FlagsInv, FlagsTyped, Row, Range
<1> QED
  BY <1>1, <1>2, <1>3, <1>4, NobodyWoken, SameRange
     DEF FlagsInv, Flags!NobodySatisfied, Flags!NobodyLeft

LEMMA FlagsDelete ==
    ASSUME FlagsInv, Flags!DeleteCheck \/ Flags!DeleteTake
    PROVE  FlagsInv' /\ Flags!HandedOut
<1>1. ASSUME stage' \in Flags!Phases, stage' = "gone" => suspended = <<>>,
             UNCHANGED <<set, suspended, want, info, timed, result, inCall>>
      PROVE  FlagsInv' /\ Flags!HandedOut
  <2>1. FlagsTyped'
    BY <1>1 DEF FlagsInv, FlagsTyped, Row
  <2> QED BY <1>1, <2>1, NobodyWoken DEF FlagsInv, Flags!NobodySatisfied, Flags!NobodyLeft
<1>2. CASE Flags!DeleteCheck
  BY <1>1, <1>2 DEF Flags!DeleteCheck, Flags!request, Flags!Phases
<1>3. CASE Flags!DeleteTake /\ suspended = <<>>
  BY <1>1, <1>3 DEF Flags!DeleteTake, Flags!request, Flags!Phases
<1>4. CASE Flags!DeleteTake /\ suspended # <<>>
  <2>1. PICK t : t = Head(suspended)
    OBVIOUS
  <2>2. /\ suspended' = Tail(suspended) /\ timed' = timed \ {t}
        /\ result' = [result EXCEPT ![t] = "error"] /\ stage' = "check"
        /\ UNCHANGED <<set, want, info, inCall>>
    BY <1>4, <2>1 DEF Flags!DeleteTake, Flags!request
  <2>3. /\ Row(suspended', Peers) /\ Range(suspended') = Range(suspended) \ {t}
        /\ t \in Range(suspended)
    BY <1>4, <2>1, <2>2, TailRow DEF FlagsInv, FlagsTyped
  <2> QED BY <2>2, <2>3, FlagsFails DEF Flags!Phases
<1> QED BY <1>2, <1>3, <1>4

-----------------------------------------------------------------------------
(* Event: the theorems                                                      *)

LEMMA FlagsSteps ==
    ASSUME FlagsInv, Flags!Next
    PROVE  FlagsInv' /\ Flags!HandedOut
<1>1. \/ \E t \in Peers, w \in (SUBSET Bits) \ {{}}, o \in Flags!Options :
            Flags!Receive(t, w, o) \/ \E b \in BOOLEAN : Flags!Wait(t, w, o, b)
      \/ \E t \in Peers : Flags!Return(t) \/ Flags!Timeout(t)
      \/ \E s \in (SUBSET Bits) \ {{}} : Flags!Send(s)
      \/ Flags!Reset \/ Flags!DeleteCheck \/ Flags!DeleteTake
  BY DEF Flags!Next
<1>2. ASSUME NEW t \in Peers, NEW w \in (SUBSET Bits) \ {{}}, NEW o \in Flags!Options,
             Flags!Receive(t, w, o) \/ \E b \in BOOLEAN : Flags!Wait(t, w, o, b)
      PROVE  FlagsInv' /\ Flags!HandedOut
  BY <1>2, FlagsReceive, FlagsWait
<1>3. ASSUME NEW s \in (SUBSET Bits) \ {{}}, Flags!Send(s)
      PROVE  FlagsInv' /\ Flags!HandedOut
  BY <1>3, FlagsSend
<1> QED BY <1>1, <1>2, <1>3, FlagsReturn, FlagsTimeout, FlagsReset, FlagsDelete

LEMMA FlagsStarts == Flags!Init => FlagsInv
<1> SUFFICES ASSUME Flags!Init PROVE FlagsInv
  OBVIOUS
<1>1. /\ set = {} /\ suspended = <<>> /\ timed = {} /\ inCall = {} /\ stage = "live"
      /\ want = [t \in Peers |-> {}] /\ info = [t \in Peers |-> Flags!NoOption]
      /\ result = [t \in Peers |-> "ok"]
  BY DEF Flags!Init
<1>2. Row(<<>>, Peers) /\ Range(<<>>) = {}
  BY EmptyRow
<1>3. FlagsTyped
  BY <1>1, <1>2 DEF FlagsTyped, Flags!NoOption, Flags!Options, Flags!Phases
<1> QED BY <1>1, <1>2, <1>3, SameRange DEF FlagsInv, Flags!NobodySatisfied, Flags!NobodyLeft

LEMMA FlagsStays ==
    ASSUME FlagsInv, UNCHANGED Flags!vars
    PROVE  FlagsInv'
<1>1. FlagsTyped'
  BY DEF Flags!vars, Flags!request, FlagsInv, FlagsTyped, Row
<1> QED BY <1>1 DEF Flags!vars, Flags!request, FlagsInv,
                    Flags!NobodySatisfied, Flags!NobodyLeft

\* What the module states follows.
LEMMA FlagsSound ==
    ASSUME FlagsInv
    PROVE  Flags!TypeOK /\ Flags!NobodySatisfied /\ Flags!NobodyLeft
BY SameRange DEF FlagsInv, FlagsTyped, Row, Flags!TypeOK

-----------------------------------------------------------------------------
(* Memory pool: the inductive invariant                                     *)

\* The threads that were woken for a block and have not looked yet.
Coming == {t \in inCall \ Range(suspended) : result[t] = "ok"}

\* Every block is on the free list or with a caller.
BlocksKept ==
    /\ Row(blockList, Blocks) /\ given \in SUBSET Blocks
    /\ freeCount = Len(blockList)
    /\ Range(blockList) \intersect given = {}
    /\ Range(blockList) \union given = Blocks

\* The count is never below the number of waiters (time-outs leave it above).
PoolWaits ==
    /\ Row(suspended, Threads) /\ timed \in SUBSET Range(suspended)
    /\ pended \in 0..MaxPended /\ Len(suspended) =< pended
    /\ result \in [Threads -> {"ok", "timeout", "error"}]
    /\ inCall \in SUBSET Threads /\ IsFiniteSet(inCall)
    /\ mode \in [Threads -> Area!Waits] /\ again \in SUBSET Threads
    /\ stage \in {"live", "check", "take", "free", "gone", "wild"}
    /\ Range(suspended) \subseteq inCall

\* Whoever waits after the last look of rt_mp_delete had been woken before.
Swept == stage \in {"free", "gone"} => Range(suspended) \subseteq again

PoolInv ==
    /\ BlocksKept /\ PoolWaits /\ Swept
    /\ stage = "live" /\ suspended # <<>> => freeCount =< Cardinality(Coming)

LEMMA ComingFinite ==
    ASSUME PoolInv
    PROVE  IsFiniteSet(Coming) /\ Cardinality(Coming) \in Nat
<1>1. Coming \in SUBSET inCall
  BY DEF Coming
<1> QED BY <1>1, FS_Subset, FS_CardinalityType DEF PoolInv, PoolWaits

\* What the module states follows.
LEMMA PoolSound ==
    ASSUME Area!MemoryPoolAssumption, PoolInv
    PROVE  /\ Area!TypeOK /\ Area!BlocksPartitioned
           /\ Area!NobodyForgotten /\ Area!NobodyLeft
<1>1. freeCount \in 0..Cardinality(Blocks)
  <2>1. Range(blockList) \in SUBSET Blocks /\ IsFiniteSet(Blocks)
    BY SameSize DEF PoolInv, BlocksKept, Area!MemoryPoolAssumption
  <2>2. Cardinality(Range(blockList)) =< Cardinality(Blocks) /\ Cardinality(Blocks) \in Nat
    BY <2>1, FS_Subset, FS_CardinalityType
  <2>3. Cardinality(Range(blockList)) = Len(blockList) /\ Len(blockList) \in Nat
    BY RowLength DEF PoolInv, BlocksKept
  <2> QED BY <2>2, <2>3 DEF PoolInv, BlocksKept
<1>2. Area!TypeOK
  BY <1>1, SameRange, SameSize DEF PoolInv, PoolWaits, BlocksKept, Row, Area!TypeOK
<1>3. Area!BlocksPartitioned
  <2>1. Area!IsInjective(blockList)
    BY DEF PoolInv, BlocksKept, Row, Area!IsInjective
  <2> QED BY <1>2, <2>1, SameRange DEF PoolInv, BlocksKept, Area!BlocksPartitioned
<1>4. Area!NobodyForgotten
  <2>1. suspended # <<>> => pended > 0
    <3>1. suspended \in Seq(Threads) /\ Len(suspended) =< pended /\ pended \in Int
      BY DEF PoolInv, PoolWaits, Row
    <3> QED BY <3>1
  <2> QED BY <2>1, SameRange, SameSize DEF PoolInv, Coming, Area!NobodyForgotten
<1>5. Area!NobodyLeft
  BY SameRange DEF PoolInv, Swept, Area!NobodyLeft
<1> QED BY <1>2, <1>3, <1>4, <1>5

-----------------------------------------------------------------------------
(* Memory pool: the calls                                                   *)

\* A thread leaves its call.
LEMMA PoolReturn ==
    ASSUME PoolInv, NEW t \in Threads, t \notin Range(suspended), Area!Return(t),
           UNCHANGED <<again, stage>>
    PROVE  /\ PoolWaits' /\ Swept' /\ suspended' = suspended
           /\ Coming' = Coming \ {t}
<1>1. /\ inCall' = inCall \ {t} /\ mode' = [mode EXCEPT ![t] = "no"]
      /\ result' = [result EXCEPT ![t] = "ok"]
      /\ UNCHANGED <<suspended, pended, timed>>
  BY DEF Area!Return
<1>2. inCall' \in SUBSET Threads /\ IsFiniteSet(inCall')
  BY <1>1, FS_RemoveElement DEF PoolInv, PoolWaits
<1>3. /\ result' \in [Threads -> {"ok", "timeout", "error"}]
      /\ mode' \in [Threads -> Area!Waits]
      /\ \A u \in Threads \ {t} : result'[u] = result[u]
  BY <1>1 DEF PoolInv, PoolWaits, Area!Waits
<1>4. PoolWaits'
  BY <1>1, <1>2, <1>3 DEF PoolInv, PoolWaits, Row
<1>5. Coming' = Coming \ {t}
  <2>1. \A u \in inCall : u \in Threads
    BY DEF PoolInv, PoolWaits
  <2> QED BY <1>1, <1>3, <2>1 DEF Coming
<1> QED BY <1>1, <1>4, <1>5 DEF PoolInv, Swept

LEMMA PoolAlloc ==
    ASSUME PoolInv, NEW t \in Threads, NEW m, Area!Alloc(t, m)
    PROVE  PoolInv'
<1>1. PICK b : b = Head(blockList)
  OBVIOUS
<1>2. /\ Area!Looks(t, m) /\ freeCount # 0 /\ freeCount' = freeCount - 1
      /\ blockList' = Tail(blockList) /\ given' = given \union {b}
      /\ Area!Return(t) /\ UNCHANGED <<again, stage>>
  BY <1>1 DEF Area!Alloc
<1>3. Row(blockList, Blocks) /\ blockList # <<>>
  BY <1>2 DEF PoolInv, BlocksKept, Row
<1>4. /\ Row(blockList', Blocks) /\ Range(blockList') = Range(blockList) \ {b}
      /\ b \in Range(blockList) /\ Len(blockList') = Len(blockList) - 1
      /\ Len(blockList) \in Nat
  BY <1>1, <1>2, <1>3, TailRow
<1>5. BlocksKept'
  BY <1>2, <1>4 DEF PoolInv, BlocksKept
<1>6. t \notin Range(suspended)
  BY <1>2, SameRange DEF Area!Looks, PoolInv, PoolWaits
<1>7. PoolWaits' /\ Swept' /\ suspended' = suspended /\ Coming' = Coming \ {t}
  BY <1>2, <1>6, PoolReturn
<1>8. stage' = "live" /\ suspended' # <<>> => freeCount' =< Cardinality(Coming')
  <2>1. Cardinality(Coming') >= Cardinality(Coming) - 1 /\ Cardinality(Coming') \in Int
    BY <1>7, ComingFinite, FS_RemoveElement
  <2>2. freeCount \in Nat /\ Cardinality(Coming) \in Nat
    BY <1>4, ComingFinite DEF PoolInv, BlocksKept
  <2> QED BY <1>2, <1>7, <2>1, <2>2 DEF PoolInv
<1> QED BY <1>5, <1>7, <1>8 DEF PoolInv

\* RT_NULL, because there is no time left or because of the wake-up.
LEMMA PoolRefused ==
    ASSUME PoolInv, NEW t \in Threads, Area!AllocEmpty(t) \/ Area!Fails(t)
    PROVE  PoolInv'
<1>1. /\ Area!Return(t) /\ UNCHANGED <<blockList, freeCount, given, again, stage>>
      /\ t \in inCall /\ t \notin Range(suspended)
      /\ freeCount = 0 \/ result[t] # "ok"
  BY SameRange DEF Area!AllocEmpty, Area!Fails, Area!blocks, Area!Looks
<1>2. BlocksKept'
  BY <1>1 DEF PoolInv, BlocksKept, Row
<1>3. PoolWaits' /\ Swept' /\ suspended' = suspended /\ Coming' = Coming \ {t}
  BY <1>1, PoolReturn
<1>4. stage' = "live" /\ suspended' # <<>> => freeCount' =< Cardinality(Coming')
  <2>1. CASE freeCount = 0
    <3>1. Cardinality(Coming') \in Nat
      BY <1>3, ComingFinite, FS_RemoveElement, FS_CardinalityType
    <3> QED BY <1>1, <2>1, <3>1
  <2>2. CASE result[t] # "ok"
    <3>1. Coming' = Coming
      BY <1>3, <2>2 DEF Coming
    <3> QED BY <1>1, <1>3, <3>1 DEF PoolInv
  <2> QED BY <1>1, <2>1, <2>2
<1> QED BY <1>2, <1>3, <1>4 DEF PoolInv

LEMMA PoolWait ==
    ASSUME Area!MemoryPoolAssumption, PoolInv, NEW t \in Threads, NEW m \in Area!Waits,
           Area!Wait(t, m)
    PROVE  PoolInv'
<1>1. /\ freeCount = 0 /\ pended < MaxPended
      /\ suspended' = <<t>> \o suspended /\ pended' = pended + 1
      /\ timed' = IF m = "timed" THEN timed \union {t} ELSE timed
      /\ result' = [result EXCEPT ![t] = "ok"]
      /\ inCall' = inCall \union {t} /\ mode' = [mode EXCEPT ![t] = m]
      /\ again' = IF stage = "live" THEN again ELSE again \union {t}
      /\ UNCHANGED <<blockList, freeCount, given, stage>>
  BY DEF Area!Wait, Area!blocks
<1>2. Row(suspended, Threads) /\ t \notin Range(suspended)
  BY SameRange DEF Area!Wait, Area!Looks, PoolInv, PoolWaits
<1>3. /\ Row(suspended', Threads) /\ Range(suspended') = Range(suspended) \union {t}
      /\ Len(suspended) \in Nat /\ Len(suspended') = Len(suspended) + 1
  BY <1>1, <1>2, PrependRow
<1>4. BlocksKept'
  BY <1>1 DEF PoolInv, BlocksKept, Row
<1>5. IsFiniteSet(inCall') /\ inCall' \in SUBSET Threads
  BY <1>1, FS_AddElement DEF PoolInv, PoolWaits
<1>6. pended' \in 0..MaxPended /\ Len(suspended') =< pended'
  BY <1>1, <1>3 DEF PoolInv, PoolWaits, Area!MemoryPoolAssumption
<1>7. timed' \in SUBSET Range(suspended') /\ again' \in SUBSET Threads
  BY <1>1, <1>3 DEF PoolInv, PoolWaits
<1>8. /\ result' \in [Threads -> {"ok", "timeout", "error"}]
      /\ mode' \in [Threads -> Area!Waits]
  BY <1>1 DEF PoolInv, PoolWaits
<1>9. PoolWaits'
  BY <1>1, <1>3, <1>5, <1>6, <1>7, <1>8 DEF PoolInv, PoolWaits
<1>10. Swept'
  BY <1>1, <1>3 DEF PoolInv, Swept
<1>11. 0 =< Cardinality(Coming')
  <2>1. Coming' \in SUBSET inCall'
    BY DEF Coming
  <2> QED BY <1>5, <2>1, FS_Subset, FS_CardinalityType
<1> QED BY <1>1, <1>4, <1>9, <1>10, <1>11 DEF PoolInv

\* The first waiter is resumed, or the list head is taken for one.
LEMMA PoolResume ==
    ASSUME Area!MemoryPoolAssumption, PoolInv, suspended # <<>>, NEW e \in {"ok", "error"},
           NEW s \in {"live", "check"}, Area!Resume(e, s),
           UNCHANGED <<inCall, mode, again>>
    PROVE  /\ PoolWaits' /\ Swept'
           /\ e = "ok" => Cardinality(Coming') = Cardinality(Coming) + 1
<1>1. PICK t : t = Head(suspended)
  OBVIOUS
<1>2. /\ suspended' = Tail(suspended) /\ timed' = timed \ {t}
      /\ result' = [result EXCEPT ![t] = e] /\ pended' = pended - 1 /\ stage' = s
  BY <1>1 DEF Area!Resume
<1>3. /\ Row(suspended', Threads) /\ Range(suspended') = Range(suspended) \ {t}
      /\ t \in Range(suspended) /\ Range(suspended) \subseteq Threads
      /\ Len(suspended') = Len(suspended) - 1 /\ Len(suspended) \in Nat
  BY <1>1, <1>2, TailRow DEF PoolInv, PoolWaits
<1>4. Len(suspended) # 0
  BY DEF PoolInv, PoolWaits, Row
<1>5. pended' \in 0..MaxPended /\ Len(suspended') =< pended'
  BY <1>2, <1>3, <1>4 DEF PoolInv, PoolWaits, Area!MemoryPoolAssumption
<1>6. /\ result' \in [Threads -> {"ok", "timeout", "error"}] /\ result'[t] = e
      /\ \A u \in Threads \ {t} : result'[u] = result[u]
  BY <1>2, <1>3 DEF PoolInv, PoolWaits
<1>7. PoolWaits'
  BY <1>2, <1>3, <1>5, <1>6 DEF PoolInv, PoolWaits
<1>8. Swept'
  BY <1>2 DEF Swept
<1>9. ASSUME e = "ok" PROVE Cardinality(Coming') = Cardinality(Coming) + 1
  <2>1. t \in inCall /\ t \notin Coming
    BY <1>3 DEF PoolInv, PoolWaits, Coming
  <2>2. Coming' = Coming \union {t}
    BY <1>3, <1>6, <1>9, <2>1 DEF Coming, PoolInv, PoolWaits
  <2> QED BY <2>1, <2>2, ComingFinite, FS_AddElement
<1> QED BY <1>7, <1>8, <1>9

\* A caller gives a block back.
LEMMA PoolFree ==
    ASSUME Area!MemoryPoolAssumption, PoolInv, NEW b \in Blocks, Area!Free(b)
    PROVE  PoolInv'
<1>1. /\ b \in given /\ stage = "live" /\ freeCount' = freeCount + 1
      /\ blockList' = <<b>> \o blockList /\ given' = given \ {b}
      /\ UNCHANGED <<inCall, mode, again>>
  BY DEF Area!Free
<1>2. Row(blockList, Blocks) /\ b \notin Range(blockList)
  BY <1>1 DEF PoolInv, BlocksKept
<1>3. /\ Row(blockList', Blocks) /\ Range(blockList') = Range(blockList) \union {b}
      /\ Len(blockList) \in Nat /\ Len(blockList') = Len(blockList) + 1
  BY <1>1, <1>2, PrependRow
<1>4. BlocksKept'
  BY <1>1, <1>3 DEF PoolInv, BlocksKept
<1>5. CASE pended > 0 /\ suspended # <<>>
  <2>1. Area!Resume("ok", "live") /\ suspended # <<>>
    BY <1>5 DEF Area!Free, PoolInv, PoolWaits
  <2>2. PoolWaits' /\ Swept' /\ Cardinality(Coming') = Cardinality(Coming) + 1
    BY <1>1, <2>1, PoolResume
  <2>3. freeCount' =< Cardinality(Coming')
    <3>1. freeCount =< Cardinality(Coming) /\ freeCount \in Nat /\ Cardinality(Coming) \in Nat
      BY <1>1, <1>3, <1>5, ComingFinite DEF PoolInv, BlocksKept
    <3> QED BY <1>1, <2>2, <3>1
  <2> QED BY <1>4, <2>2, <2>3 DEF PoolInv
<1>6. CASE suspended = <<>>
  <2>1. UNCHANGED <<suspended, pended, timed, result>> /\ stage' \in {"live", "wild"}
    BY <1>1, <1>6 DEF Area!Free, Area!Resume, Area!waits
  <2>2. PoolWaits'
    BY <1>1, <2>1 DEF PoolInv, PoolWaits, Row
  <2> QED BY <1>4, <1>6, <2>1, <2>2 DEF PoolInv, Swept
<1>7. suspended # <<>> => pended > 0
  BY DEF PoolInv, PoolWaits, Row
<1> QED BY <1>5, <1>6, <1>7

LEMMA PoolTimeout ==
    ASSUME PoolInv, NEW t \in Threads, Area!Timeout(t)
    PROVE  PoolInv'
<1>1. /\ t \in timed /\ timed' = timed \ {t}
      /\ suspended' = Area!Without(suspended, t)
      /\ result' = [result EXCEPT ![t] = "timeout"]
      /\ UNCHANGED <<blockList, freeCount, given, pended, inCall, mode, again, stage>>
  BY DEF Area!Timeout, Area!blocks
<1>2. t \in Range(suspended) /\ Row(suspended, Threads)
  BY <1>1 DEF PoolInv, PoolWaits
<1>3. /\ Row(suspended', Threads) /\ Range(suspended') = Range(suspended) \ {t}
      /\ \E k \in 1..Len(suspended) : Shorter(suspended', suspended, k, Threads)
  BY <1>1, <1>2, RemovedRow, SameRemoveAt DEF Area!Without
<1>4. Len(suspended') = Len(suspended) - 1 /\ Len(suspended) \in Nat
  BY <1>2, <1>3 DEF Shorter, Row
<1>5. /\ result' \in [Threads -> {"ok", "timeout", "error"}] /\ result'[t] # "ok"
      /\ \A u \in Threads \ {t} : result'[u] = result[u]
  BY <1>1 DEF PoolInv, PoolWaits
<1>6. PoolWaits'
  <2>1. Len(suspended') =< pended'
    BY <1>1, <1>4 DEF PoolInv, PoolWaits
  <2> QED BY <1>1, <1>3, <1>5, <2>1 DEF PoolInv, PoolWaits
<1>7. Swept' /\ BlocksKept'
  BY <1>1, <1>3 DEF PoolInv, Swept, BlocksKept, Row
<1>8. Coming' = Coming
  <2>1. inCall \subseteq Threads /\ t \notin Coming
    BY <1>2 DEF PoolInv, PoolWaits, Coming
  <2> QED BY <1>1, <1>3, <1>5, <2>1 DEF Coming
<1> QED BY <1>1, <1>2, <1>6, <1>7, <1>8, EmptyRow DEF PoolInv

LEMMA PoolDelete ==
    ASSUME Area!MemoryPoolAssumption, PoolInv,
           Area!DeleteCheck \/ Area!DeleteTake \/ Area!Delete
    PROVE  PoolInv'
<1>1. ASSUME stage' \in {"take", "free", "gone", "wild"},
             stage' \in {"free", "gone"} => suspended = <<>> \/ stage = "free",
             UNCHANGED <<blockList, freeCount, given, suspended, pended, timed, result,
                         inCall, mode, again>>
      PROVE  PoolInv'
  <2>1. PoolWaits' /\ BlocksKept'
    BY <1>1 DEF PoolInv, PoolWaits, BlocksKept, Row
  <2>2. Swept'
    BY <1>1, EmptyRow DEF PoolInv, Swept
  <2> QED BY <1>1, <2>1, <2>2 DEF PoolInv
<1>2. CASE Area!DeleteCheck
  BY <1>1, <1>2 DEF Area!DeleteCheck, Area!blocks, Area!waits
<1>3. CASE Area!Delete
  BY <1>1, <1>3 DEF Area!Delete, Area!blocks, Area!waits
<1>4. CASE Area!DeleteTake /\ suspended = <<>>
  BY <1>1, <1>4 DEF Area!DeleteTake, Area!Resume, Area!blocks, Area!waits
<1>5. CASE Area!DeleteTake /\ suspended # <<>>
  <2>1. /\ Area!Resume("error", "check") /\ UNCHANGED <<inCall, mode, again>>
        /\ UNCHANGED <<blockList, freeCount, given>>
    BY <1>5 DEF Area!DeleteTake, Area!blocks
  <2>2. PoolWaits' /\ Swept'
    BY <1>5, <2>1, PoolResume
  <2>3. stage' = "check"
    BY <1>5, <2>1 DEF Area!Resume
  <2>4. BlocksKept'
    BY <2>1 DEF PoolInv, BlocksKept, Row
  <2> QED BY <2>2, <2>3, <2>4 DEF PoolInv
<1> QED BY <1>2, <1>3, <1>4, <1>5

LEMMA PoolSteps ==
    ASSUME Area!MemoryPoolAssumption, PoolInv, Area!Next
    PROVE  PoolInv'
BY PoolAlloc, PoolRefused, PoolWait, PoolFree, PoolTimeout, PoolDelete DEF Area!Next

LEMMA PoolStays ==
    ASSUME PoolInv, UNCHANGED Area!vars
    PROVE  PoolInv'
<1>1. UNCHANGED <<blockList, freeCount, given, suspended, pended, timed, result, inCall,
                  mode, again, stage>>
  BY DEF Area!vars, Area!blocks, Area!waits
<1>2. Coming' = Coming /\ PoolWaits' /\ BlocksKept' /\ Swept'
  BY <1>1 DEF PoolInv, Coming, PoolWaits, BlocksKept, Swept, Row
<1> QED BY <1>1, <1>2 DEF PoolInv

LEMMA PoolStarts ==
    ASSUME Area!MemoryPoolAssumption, Area!Init
    PROVE  PoolInv
<1>1. /\ blockList = SetToSeq(Blocks) /\ given = {} /\ freeCount = Cardinality(Blocks)
      /\ suspended = <<>> /\ pended = 0 /\ timed = {} /\ inCall = {}
      /\ result = [t \in Threads |-> "ok"] /\ mode = [t \in Threads |-> "no"]
      /\ stage = "live" /\ again = {} /\ IsFiniteSet(Blocks)
  BY SameSize, SameSetToSeq DEF Area!Init, Area!MemoryPoolAssumption
<1>2. BlocksKept
  BY <1>1, SetToSeqRow DEF BlocksKept
<1>3. Row(<<>>, Threads) /\ Range(<<>>) = {} /\ Len(<<>>) = 0
  BY EmptyRow
<1>4. PoolWaits
  BY <1>1, <1>3, FS_EmptySet DEF PoolWaits, Area!Waits, Area!MemoryPoolAssumption
<1> QED BY <1>1, <1>2, <1>4 DEF PoolInv, Swept

-----------------------------------------------------------------------------
(* Message queue: chains of nodes                                           *)

Slots == 1..Size
SlotOrNull == Slots \union {Null}

\* The links nx lead from n through c to the end.
Linked(nx, c, n) ==
    /\ Row(c, Slots)
    /\ n = IF c = <<>> THEN Null ELSE c[1]
    /\ \A i \in 1..Len(c) : nx[c[i]] = IF i = Len(c) THEN Null ELSE c[i+1]

\* The function that Chain is defined by, on the first K steps.
Walks(g, K, nx) ==
    g = [k \in 0..K |->
           [m \in SlotOrNull |->
              IF k = 0 \/ m = Null THEN <<>> ELSE <<m>> \o g[k - 1][nx[m]]]]

LEMMA WalksLemma ==
    ASSUME NEW nx \in [Slots -> SlotOrNull], NEW n \in Nat
    PROVE  \E g : Walks(g, n, nx)
<1> DEFINE Bad == {K \in Nat : ~\E g : Walks(g, K, nx)}
<1>1. SUFFICES ASSUME Bad # {} PROVE FALSE
  OBVIOUS
<1>2. PICK K : K \in Bad /\ \A y \in Bad : K =< y
  BY <1>1, FirstLemma
<1>3. K # 0
  <2>1. Walks([k \in 0..0 |-> [m \in SlotOrNull |-> <<>>]], 0, nx)
    BY DEF Walks
  <2> QED BY <2>1, <1>2
<1>4. PICK j \in Nat : K = j + 1 /\ j \notin Bad
  <2>1. K - 1 \in Nat /\ K = (K - 1) + 1 /\ ~(K =< K - 1)
    BY <1>2, <1>3
  <2> QED BY <1>2, <2>1
<1>5. PICK g : Walks(g, j, nx)
  BY <1>4
<1> DEFINE Step(x, k) == [m \in SlotOrNull |->
                             IF k = 0 \/ m = Null THEN <<>> ELSE <<m>> \o x[k - 1][nx[m]]]
           h == [k \in 0..K |-> Step(g, k)]
<1>6. \A k \in 0..j : g[k] = Step(g, k)
  BY <1>5 DEF Walks
<1>7. \A k \in 0..j : h[k] = g[k]
  <2>1. \A k \in 0..K : h[k] = Step(g, k)
    OBVIOUS
  <2> HIDE DEF h, Step
  <2>2. \A k \in 0..j : k \in 0..K
    BY <1>4
  <2> QED BY <1>6, <2>1, <2>2
<1>8. ASSUME NEW k \in 0..K PROVE h[k] = Step(h, k)
  <2>1. h[k] = Step(g, k)
    OBVIOUS
  <2> HIDE DEF h
  <2>2. CASE k = 0
    BY <2>1, <2>2
  <2>3. CASE k # 0
    <3>1. k - 1 \in 0..j
      BY <1>4, <2>3
    <3>2. h[k - 1] = g[k - 1]
      BY <1>7, <3>1
    <3> QED BY <2>1, <3>2
  <2> QED BY <2>2, <2>3
<1>9. Walks(h, K, nx)
  <2>1. h = [k \in 0..K |-> h[k]]
    OBVIOUS
  <2> HIDE DEF h
  <2> QED BY <1>8, <2>1 DEF Walks
<1> QED BY <1>2, <1>9

\* As Chain of the module, for links nx.
ChainOf(nx, n) ==
    LET walk[k \in 0..Queue!Cardinality(1..Size) + 1] ==
            [m \in (1..Size) \union {Null} |->
                IF k = 0 \/ m = Null THEN <<>> ELSE <<m>> \o walk[k - 1][nx[m]]]
    IN  walk[Queue!Cardinality(1..Size) + 1][n]
LEMMA ChainSame ==
    ASSUME NEW n, NEW r
    PROVE  /\ Queue!Chain(n) = ChainOf(next, n)
           /\ n = head => (Queue!Chain(head) = ChainOf(next, n))
BY DEF Queue!Chain, ChainOf, Queue!NodeOrNull

\* The first node goes: the others are a chain.
LEMMA LinkedTail ==
    ASSUME NEW nx, NEW c, NEW n, Linked(nx, c, n), n # Null
    PROVE  /\ c # <<>> /\ n = Head(c) /\ n \in Range(c) /\ n \in Slots
           /\ Linked(nx, Tail(c), nx[n]) /\ Row(Tail(c), Slots)
           /\ Range(Tail(c)) = Range(c) \ {n}
           /\ Len(Tail(c)) = Len(c) - 1 /\ Len(c) \in Nat
           /\ c = <<n>> \o Tail(c)
<1>1. c # <<>> /\ n = c[1] /\ Row(c, Slots)
  BY DEF Linked
<1>2. /\ c \in Seq(Slots) /\ Len(c) \in Nat /\ 1 \in 1..Len(c) /\ Head(c) = c[1]
      /\ Tail(c) \in Seq(Slots) /\ Len(Tail(c)) = Len(c) - 1
      /\ \A i \in 1..Len(c) - 1 : Tail(c)[i] = c[i+1]
  BY <1>1 DEF Row
<1>3. /\ Row(Tail(c), Slots) /\ Range(Tail(c)) = Range(c) \ {Head(c)}
      /\ Head(c) \in Range(c) /\ Range(c) \subseteq Slots
  BY <1>1, TailRow
<1>4. PICK d : d = Tail(c)
  OBVIOUS
<1>5. d \in Seq(Slots) /\ Len(d) \in Nat /\ Len(d) = Len(c) - 1
  BY <1>2, <1>4
<1>5a. \A i \in 1..Len(d) : d[i] = c[i+1]
  BY <1>2, <1>4
<1>5b. (d = <<>>) <=> (Len(c) = 1)
  BY <1>2, <1>5
<1>6. \A i \in 1..Len(c) : nx[c[i]] = IF i = Len(c) THEN Null ELSE c[i+1]
  BY DEF Linked
<1>7. nx[n] = IF d = <<>> THEN Null ELSE d[1]
  <2>1. nx[c[1]] = IF 1 = Len(c) THEN Null ELSE c[1+1]
    BY <1>2, <1>6
  <2>2. d # <<>> => 1 \in 1..Len(d)
    BY <1>5
  <2>3. d # <<>> => d[1] = c[1+1]
    BY <1>5a, <2>2
  <2> QED BY <1>1, <1>5b, <2>1, <2>3
<1>8. \A i \in 1..Len(d) : nx[d[i]] = IF i = Len(d) THEN Null ELSE d[i+1]
  <2> TAKE i \in 1..Len(d)
  <2>1. i \in Int /\ i + 1 \in 1..Len(c) /\ ((i = Len(d)) <=> (i + 1 = Len(c)))
    BY <1>5, <1>2
  <2>2. i # Len(d) => i + 1 \in 1..Len(d)
    BY <1>5
  <2>3. i # Len(d) => d[i+1] = c[(i+1)+1]
    BY <1>5a, <2>2
  <2>4. nx[c[i+1]] = IF i + 1 = Len(c) THEN Null ELSE c[(i+1)+1]
    BY <1>6, <2>1
  <2>5. d[i] = c[i+1]
    BY <1>5a
  <2> QED BY <2>1, <2>3, <2>4, <2>5
<1>9. Linked(nx, d, nx[n])
  BY <1>3, <1>4, <1>7, <1>8 DEF Linked
<1>10. c = <<n>> \o Tail(c)
  BY <1>1, <1>2
<1> QED BY <1>1, <1>2, <1>3, <1>4, <1>9, <1>10

\* Chain finds exactly the nodes of a chain.
LEMMA ChainLemma ==
    ASSUME Size \in Nat, NEW nx \in [Slots -> SlotOrNull], Null \notin Slots,
           NEW c, NEW n, Linked(nx, c, n)
    PROVE  ChainOf(nx, n) = c
<1>1. Queue!Cardinality(1..Size) = Size
  BY SameSize, FS_Interval
<1> DEFINE N == Size + 1
           walk == CHOOSE g : g = [k \in 0..N |-> [m \in SlotOrNull |->
                      IF k = 0 \/ m = Null THEN <<>> ELSE <<m>> \o g[k - 1][nx[m]]]]
<1>2. Walks(walk, N, nx)
  <2>1. \E g : Walks(g, N, nx)
    BY WalksLemma
  <2> QED BY <2>1 DEF Walks
<1>3. ChainOf(nx, n) = walk[N][n]
  BY <1>1 DEF ChainOf, SlotOrNull, Slots
<1> HIDE DEF walk
<1>4. \A k \in 0..N, m \in SlotOrNull :
         walk[k][m] = IF k = 0 \/ m = Null THEN <<>> ELSE <<m>> \o walk[k - 1][nx[m]]
  <2> TAKE k \in 0..N, m \in SlotOrNull
  <2>1. walk[k] = [x \in SlotOrNull |->
                     IF k = 0 \/ x = Null THEN <<>> ELSE <<x>> \o walk[k - 1][nx[x]]]
    BY <1>2 DEF Walks
  <2> QED BY <2>1
<1> DEFINE Good(k) == \A d, m : Linked(nx, d, m) /\ Len(d) =< k => walk[k][m] = d
           Bad == {k \in 0..N : ~Good(k)}
<1>5. Bad = {}
  <2> SUFFICES ASSUME Bad # {} PROVE FALSE
    OBVIOUS
  <2>1. PICK k \in Bad : \A y \in Bad : k =< y
    <3>1. Bad \in SUBSET Nat
      OBVIOUS
    <3> QED BY <3>1, FirstLemma
  <2>2. PICK d, m : Linked(nx, d, m) /\ Len(d) =< k /\ walk[k][m] # d
    BY <2>1
  <2>3. m \in SlotOrNull /\ d \in Seq(Slots) /\ k \in 0..N
    BY <2>1, <2>2 DEF Linked, Row, SlotOrNull
  <2>4. CASE m = Null
    <3>1. d = <<>>
      BY <2>2, <2>3, <2>4 DEF Linked
    <3>2. walk[k][m] = <<>>
      BY <1>4, <2>3, <2>4
    <3> QED BY <2>2, <3>1, <3>2
  <2>5. CASE m # Null
    <3>1. /\ Linked(nx, Tail(d), nx[m]) /\ Len(Tail(d)) = Len(d) - 1 /\ Len(d) \in Nat
          /\ d = <<m>> \o Tail(d) /\ d # <<>>
      BY <2>2, <2>5, LinkedTail
    <3>2. k # 0
      BY <2>2, <2>3, <3>1
    <3>3. k - 1 \in 0..N /\ ~(k =< k - 1) /\ Len(Tail(d)) =< k - 1
      BY <2>2, <2>3, <3>1, <3>2
    <3>4. Good(k - 1)
      BY <2>1, <3>3
    <3>5. walk[k - 1][nx[m]] = Tail(d)
      BY <3>1, <3>3, <3>4
    <3>6. walk[k][m] = <<m>> \o walk[k - 1][nx[m]]
      BY <1>4, <2>3, <2>5, <3>2
    <3> QED BY <2>2, <3>1, <3>5, <3>6
  <2> QED BY <2>4, <2>5
<1>6. Len(c) =< N /\ N \in 0..N
  <2>1. Cardinality(Range(c)) = Len(c) /\ Range(c) \in SUBSET Slots /\ Len(c) \in Nat
    <3>1. Row(c, Slots) /\ Range(c) \in SUBSET Slots
      BY DEF Linked, Row, Range
    <3> QED BY <3>1, RowLength
  <2>2. IsFiniteSet(Slots) /\ Cardinality(Slots) = Size
    BY FS_Interval DEF Slots
  <2>3. Cardinality(Range(c)) =< Size
    BY <2>1, <2>2, FS_Subset
  <2> QED BY <2>1, <2>3
<1>7. Good(N)
  BY <1>5, <1>6
<1> QED BY <1>3, <1>6, <1>7

\* An empty chain, and one whose links did not change.
LEMMA LinkedNone == \A nx : Linked(nx, <<>>, Null) /\ \A n : Linked(nx, <<>>, n) => n = Null
<1>1. Len(<<>>) = 0 /\ 1..0 = {} /\ Row(<<>>, Slots)
  BY EmptyRow
<1> QED BY <1>1 DEF Linked

LEMMA LinkedSame ==
    ASSUME NEW nx, NEW ny, NEW c, NEW n, Linked(nx, c, n), \A m \in Range(c) : ny[m] = nx[m]
    PROVE  Linked(ny, c, n)
<1>1. \A i \in 1..Len(c) : c[i] \in Range(c)
  BY DEF Linked, Row, Range
<1> QED BY <1>1 DEF Linked

\* A node is pushed before a chain ...
LEMMA LinkedPush ==
    ASSUME NEW nx, NEW ny, NEW c, NEW n, Linked(nx, c, n),
           NEW m \in Slots, m \notin Range(c), ny[m] = n,
           \A k \in Range(c) : ny[k] = nx[k]
    PROVE  Linked(ny, <<m>> \o c, m)
<1>1. PICK d : d = <<m>> \o c
  OBVIOUS
<1>2. Row(d, Slots) /\ d # <<>>
  <2>1. Row(c, Slots)
    BY DEF Linked
  <2> QED BY <1>1, <2>1, PrependRow
<1>3. c \in Seq(Slots) /\ Len(c) \in Nat
  BY DEF Linked, Row
<1>4. /\ Len(d) = Len(c) + 1 /\ d[1] = m
      /\ \A i \in 1..Len(c) : d[i+1] = c[i]
  BY <1>1, <1>3
<1>5. n = IF Len(c) = 0 THEN Null ELSE c[1]
  BY <1>3 DEF Linked
<1>6. \A i \in 1..Len(c) : ny[c[i]] = IF i = Len(c) THEN Null ELSE c[i+1]
  <2>1. Linked(ny, c, n)
    BY LinkedSame
  <2> QED BY <2>1 DEF Linked
<1>7. \A i \in 1..Len(d) : ny[d[i]] = IF i = Len(d) THEN Null ELSE d[i+1]
  <2> TAKE i \in 1..Len(d)
  <2>1. CASE i = 1
    <3>1. Len(c) # 0 => 1 \in 1..Len(c)
      BY <1>3
    <3>2. Len(c) # 0 => d[1+1] = c[1]
      BY <1>4, <3>1
    <3>3. (1 = Len(d)) <=> (Len(c) = 0)
      BY <1>3, <1>4
    <3> QED BY <1>4, <1>5, <2>1, <3>2, <3>3
  <2>2. CASE i # 1
    <3>1. PICK j \in 1..Len(c) : i = j + 1
      <4>1. i - 1 \in 1..Len(c) /\ i = (i - 1) + 1
        BY <1>3, <1>4, <2>2
      <4> QED BY <4>1
    <3>2. (i = Len(d)) <=> (j = Len(c))
      BY <1>3, <1>4, <3>1
    <3>3. j # Len(c) => j + 1 \in 1..Len(c)
      BY <1>3
    <3>4. j # Len(c) => d[(j+1)+1] = c[j+1]
      BY <1>4, <3>3
    <3>5. d[i] = c[j]
      BY <1>4, <3>1
    <3> QED BY <1>6, <3>1, <3>2, <3>4, <3>5
  <2> QED BY <2>1, <2>2
<1>8. m = IF d = <<>> THEN Null ELSE d[1]
  BY <1>2, <1>4
<1> QED BY <1>1, <1>2, <1>7, <1>8 DEF Linked

\* ... or appended to it.
LEMMA LinkedAppend ==
    ASSUME NEW nx, NEW ny, NEW c, NEW n, Linked(nx, c, n),
           NEW m \in Slots, m \notin Range(c), ny[m] = Null,
           c # <<>> => ny[c[Len(c)]] = m,
           \A k \in Range(c) : (c = <<>> \/ k # c[Len(c)]) => ny[k] = nx[k]
    PROVE  Linked(ny, Append(c, m), IF c = <<>> THEN m ELSE n)
<1>1. PICK d : d = Append(c, m)
  OBVIOUS
<1>2. Row(d, Slots) /\ d # <<>>
  <2>1. Row(c, Slots)
    BY DEF Linked
  <2> QED BY <1>1, <2>1, AppendRow
<1>3. /\ c \in Seq(Slots) /\ Len(c) \in Nat
      /\ \A i, j \in 1..Len(c) : c[i] = c[j] => i = j
      /\ \A i \in 1..Len(c) : c[i] \in Range(c)
  BY DEF Linked, Row, Range
<1>4. Len(d) = Len(c) + 1 /\ d[Len(c) + 1] = m
  BY <1>1, <1>3
<1>4a. \A i \in 1..Len(c) : d[i] = c[i]
  BY <1>1, <1>3
<1>5. \A i \in 1..Len(c) : nx[c[i]] = IF i = Len(c) THEN Null ELSE c[i+1]
  BY DEF Linked
<1>6. \A i \in 1..Len(d) : ny[d[i]] = IF i = Len(d) THEN Null ELSE d[i+1]
  <2> TAKE i \in 1..Len(d)
  <2>1. CASE i = Len(c) + 1
    BY <1>4, <2>1
  <2>2. CASE i = Len(c)
    <3>1. c # <<>> /\ i \in 1..Len(c) /\ i # Len(d)
      BY <1>3, <1>4, <2>2
    <3>2. d[i] = c[Len(c)]
      BY <1>4a, <2>2, <3>1
    <3> QED BY <1>4, <2>2, <3>1, <3>2
  <2>3. CASE i # Len(c) + 1 /\ i # Len(c)
    <3>1. i \in 1..Len(c) /\ i + 1 \in 1..Len(c) /\ i # Len(d) /\ Len(c) \in 1..Len(c)
      BY <1>3, <1>4, <2>3
    <3>2. d[i] = c[i] /\ d[i+1] = c[i+1]
      BY <1>4a, <3>1
    <3>3. c[i] # c[Len(c)] /\ c[i] \in Range(c)
      BY <1>3, <2>3, <3>1
    <3>4. ny[c[i]] = nx[c[i]]
      BY <3>3
    <3> QED BY <1>5, <2>3, <3>1, <3>2, <3>4
  <2> QED BY <2>1, <2>2, <2>3
<1>7. (IF c = <<>> THEN m ELSE n) = IF d = <<>> THEN Null ELSE d[1]
  <2>1. CASE c = <<>>
    <3>1. Len(c) = 0
      BY <2>1
    <3> QED BY <1>2, <1>4, <2>1, <3>1
  <2>2. CASE c # <<>>
    <3>1. 1 \in 1..Len(c) /\ n = c[1]
      BY <1>3, <2>2 DEF Linked
    <3> QED BY <1>2, <1>4a, <2>2, <3>1
  <2> QED BY <2>1, <2>2
<1> QED BY <1>1, <1>2, <1>6, <1>7 DEF Linked

\* The loop of a reset, and of rt_mq_create: the nodes of q are pushed one
\* after the other before the chain f.
LEMMA LinkedReversed ==
    ASSUME NEW ny, NEW q, NEW f, NEW n, Linked(ny, f, n), Row(q, Slots),
           Range(q) \intersect Range(f) = {},
           \A i \in 1..Len(q) : ny[q[i]] = IF i = 1 THEN n ELSE q[i-1]
    PROVE  \E r : /\ Linked(ny, r, IF q = <<>> THEN n ELSE q[Len(q)])
                  /\ Range(r) = Range(q) \union Range(f)
<1>1. /\ q \in Seq(Slots) /\ Len(q) \in Nat /\ DOMAIN q = 1..Len(q)
      /\ \A i, j \in 1..Len(q) : q[i] = q[j] => i = j
      /\ \A i \in 1..Len(q) : q[i] \in Range(q) /\ q[i] \in Slots
  BY DEF Row, Range
<1>2. /\ f \in Seq(Slots) /\ Len(f) \in Nat /\ DOMAIN f = 1..Len(f)
      /\ \A i, j \in 1..Len(f) : f[i] = f[j] => i = j
      /\ \A i \in 1..Len(f) : f[i] \in Range(f) /\ f[i] \in Slots
  BY DEF Linked, Row, Range
<1>3. PICK a \in Nat, b \in Nat : a = Len(q) /\ b = Len(f)
  BY <1>1, <1>2
<1>4. PICK r : r = [i \in 1..a+b |-> IF i =< a THEN q[a+1-i] ELSE f[i-a]]
  OBVIOUS
<1>5. \A i \in 1..a : /\ i \in 1..a+b /\ a+1-i \in 1..a /\ i =< a
  BY <1>3
<1>6. \A i \in 1..b : /\ i+a \in 1..a+b /\ ~(i+a =< a) /\ (i+a)-a = i
  BY <1>3
<1>7. \A i \in 1..a : r[i] = q[a+1-i]
  BY <1>4, <1>5
<1>8. \A i \in 1..b : r[i+a] = f[i]
  BY <1>4, <1>6
<1>9. \A k \in 1..a+b : k \in 1..a \/ \E i \in 1..b : k = i+a
  <2> TAKE k \in 1..a+b
  <2>1. ~(k \in 1..a) => k - a \in 1..b /\ k = (k-a)+a
    BY <1>3
  <2> QED BY <2>1
<1>9a. \A k \in 1..a+b : (\E j \in 1..a : r[k] = q[j]) \/ (\E j \in 1..b : r[k] = f[j])
  BY <1>5, <1>7, <1>8, <1>9
<1>10. r \in Seq(Slots) /\ Len(r) = a+b /\ DOMAIN r = 1..a+b
  <2>1. \A k \in 1..a+b : r[k] \in Slots
    BY <1>1, <1>2, <1>3, <1>9a
  <2> QED BY <1>3, <1>4, <2>1
<1>11. ASSUME NEW k \in DOMAIN r, NEW m \in DOMAIN r, r[k] = r[m] PROVE k = m
  <2>1. CASE k \in 1..a /\ m \in 1..a
    <3>1. a+1-k = a+1-m
      BY <1>1, <1>3, <1>5, <1>7, <1>11, <2>1
    <3> QED BY <2>1, <3>1, <1>3
  <2>2. CASE k \in 1..a /\ \E i \in 1..b : m = i+a
    BY <1>1, <1>2, <1>3, <1>5, <1>7, <1>8, <1>11, <2>2
  <2>3. CASE m \in 1..a /\ \E i \in 1..b : k = i+a
    BY <1>1, <1>2, <1>3, <1>5, <1>7, <1>8, <1>11, <2>3
  <2>4. CASE (\E i \in 1..b : k = i+a) /\ (\E i \in 1..b : m = i+a)
    BY <1>2, <1>3, <1>8, <1>11, <2>4
  <2> QED BY <1>9, <1>10, <2>1, <2>2, <2>3, <2>4
<1>12. Row(r, Slots)
  BY <1>10, <1>11 DEF Row
<1>13. Range(r) = Range(q) \union Range(f)
  <2>1. \A k \in 1..a+b : r[k] \in Range(q) \union Range(f)
    BY <1>1, <1>2, <1>3, <1>9a
  <2>2. \A j \in 1..a : a+1-j \in 1..a+b /\ r[a+1-j] = q[j]
    <3> TAKE j \in 1..a
    <3>1. a+1-j \in 1..a /\ a+1-(a+1-j) = j
      BY <1>3
    <3> QED BY <1>5, <1>7, <3>1
  <2>3. \A j \in 1..b : j+a \in 1..a+b /\ r[j+a] = f[j]
    BY <1>6, <1>8
  <2>4. \A x \in Range(r) : x \in Range(q) \union Range(f)
    BY <1>10, <2>1 DEF Range
  <2>5. \A x \in Range(q) : x \in Range(r)
    <3>1. \A j \in 1..a : r[a+1-j] \in Range(r)
      BY <1>10, <2>2 DEF Range
    <3>2. \A j \in 1..a : q[j] \in Range(r)
      BY <2>2, <3>1
    <3> QED BY <1>1, <1>3, <3>2 DEF Range
  <2>6. \A x \in Range(f) : x \in Range(r)
    <3>1. \A j \in 1..b : r[j+a] \in Range(r)
      BY <1>10, <2>3 DEF Range
    <3>2. \A j \in 1..b : f[j] \in Range(r)
      BY <2>3, <3>1
    <3> QED BY <1>2, <1>3, <3>2 DEF Range
  <2> QED BY <2>4, <2>5, <2>6
<1>14. \A k \in 1..a+b : ny[r[k]] = IF k = a+b THEN Null ELSE r[k+1]
  <2> TAKE k \in 1..a+b
  <2>1. CASE k \in 1..a /\ k # a
    <3>1. a+1-k # 1 /\ (a+1-k)-1 = a+1-(k+1) /\ k+1 \in 1..a /\ k # a+b /\ a+1-k \in 1..a
      BY <1>3, <2>1
    <3>2. ny[q[a+1-k]] = q[(a+1-k)-1]
      BY <1>3, <3>1
    <3> QED BY <1>7, <2>1, <3>1, <3>2
  <2>2. CASE k \in 1..a /\ k = a
    <3>1. a+1-k = 1 /\ 1 \in 1..a /\ k+1 = 1+a
      BY <1>3, <2>2
    <3>2. ny[r[k]] = n
      BY <1>3, <1>7, <2>2, <3>1
    <3>3. (k = a+b) <=> (b = 0)
      BY <1>3, <2>2
    <3>4. b = 0 => f = <<>>
      BY <1>2, <1>3
    <3>5. b # 0 => 1 \in 1..b /\ f # <<>>
      BY <1>2, <1>3
    <3>6. b # 0 => r[k+1] = f[1]
      BY <1>8, <3>1, <3>5
    <3>7. n = IF f = <<>> THEN Null ELSE f[1]
      BY DEF Linked
    <3> QED BY <3>2, <3>3, <3>4, <3>5, <3>6, <3>7
  <2>3. CASE \E i \in 1..b : k = i+a
    <3>1. PICK i \in 1..b : k = i+a
      BY <2>3
    <3>2. ny[f[i]] = IF i = b THEN Null ELSE f[i+1]
      BY <1>3 DEF Linked
    <3>3. i # b => i+1 \in 1..b /\ (i+1)+a = k+1
      BY <1>3, <3>1
    <3>4. i # b => r[k+1] = f[i+1]
      BY <1>8, <3>3
    <3>5. (k = a+b) <=> (i = b)
      BY <1>3, <3>1
    <3> QED BY <1>8, <3>1, <3>2, <3>4, <3>5
  <2> QED BY <1>9, <2>1, <2>2, <2>3
<1>15. (IF q = <<>> THEN n ELSE q[Len(q)]) = IF r = <<>> THEN Null ELSE r[1]
  <2>1. CASE a = 0
    <3>1. q = <<>> /\ ((r = <<>>) <=> (b = 0)) /\ ((f = <<>>) <=> (b = 0))
      BY <1>1, <1>2, <1>3, <1>10, <2>1
    <3>2. b # 0 => 1 \in 1..b /\ 1 + a = 1
      BY <1>3, <2>1
    <3>3. b # 0 => r[1] = f[1]
      BY <1>8, <3>2
    <3>4. n = IF f = <<>> THEN Null ELSE f[1]
      BY DEF Linked
    <3> QED BY <3>1, <3>3, <3>4
  <2>2. CASE a # 0
    <3>1. q # <<>> /\ r # <<>> /\ 1 \in 1..a /\ a+1-1 = a
      BY <1>1, <1>3, <1>10, <2>2
    <3> QED BY <1>3, <1>7, <3>1
  <2> QED BY <2>1, <2>2
<1>16. Linked(ny, r, IF q = <<>> THEN n ELSE q[Len(q)])
  BY <1>3, <1>10, <1>12, <1>14, <1>15 DEF Linked
<1> QED BY <1>13, <1>16

-----------------------------------------------------------------------------
(* Message queue: the inductive invariant                                   *)

Users == Peers \union {Isr}
Labels == {"idle", "alloc", "fill", "link", "waits", "copy", "put"}

\* D are the nodes of the queue and F the free ones; what calls hold is in h.
Placed(D, F, h) ==
    /\ D \intersect F = {}
    /\ \A p \in Users : h[p] # Null => h[p] \notin D \union F
    /\ \A p1, p2 \in Users : p1 # p2 /\ h[p1] # Null => h[p1] # h[p2]
    /\ \A n \in Slots : n \in D \union F \/ \E p \in Users : h[p] = n

\* The queue is q, the free list f.
NodeInv(q, f) ==
    /\ next \in [Slots -> SlotOrNull] /\ data \in [Slots -> Values \union {None}]
    /\ Linked(next, q, head) /\ Linked(next, f, free)
    /\ Placed(Range(q), Range(f), msg)
    /\ entry = Len(q) /\ tail = IF q = <<>> THEN Null ELSE q[Len(q)]
    /\ \A n \in Range(q) : data[n] \in Values

\* What a call has at hand: a node, a value to send, a value it received.
AtHand(p) ==
    /\ ((msg[p] # Null) <=> (pc[p] \in {"fill", "link", "copy", "put"}))
    /\ ((arg[p] # None) <=> (pc[p] \in {"alloc", "fill", "link"}))
    /\ ((buf[p] # None) <=> (pc[p] = "put"))
    /\ (pc[p] = "link" => next[msg[p]] = Null /\ data[msg[p]] = arg[p])
    /\ (pc[p] = "copy" => data[msg[p]] \in Values)
CallInv ==
    /\ pc \in [Users -> Labels] /\ msg \in [Users -> SlotOrNull]
    /\ arg \in [Users -> Values \union {None}] /\ buf \in [Users -> Values \union {None}]
    /\ pc[Isr] # "waits"
    /\ \A p \in Users : AtHand(p)

LineInv ==
    /\ Row(suspended, Peers) /\ timed \in SUBSET Range(suspended)
    /\ result \in [Peers -> {"ok", "timeout", "error"}]
    /\ mode \in [Peers -> {"no", "timed", "forever"}] /\ again \in SUBSET Peers
    /\ stage \in {"live", "check", "take", "free", "gone", "wild"}
    /\ \A t \in Range(suspended) : pc[t] = "waits" /\ result[t] = "ok"
    /\ Swept

\* The receivers that were woken for a message and have not looked yet.
Roused == {t \in Peers : pc[t] = "waits" /\ result[t] = "ok" /\ t \notin Range(suspended)}
Served == suspended # <<>> => entry =< Cardinality(Roused)

QueueInv(q, f) == NodeInv(q, f) /\ CallInv /\ LineInv /\ Served

\* What the assumptions of the instances say here.
LEMMA QueueConstants ==
    /\ Size \in Nat /\ Isr \notin Peers /\ Null \notin Slots /\ None \notin Values
    /\ IsFiniteSet(Peers) /\ IsFiniteSet(Slots) /\ Cardinality(Slots) = Size
<1>1. Size \in Nat
  BY InstancesAssumption DEF Box!MailboxAssumption
<1>2. IsFiniteSet(Slots) /\ Cardinality(Slots) = Size
  BY <1>1, FS_Interval DEF Slots
<1>3. IsFiniteSet(Peers)
  BY InstancesAssumption DEF Box!MailboxAssumption, Box!IsFiniteSet, IsFiniteSet
<1>4. Isr \notin Peers /\ Null \notin Slots /\ None \notin Values
  BY InstancesAssumption DEF Queue!MessageQueueAssumption, Slots
<1> QED BY <1>1, <1>2, <1>3, <1>4

\* A call takes a node off a list ...
LEMMA PlacedTaken ==
    ASSUME NEW D, NEW F, NEW h \in [Users -> SlotOrNull], Placed(D, F, h), NEW p \in Users,
           NEW m \in D \union F, h[p] = Null, NEW g, g = [h EXCEPT ![p] = m]
    PROVE  Placed(D \ {m}, F \ {m}, g)
<1>1. \A u \in Users : g[u] = IF u = p THEN m ELSE h[u]
  OBVIOUS
<1>2. \A u \in Users : h[u] # Null => h[u] # m
  BY DEF Placed
<1>3. \A u \in Users : g[u] # Null => g[u] \notin (D \ {m}) \union (F \ {m})
  BY <1>1 DEF Placed
<1>4. \A p1, p2 \in Users : p1 # p2 /\ g[p1] # Null => g[p1] # g[p2]
  BY <1>1, <1>2 DEF Placed
<1>5. \A n \in Slots : n \in (D \ {m}) \union (F \ {m}) \/ \E u \in Users : g[u] = n
  <2> TAKE n \in Slots
  <2>1. CASE n = m
    BY <1>1, <2>1
  <2>2. CASE n # m /\ n \notin D \union F
    <3>1. PICK u \in Users : h[u] = n
      BY <2>2 DEF Placed
    <3>2. u # p
      BY <2>2, <3>1, QueueConstants
    <3> QED BY <1>1, <3>1, <3>2
  <2> QED BY <2>1, <2>2
<1> QED BY <1>3, <1>4, <1>5 DEF Placed

\* ... puts one on the queue or on the free list ...
LEMMA PlacedGiven ==
    ASSUME NEW D, NEW F, NEW h \in [Users -> SlotOrNull], Placed(D, F, h), NEW p \in Users,
           h[p] # Null, NEW g, g = [h EXCEPT ![p] = Null]
    PROVE  /\ Placed(D \union {h[p]}, F, g) /\ Placed(D, F \union {h[p]}, g)
           /\ h[p] \notin D \union F /\ h[p] \in Slots
<1>1. \A u \in Users : g[u] = IF u = p THEN Null ELSE h[u]
  OBVIOUS
<1>2. h[p] \notin D \union F /\ h[p] \in Slots
  BY DEF Placed, SlotOrNull
<1>3. \A n \in Slots : n # h[p] => n \in D \union F \/ \E u \in Users : g[u] = n
  BY <1>1 DEF Placed
<1> QED BY <1>1, <1>2, <1>3 DEF Placed

\* ... or frees all of the queue.
LEMMA PlacedFreed ==
    ASSUME NEW D, NEW F, NEW h, Placed(D, F, h)
    PROVE  Placed({}, D \union F, h)
BY DEF Placed

\* Who takes a step is not suspended.
LEMMA Awake ==
    ASSUME LineInv, NEW p \in Users, Queue!Runs(p)
    PROVE  p \notin Range(suspended) /\ stage \notin {"gone", "wild"}
<1>1. Range(suspended) \subseteq Peers
  BY DEF LineInv, Row, Range
<1> QED BY <1>1, SameRange, QueueConstants DEF Queue!Runs, Queue!Usable, Users

LEMMA RousedFinite ==
    Roused \in SUBSET Peers /\ IsFiniteSet(Roused) /\ Cardinality(Roused) \in Nat
BY QueueConstants, FS_Subset, FS_CardinalityType DEF Roused

\* One that does not wait leaves the waiters alone.
LEMMA LinePassed ==
    ASSUME LineInv, CallInv, NEW p \in Users, p \notin Range(suspended),
           NEW l \in Labels \ {"waits"}, pc' = [pc EXCEPT ![p] = l],
           UNCHANGED <<suspended, timed, again, stage>>,
           result' \in [Peers -> {"ok", "timeout", "error"}],
           \A t \in Peers \ {p} : result'[t] = result[t],
           mode' \in [Peers -> {"no", "timed", "forever"}]
    PROVE  LineInv' /\ Roused' = Roused \ {p}
<1>1. \A u \in Users : pc'[u] = IF u = p THEN l ELSE pc[u]
  BY DEF CallInv
<1>2. Range(suspended) \subseteq Peers /\ Peers \subseteq Users
  BY DEF LineInv, Row, Range, Users
<1>3. \A t \in Range(suspended) : pc'[t] = "waits" /\ result'[t] = "ok"
  BY <1>1, <1>2 DEF LineInv
<1>4. Swept' /\ Row(suspended', Peers)
  BY DEF LineInv, Swept, Row
<1>5. Roused' = Roused \ {p}
  BY <1>1, <1>2 DEF Roused
<1> QED BY <1>3, <1>4, <1>5 DEF LineInv

LEMMA ServedSame ==
    ASSUME Served, NEW p \in Users, Roused' = Roused \ {p}, UNCHANGED suspended,
           entry \in Nat, entry' \in Nat,
           \/ p \notin Roused /\ entry' = entry
           \/ entry' = entry - 1
           \/ entry' = 0
    PROVE  Served'
<1>1. Cardinality(Roused') \in Nat
  BY RousedFinite, FS_RemoveElement, FS_CardinalityType
<1>2. Cardinality(Roused') = IF p \in Roused THEN Cardinality(Roused) - 1
                             ELSE Cardinality(Roused)
  <2>1. p \notin Roused => Roused' = Roused
    OBVIOUS
  <2> QED BY <2>1, RousedFinite, FS_RemoveElement
<1> QED BY <1>1, <1>2, RousedFinite DEF Served

-----------------------------------------------------------------------------
(* Message queue: the calls                                                 *)

\* A call moves on; nobody else's node changes.
LEMMA CallMoved ==
    ASSUME CallInv, NEW p \in Users, NEW l \in Labels \ {"waits"},
           pc' = [pc EXCEPT ![p] = l],
           msg' \in [Users -> SlotOrNull], arg' \in [Users -> Values \union {None}],
           buf' \in [Users -> Values \union {None}],
           \A u \in Users \ {p} : /\ msg'[u] = msg[u] /\ arg'[u] = arg[u] /\ buf'[u] = buf[u]
                                  /\ msg[u] # Null => /\ next'[msg[u]] = next[msg[u]]
                                                      /\ data'[msg[u]] = data[msg[u]],
           AtHand(p)'
    PROVE  CallInv'
<1>1. \A u \in Users : pc'[u] = IF u = p THEN l ELSE pc[u]
  BY DEF CallInv
<1>2. pc' \in [Users -> Labels] /\ pc'[Isr] # "waits"
  BY <1>1 DEF CallInv, Users
<1>3. ASSUME NEW u \in Users \ {p} PROVE AtHand(u)'
  <2>1. AtHand(u)
    BY DEF CallInv
  <2>2. pc'[u] = pc[u]
    BY <1>1
  <2> QED BY <2>1, <2>2 DEF AtHand
<1> QED BY <1>2, <1>3 DEF CallInv

\* Types that several lemmas need.
LEMMA QueueTypes ==
    ASSUME NEW q, NEW f, QueueInv(q, f)
    PROVE  /\ Row(q, Slots) /\ Row(f, Slots) /\ entry \in Nat /\ entry = Len(q)
           /\ ((entry = 0) <=> (q = <<>>)) /\ ((q = <<>>) <=> (head = Null))
           /\ ((f = <<>>) <=> (free = Null))
           /\ Range(q) \subseteq Slots /\ Range(f) \subseteq Slots
<1>1. Row(q, Slots) /\ Row(f, Slots) /\ entry = Len(q)
  BY DEF QueueInv, NodeInv, Linked
<1>2. Len(q) \in Nat /\ ((Len(q) = 0) <=> (q = <<>>))
  BY <1>1 DEF Row
<1>3. Range(q) \subseteq Slots /\ Range(f) \subseteq Slots
  BY <1>1 DEF Row, Range
<1>4. \A c, n : Linked(next, c, n) => ((c = <<>>) <=> (n = Null))
  <2> SUFFICES ASSUME NEW c, NEW n, Linked(next, c, n) PROVE (c = <<>>) <=> (n = Null)
    OBVIOUS
  <2>1. c # <<>> => c[1] \in Slots
    BY DEF Linked, Row
  <2> QED BY <2>1, QueueConstants DEF Linked
<1>5. Linked(next, q, head) /\ Linked(next, f, free)
  BY DEF QueueInv, NodeInv
<1> QED BY <1>1, <1>2, <1>3, <1>4, <1>5

\* Where p is, nobody else's node is on a list or p's own.
LEMMA AtLemma ==
    ASSUME NEW q, NEW f, QueueInv(q, f), NEW p \in Users, NEW l, Queue!At(p, l)
    PROVE  /\ pc[p] = l /\ p \notin Range(suspended) /\ AtHand(p)
           /\ (l # "waits" => p \notin Roused)
           /\ \A u \in Users \ {p} : msg[u] # Null => /\ msg[u] \notin Range(q) \union Range(f)
                                                      /\ msg[u] # msg[p]
<1>1. pc[p] = l /\ p \notin Range(suspended)
  BY Awake DEF Queue!At, QueueInv
<1>2. Placed(Range(q), Range(f), msg) /\ AtHand(p)
  BY DEF QueueInv, NodeInv, CallInv
<1> QED BY <1>1, <1>2 DEF Placed, Roused

LEMMA QSendCall ==
    ASSUME NEW q, NEW f, QueueInv(q, f), NEW p \in Users, NEW v \in Values, Queue!SendCall(p, v)
    PROVE  QueueInv(q, f)'
<1>1. /\ Queue!At(p, "idle") /\ arg' = [arg EXCEPT ![p] = v]
      /\ pc' = [pc EXCEPT ![p] = "alloc"]
      /\ UNCHANGED <<next, data, head, tail, free, entry, suspended, timed, result,
                     mode, msg, buf, stage, again>>
  BY DEF Queue!SendCall, Queue!Goto, Queue!lists, Queue!waits, Queue!deletion
<1>2. pc[p] = "idle" /\ p \notin Range(suspended) /\ p \notin Roused /\ AtHand(p)
  BY <1>1, AtLemma
<1>3. NodeInv(q, f)'
  BY <1>1 DEF QueueInv, NodeInv
<1>4. CallInv'
  <2>1. arg' \in [Users -> Values \union {None}] /\ \A u \in Users \ {p} : arg'[u] = arg[u]
    BY <1>1 DEF QueueInv, CallInv
  <2>2. pc'[p] = "alloc" /\ arg'[p] = v
    BY <1>1 DEF QueueInv, CallInv
  <2>3. AtHand(p)'
    BY <1>1, <1>2, <2>2, QueueConstants DEF AtHand
  <2>4. "alloc" \in Labels \ {"waits"} /\ CallInv
    BY DEF Labels, QueueInv
  <2>5. msg' \in [Users -> SlotOrNull] /\ buf' \in [Users -> Values \union {None}]
    BY <1>1, <2>4 DEF CallInv
  <2> QED BY <1>1, <2>1, <2>3, <2>4, <2>5, CallMoved
<1>5. LineInv' /\ Roused' = Roused \ {p}
  <2>1. "alloc" \in Labels \ {"waits"} /\ CallInv /\ LineInv
    BY DEF Labels, QueueInv
  <2> QED BY <1>1, <1>2, <2>1, LinePassed DEF LineInv
<1>6. Served'
  BY <1>1, <1>2, <1>5, QueueTypes, ServedSame DEF QueueInv
<1> QED BY <1>3, <1>4, <1>5, <1>6 DEF QueueInv

LEMMA QSendFull ==
    ASSUME NEW q, NEW f, QueueInv(q, f), NEW p \in Users, Queue!SendFull(p)
    PROVE  QueueInv(q, f)'
<1>1. /\ Queue!At(p, "alloc") /\ arg' = [arg EXCEPT ![p] = None]
      /\ pc' = [pc EXCEPT ![p] = "idle"]
      /\ UNCHANGED <<next, data, head, tail, free, entry, suspended, timed, result,
                     mode, msg, buf, stage, again>>
  BY DEF Queue!SendFull, Queue!Goto, Queue!lists, Queue!waits, Queue!deletion
<1>2. pc[p] = "alloc" /\ p \notin Range(suspended) /\ p \notin Roused /\ AtHand(p)
  BY <1>1, AtLemma
<1>3. NodeInv(q, f)'
  BY <1>1 DEF QueueInv, NodeInv
<1>4. "idle" \in Labels \ {"waits"} /\ CallInv /\ LineInv
  BY DEF Labels, QueueInv
<1>5. CallInv'
  <2>1. arg' \in [Users -> Values \union {None}] /\ \A u \in Users \ {p} : arg'[u] = arg[u]
    BY <1>1, <1>4 DEF CallInv
  <2>2. pc'[p] = "idle" /\ arg'[p] = None
    BY <1>1, <1>4 DEF CallInv
  <2>3. AtHand(p)'
    BY <1>1, <1>2, <2>2 DEF AtHand
  <2>4. msg' \in [Users -> SlotOrNull] /\ buf' \in [Users -> Values \union {None}]
    BY <1>1, <1>4 DEF CallInv
  <2> QED BY <1>1, <1>4, <2>1, <2>3, <2>4, CallMoved
<1>6. LineInv' /\ Roused' = Roused \ {p}
  BY <1>1, <1>2, <1>4, LinePassed DEF LineInv
<1>7. Served'
  BY <1>1, <1>2, <1>6, QueueTypes, ServedSame DEF QueueInv
<1> QED BY <1>3, <1>5, <1>6, <1>7 DEF QueueInv

LEMMA QAlloc ==
    ASSUME NEW q, NEW f, QueueInv(q, f), NEW p \in Users, Queue!Alloc(p),
           NEW g, g = Tail(f)
    PROVE  QueueInv(q, g)'
<1>1. PICK m : m = free
  OBVIOUS
<1>2. /\ Queue!At(p, "alloc") /\ m # Null /\ msg' = [msg EXCEPT ![p] = m] /\ free' = next[m]
      /\ pc' = [pc EXCEPT ![p] = "fill"]
      /\ UNCHANGED <<next, data, head, tail, entry, suspended, timed, result,
                     arg, mode, buf, stage, again>>
  BY <1>1 DEF Queue!Alloc, Queue!Goto, Queue!waits, Queue!deletion
<1>3. pc[p] = "alloc" /\ p \notin Range(suspended) /\ p \notin Roused /\ AtHand(p)
  BY <1>2, AtLemma
<1>4. /\ Linked(next, f, m) /\ Placed(Range(q), Range(f), msg)
      /\ CallInv /\ LineInv /\ msg[p] = Null
  BY <1>1, <1>3 DEF QueueInv, NodeInv, AtHand
<1>5. /\ Linked(next, g, next[m]) /\ Range(g) = Range(f) \ {m} /\ m \in Range(f)
      /\ m \in Slots
  BY <1>1, <1>2, <1>4, LinkedTail
<1>6. NodeInv(q, g)'
  <2>1. Placed(Range(q) \ {m}, Range(g), msg')
    <3>1. msg \in [Users -> SlotOrNull] /\ m \in Range(q) \union Range(f)
      BY <1>4, <1>5 DEF CallInv
    <3>2. Placed(Range(q) \ {m}, Range(f) \ {m}, msg')
      BY <1>2, <1>4, <3>1, PlacedTaken
    <3> QED BY <1>5, <3>2
  <2>2. Range(q) \ {m} = Range(q)
    BY <1>4, <1>5 DEF Placed
  <2> QED BY <1>2, <1>5, <2>1, <2>2 DEF QueueInv, NodeInv
<1>7. "fill" \in Labels \ {"waits"}
  BY DEF Labels
<1>8. CallInv'
  <2>1. msg' \in [Users -> SlotOrNull] /\ \A u \in Users \ {p} : msg'[u] = msg[u]
    BY <1>2, <1>4, <1>5 DEF CallInv, SlotOrNull
  <2>2. pc'[p] = "fill" /\ msg'[p] = m
    BY <1>2, <1>4 DEF CallInv
  <2>3. AtHand(p)'
    BY <1>2, <1>3, <2>2 DEF AtHand
  <2>4. arg' \in [Users -> Values \union {None}] /\ buf' \in [Users -> Values \union {None}]
    BY <1>2, <1>4 DEF CallInv
  <2> QED BY <1>2, <1>4, <1>7, <2>1, <2>3, <2>4, CallMoved
<1>9. LineInv' /\ Roused' = Roused \ {p}
  BY <1>2, <1>3, <1>4, <1>7, LinePassed DEF LineInv
<1>10. Served'
  BY <1>2, <1>3, <1>9, QueueTypes, ServedSame DEF QueueInv
<1> QED BY <1>6, <1>8, <1>9, <1>10 DEF QueueInv

LEMMA QFill ==
    ASSUME NEW q, NEW f, QueueInv(q, f), NEW p \in Users, Queue!Fill(p)
    PROVE  QueueInv(q, f)'
<1>1. PICK m, v : m = msg[p] /\ v = arg[p]
  OBVIOUS
<1>2. /\ Queue!At(p, "fill") /\ next' = [next EXCEPT ![m] = Null]
      /\ data' = [data EXCEPT ![m] = v] /\ pc' = [pc EXCEPT ![p] = "link"]
      /\ UNCHANGED <<head, tail, free, entry, suspended, timed, result,
                     arg, mode, msg, buf, stage, again>>
  BY <1>1 DEF Queue!Fill, Queue!Goto, Queue!lists, Queue!waits, Queue!deletion
<1>3. /\ pc[p] = "fill" /\ p \notin Range(suspended) /\ p \notin Roused /\ AtHand(p)
      /\ \A u \in Users \ {p} : msg[u] # Null => msg[u] # m
  BY <1>1, <1>2, AtLemma
<1>4. /\ NodeInv(q, f) /\ CallInv /\ LineInv /\ m # Null /\ v # None
      /\ "link" \in Labels \ {"waits"}
  BY <1>1, <1>3 DEF QueueInv, AtHand, Labels
<1>5. m \in Slots /\ m \notin Range(q) /\ m \notin Range(f) /\ v \in Values
  BY <1>1, <1>4 DEF NodeInv, CallInv, Placed, SlotOrNull
<1>6. /\ next' \in [Slots -> SlotOrNull] /\ data' \in [Slots -> Values \union {None}]
      /\ next'[m] = Null /\ data'[m] = v
      /\ \A n \in Slots \ {m} : next'[n] = next[n] /\ data'[n] = data[n]
  BY <1>2, <1>4, <1>5 DEF NodeInv, SlotOrNull
<1>7. NodeInv(q, f)'
  <2>1. Linked(next', q, head) /\ Linked(next', f, free)
    <3>1. \A n \in Range(q) \union Range(f) : next'[n] = next[n]
      BY <1>5, <1>6, QueueTypes
    <3> QED BY <1>4, <3>1, LinkedSame DEF NodeInv
  <2>2. \A n \in Range(q) : data'[n] \in Values
    BY <1>4, <1>5, <1>6, QueueTypes DEF NodeInv
  <2> QED BY <1>2, <1>4, <1>6, <2>1, <2>2 DEF NodeInv
<1>8. CallInv'
  <2>1. \A u \in Users \ {p} : msg[u] # Null => msg[u] \in Slots \ {m}
    BY <1>3, <1>4 DEF CallInv, SlotOrNull
  <2>2. pc'[p] = "link" /\ msg'[p] = m /\ arg'[p] = v
    BY <1>1, <1>2, <1>4 DEF CallInv
  <2>3. AtHand(p)'
    BY <1>2, <1>3, <1>6, <2>2 DEF AtHand
  <2>4. /\ arg' \in [Users -> Values \union {None}] /\ buf' \in [Users -> Values \union {None}]
        /\ msg' \in [Users -> SlotOrNull]
    BY <1>2, <1>4 DEF CallInv
  <2> QED BY <1>2, <1>4, <1>6, <2>1, <2>3, <2>4, CallMoved
<1>9. LineInv' /\ Roused' = Roused \ {p}
  BY <1>2, <1>3, <1>4, LinePassed DEF LineInv
<1>10. Served'
  BY <1>2, <1>3, <1>9, QueueTypes, ServedSame DEF QueueInv
<1> QED BY <1>7, <1>8, <1>9, <1>10 DEF QueueInv

\* The first waiter is woken while p, which does not wait, moves on.
LEMMA LineWoken ==
    ASSUME LineInv, CallInv, Served, NEW p \in Users, p \notin Range(suspended),
           p \notin Roused, NEW l \in Labels \ {"waits"}, pc' = [pc EXCEPT ![p] = l],
           Queue!WakeFirst, UNCHANGED <<again, stage, mode>>,
           entry \in Nat, entry' = entry + 1
    PROVE  LineInv' /\ Served'
<1>1. \A u \in Users : pc'[u] = IF u = p THEN l ELSE pc[u]
  BY DEF CallInv
<1>2. CASE suspended = <<>>
  <2>1. UNCHANGED <<suspended, timed, result>>
    BY <1>2 DEF Queue!WakeFirst
  <2>2. LineInv'
    BY <2>1, LinePassed DEF LineInv
  <2> QED BY <1>2, <2>1, <2>2 DEF Served
<1>3. CASE suspended # <<>>
  <2>1. PICK t, r : t = Head(suspended) /\ r = Tail(suspended)
    OBVIOUS
  <2>2. suspended' = r /\ timed' = timed \ {t} /\ result' = result
    BY <1>3, <2>1 DEF Queue!WakeFirst
  <2>3. /\ Row(r, Peers) /\ Range(r) = Range(suspended) \ {t} /\ t \in Range(suspended)
        /\ Range(suspended) \subseteq Peers
    BY <1>3, <2>1, TailRow DEF LineInv
  <2>4. LineInv'
    <3>1. \A u \in Range(r) : pc'[u] = "waits" /\ result'[u] = "ok"
      BY <1>1, <2>2, <2>3 DEF LineInv, Users
    <3>2. Swept'
      BY <2>2, <2>3 DEF LineInv, Swept
    <3> QED BY <2>2, <2>3, <3>1, <3>2 DEF LineInv
  <2>5. Roused' = Roused \union {t} /\ t \notin Roused
    <3>1. t \in Peers /\ pc[t] = "waits" /\ result[t] = "ok" /\ t # p
      BY <2>3 DEF LineInv
    <3>2. \A u \in Peers : u \in Users
      BY DEF Users
    <3> QED BY <1>1, <2>2, <2>3, <3>1, <3>2 DEF Roused
  <2>6. Cardinality(Roused') = Cardinality(Roused) + 1
    BY <2>5, RousedFinite, FS_AddElement
  <2>7. Served'
    BY <1>3, <2>6, RousedFinite DEF Served
  <2> QED BY <2>4, <2>7
<1> QED BY <1>2, <1>3

\* The sender's node, which comes to the queue.
LEMMA SentNode ==
    ASSUME NEW q, NEW f, QueueInv(q, f), NEW p \in Users, Queue!At(p, "link"),
           Queue!Sent(p), UNCHANGED <<data, buf>>,
           \A n \in Slots : (\E u \in Users \ {p} : msg[u] = n) => next'[n] = next[n]
    PROVE  /\ msg[p] \in Slots \ (Range(q) \union Range(f))
           /\ Placed(Range(q) \union {msg[p]}, Range(f), msg')
           /\ next[msg[p]] = Null /\ data[msg[p]] = arg[p] /\ arg[p] \in Values
           /\ CallInv'
           /\ p \notin Range(suspended) /\ p \notin Roused
<1>1. pc[p] = "link" /\ p \notin Range(suspended) /\ p \notin Roused /\ AtHand(p)
  BY AtLemma
<1>2. /\ Placed(Range(q), Range(f), msg) /\ CallInv /\ msg[p] # Null /\ arg[p] # None
      /\ "idle" \in Labels \ {"waits"}
  BY <1>1 DEF QueueInv, NodeInv, AtHand, Labels
<1>3. /\ msg' = [msg EXCEPT ![p] = Null] /\ arg' = [arg EXCEPT ![p] = None]
      /\ pc' = [pc EXCEPT ![p] = "idle"]
  BY DEF Queue!Sent, Queue!Goto
<1>4. msg \in [Users -> SlotOrNull] /\ arg[p] \in Values
  BY <1>2 DEF CallInv
<1>5. /\ Placed(Range(q) \union {msg[p]}, Range(f), msg')
      /\ msg[p] \in Slots \ (Range(q) \union Range(f))
  BY <1>2, <1>3, <1>4, PlacedGiven
<1>6. CallInv'
  <2>1. /\ msg' \in [Users -> SlotOrNull] /\ arg' \in [Users -> Values \union {None}]
        /\ buf' \in [Users -> Values \union {None}]
        /\ \A u \in Users \ {p} : msg'[u] = msg[u] /\ arg'[u] = arg[u]
    BY <1>2, <1>3 DEF CallInv, SlotOrNull
  <2>2. pc'[p] = "idle" /\ msg'[p] = Null /\ arg'[p] = None /\ buf'[p] = buf[p]
    BY <1>2, <1>3 DEF CallInv
  <2>3. AtHand(p)'
    BY <1>1, <2>2 DEF AtHand
  <2>4. \A u \in Users \ {p} : msg[u] # Null => next'[msg[u]] = next[msg[u]]
    BY <1>4 DEF SlotOrNull
  <2> QED BY <1>2, <1>3, <2>1, <2>3, <2>4, CallMoved
<1> QED BY <1>1, <1>4, <1>5, <1>6 DEF AtHand

LEMMA QLinkLast ==
    ASSUME NEW q, NEW f, QueueInv(q, f), NEW p \in Users, Queue!LinkLast(p),
           NEW g, g = Append(q, msg[p])
    PROVE  QueueInv(g, f)'
<1>1. PICK m : m = msg[p] /\ g = Append(q, m)
  OBVIOUS
<1>2. /\ Queue!At(p, "link") /\ Queue!Sent(p) /\ Queue!WakeFirst
      /\ next' = (IF tail # Null THEN [next EXCEPT ![tail] = m] ELSE next) /\ tail' = m
      /\ head' = (IF head = Null THEN m ELSE head) /\ entry' = entry + 1
      /\ UNCHANGED <<data, free, mode, buf, stage, again>>
  BY <1>1 DEF Queue!LinkLast, Queue!deletion
<1>3. /\ NodeInv(q, f) /\ CallInv /\ LineInv /\ Served
      /\ Row(q, Slots) /\ entry \in Nat /\ Range(q) \subseteq Slots /\ Range(f) \subseteq Slots
      /\ ((q = <<>>) <=> (head = Null))
  BY QueueTypes DEF QueueInv
<1>4. /\ q # <<>> => tail = q[Len(q)] /\ tail \in Range(q) /\ tail \in Slots /\ tail # Null
      /\ q = <<>> => tail = Null
  <2>1. q # <<>> => q[Len(q)] \in Range(q)
    BY <1>3 DEF Row, Range
  <2> QED BY <1>3, <2>1, QueueConstants DEF NodeInv
<1>5. /\ next' \in [Slots -> SlotOrNull] /\ (q # <<>> => next'[tail] = m)
      /\ \A n \in Slots : (q = <<>> \/ n # tail) => next'[n] = next[n]
  <2>1. m \in SlotOrNull
    BY <1>1, <1>3 DEF CallInv
  <2> QED BY <1>2, <1>3, <1>4, <2>1 DEF NodeInv
<1>6. \A n \in Slots : (\E u \in Users \ {p} : msg[u] = n) => next'[n] = next[n]
  <2>1. \A u \in Users : msg[u] # Null => msg[u] \notin Range(q)
    BY <1>3 DEF NodeInv, Placed
  <2>2. \A n \in Slots : n # Null
    BY QueueConstants
  <2> QED BY <1>4, <1>5, <2>1, <2>2
<1>7. /\ m \in Slots \ (Range(q) \union Range(f))
      /\ Placed(Range(q) \union {m}, Range(f), msg')
      /\ next[m] = Null /\ data[m] \in Values
      /\ CallInv' /\ p \notin Range(suspended) /\ p \notin Roused
  BY <1>1, <1>2, <1>6, SentNode
<1>8. Row(g, Slots) /\ Range(g) = Range(q) \union {m} /\ g # <<>> /\ Len(g) = Len(q) + 1
  BY <1>1, <1>3, <1>7, AppendRow
<1>9. Linked(next', g, head')
  <2>1. Linked(next, q, head)
    BY <1>3 DEF NodeInv
  <2>2. m # tail \/ q = <<>>
    BY <1>4, <1>7
  <2>3. next'[m] = Null
    BY <1>5, <1>7, <2>2
  <2>4. q # <<>> => next'[q[Len(q)]] = m
    BY <1>4, <1>5
  <2>5. \A n \in Range(q) : (q = <<>> \/ n # q[Len(q)]) => next'[n] = next[n]
    BY <1>3, <1>4, <1>5
  <2>6. m \in Slots /\ m \notin Range(q)
    BY <1>7
  <2>7. Linked(next', Append(q, m), IF q = <<>> THEN m ELSE head)
    BY <2>1, <2>3, <2>4, <2>5, <2>6, LinkedAppend
  <2> QED BY <1>1, <1>2, <1>3, <2>7
<1>10. Linked(next', f, free')
  <2>1. \A n \in Range(f) : next'[n] = next[n]
    BY <1>3, <1>4, <1>5 DEF NodeInv, Placed
  <2> QED BY <1>2, <1>3, <2>1, LinkedSame DEF NodeInv
<1>11. entry' = Len(g) /\ tail' = IF g = <<>> THEN Null ELSE g[Len(g)]
  <2>1. Len(q) \in Nat /\ entry = Len(q) /\ g[Len(q) + 1] = m
    BY <1>1, <1>3, <1>7 DEF NodeInv, Row
  <2> QED BY <1>2, <1>8, <2>1
<1>12. NodeInv(g, f)'
  <2>1. data' = data /\ data \in [Slots -> Values \union {None}]
    BY <1>2, <1>3 DEF NodeInv
  <2>2. \A n \in Range(g) : data[n] \in Values
    BY <1>3, <1>7, <1>8 DEF NodeInv
  <2> QED BY <1>5, <1>7, <1>8, <1>9, <1>10, <1>11, <2>1, <2>2 DEF NodeInv
<1>13. LineInv' /\ Served'
  <2>1. "idle" \in Labels \ {"waits"} /\ pc' = [pc EXCEPT ![p] = "idle"]
    BY <1>2 DEF Labels, Queue!Sent, Queue!Goto
  <2> QED BY <1>2, <1>3, <1>7, <2>1, LineWoken
<1> QED BY <1>7, <1>12, <1>13 DEF QueueInv

LEMMA QLinkFirst ==
    ASSUME NEW q, NEW f, QueueInv(q, f), NEW p \in Users, Queue!LinkFirst(p),
           NEW g, g = <<msg[p]>> \o q
    PROVE  QueueInv(g, f)'
<1>1. PICK m : m = msg[p] /\ g = <<m>> \o q
  OBVIOUS
<1>2. /\ Queue!At(p, "link") /\ Queue!Sent(p) /\ Queue!WakeFirst
      /\ next' = [next EXCEPT ![m] = head] /\ head' = m
      /\ tail' = (IF tail = Null THEN m ELSE tail) /\ entry' = entry + 1
      /\ UNCHANGED <<data, free, mode, buf, stage, again>>
  BY <1>1 DEF Queue!LinkFirst, Queue!deletion
<1>3. /\ NodeInv(q, f) /\ CallInv /\ LineInv /\ Served
      /\ Row(q, Slots) /\ entry \in Nat /\ Range(q) \subseteq Slots /\ Range(f) \subseteq Slots
      /\ head \in SlotOrNull
  <2>1. head \in SlotOrNull
    BY DEF QueueInv, NodeInv, Linked, Row, SlotOrNull
  <2> QED BY <2>1, QueueTypes DEF QueueInv
<1>4. \A n \in Slots : (\E u \in Users \ {p} : msg[u] = n) => next'[n] = next[n]
  <2>1. \A u \in Users \ {p} : msg[u] # Null => msg[u] # m
    BY <1>1, <1>3 DEF NodeInv, Placed
  <2>2. \A n \in Slots : n # Null
    BY QueueConstants
  <2> QED BY <1>2, <1>3, <2>1, <2>2 DEF NodeInv
<1>5. /\ m \in Slots \ (Range(q) \union Range(f))
      /\ Placed(Range(q) \union {m}, Range(f), msg')
      /\ data[m] \in Values
      /\ CallInv' /\ p \notin Range(suspended) /\ p \notin Roused
  BY <1>1, <1>2, <1>4, SentNode
<1>6. /\ next' \in [Slots -> SlotOrNull] /\ next'[m] = head
      /\ \A n \in Slots \ {m} : next'[n] = next[n]
  BY <1>2, <1>3, <1>5 DEF NodeInv
<1>7. /\ Row(g, Slots) /\ Range(g) = Range(q) \union {m} /\ g # <<>> /\ Len(g) = Len(q) + 1
      /\ Len(q) \in Nat
  BY <1>1, <1>3, <1>5, PrependRow
<1>8. Linked(next', g, head')
  <2>1. Linked(next, q, head)
    BY <1>3 DEF NodeInv
  <2>2. \A k \in Range(q) : next'[k] = next[k]
    BY <1>3, <1>5, <1>6
  <2>3. Linked(next', g, m)
    BY <1>1, <1>5, <1>6, <2>1, <2>2, LinkedPush
  <2> QED BY <1>2, <2>3
<1>9. Linked(next', f, free')
  <2>1. \A n \in Range(f) : next'[n] = next[n]
    BY <1>3, <1>5, <1>6
  <2> QED BY <1>2, <1>3, <2>1, LinkedSame DEF NodeInv
<1>10. entry' = Len(g) /\ tail' = IF g = <<>> THEN Null ELSE g[Len(g)]
  <2>1. entry = Len(q) /\ tail = IF q = <<>> THEN Null ELSE q[Len(q)]
    BY <1>3 DEF NodeInv
  <2>2. CASE q = <<>>
    <3>1. Len(q) = 0 /\ g[1] = m
      BY <1>1, <2>2
    <3> QED BY <1>2, <1>7, <2>1, <2>2, <3>1
  <2>3. CASE q # <<>>
    <3>1. Len(q) \in 1..Len(q) /\ q \in Seq(Slots)
      BY <1>3, <1>7, <2>3 DEF Row
    <3>2. g[Len(q) + 1] = q[Len(q)]
      BY <1>1, <1>5, <3>1
    <3>3. q[Len(q)] # Null
      BY <3>1, QueueConstants
    <3> QED BY <1>2, <1>7, <2>1, <2>3, <3>2, <3>3
  <2> QED BY <2>2, <2>3
<1>11. NodeInv(g, f)'
  <2>1. data' = data /\ data \in [Slots -> Values \union {None}]
    BY <1>2, <1>3 DEF NodeInv
  <2>2. \A n \in Range(g) : data[n] \in Values
    BY <1>3, <1>5, <1>7 DEF NodeInv
  <2> QED BY <1>5, <1>6, <1>7, <1>8, <1>9, <1>10, <2>1, <2>2 DEF NodeInv
<1>12. LineInv' /\ Served'
  <2>1. "idle" \in Labels \ {"waits"} /\ pc' = [pc EXCEPT ![p] = "idle"]
    BY <1>2 DEF Labels, Queue!Sent, Queue!Goto
  <2> QED BY <1>2, <1>3, <1>5, <2>1, LineWoken
<1> QED BY <1>5, <1>11, <1>12 DEF QueueInv

LEMMA QRecvEmpty ==
    ASSUME NEW q, NEW f, QueueInv(q, f), NEW p \in Users, Queue!RecvEmpty(p)
    PROVE  QueueInv(q, f)'
<1>1. /\ Queue!At(p, "waits") /\ pc' = [pc EXCEPT ![p] = "idle"] /\ entry = 0
      /\ mode' = [t \in Peers |-> IF t = p THEN "no" ELSE mode[t]]
      /\ UNCHANGED <<next, data, head, tail, free, entry, suspended, timed, result,
                     arg, msg, buf, stage, again>>
  BY DEF Queue!RecvEmpty, Queue!Goto, Queue!lists, Queue!waits, Queue!deletion, Queue!Looks,
         Queue!At, Queue!Done
<1>2. pc[p] = "waits" /\ p \notin Range(suspended) /\ AtHand(p)
  BY <1>1, AtLemma
<1>3. NodeInv(q, f)' /\ CallInv /\ LineInv /\ "idle" \in Labels \ {"waits"}
  BY <1>1 DEF QueueInv, NodeInv, Labels
<1>4. CallInv'
  <2>1. /\ arg' \in [Users -> Values \union {None}] /\ msg' \in [Users -> SlotOrNull]
        /\ buf' \in [Users -> Values \union {None}]
    BY <1>1, <1>3 DEF CallInv
  <2>2. pc'[p] = "idle"
    BY <1>1, <1>3 DEF CallInv
  <2>3. AtHand(p)'
    BY <1>1, <1>2, <2>2 DEF AtHand
  <2> QED BY <1>1, <1>3, <2>1, <2>3, CallMoved
<1>5. mode' \in [Peers -> {"no", "timed", "forever"}]
  BY <1>1, <1>3 DEF LineInv
<1>6. LineInv' /\ Roused' = Roused \ {p}
  BY <1>1, <1>2, <1>3, <1>5, LinePassed DEF LineInv
<1>7. Served'
  BY <1>1, <1>2, <1>6, QueueTypes, ServedSame DEF QueueInv
<1> QED BY <1>3, <1>4, <1>6, <1>7 DEF QueueInv

LEMMA QRecvFails ==
    ASSUME NEW q, NEW f, QueueInv(q, f), NEW p \in Users, Queue!RecvFails(p)
    PROVE  QueueInv(q, f)'
<1>1. /\ Queue!At(p, "waits") /\ p # Isr /\ result[p] # "ok"
      /\ pc' = [pc EXCEPT ![p] = "idle"]
      /\ mode' = [t \in Peers |-> IF t = p THEN "no" ELSE mode[t]]
      /\ result' = [result EXCEPT ![p] = "ok"]
      /\ UNCHANGED <<next, data, head, tail, free, entry, suspended, timed,
                     arg, msg, buf, stage, again>>
  BY DEF Queue!RecvFails, Queue!Goto, Queue!lists, Queue!deletion, Queue!Done
<1>2. pc[p] = "waits" /\ p \notin Range(suspended) /\ AtHand(p)
  BY <1>1, AtLemma
<1>3. NodeInv(q, f)' /\ CallInv /\ LineInv /\ "idle" \in Labels \ {"waits"}
  BY <1>1 DEF QueueInv, NodeInv, Labels
<1>4. CallInv'
  <2>1. /\ arg' \in [Users -> Values \union {None}] /\ msg' \in [Users -> SlotOrNull]
        /\ buf' \in [Users -> Values \union {None}]
    BY <1>1, <1>3 DEF CallInv
  <2>2. pc'[p] = "idle"
    BY <1>1, <1>3 DEF CallInv
  <2>3. AtHand(p)'
    BY <1>1, <1>2, <2>2 DEF AtHand
  <2> QED BY <1>1, <1>3, <2>1, <2>3, CallMoved
<1>5. /\ mode' \in [Peers -> {"no", "timed", "forever"}]
      /\ result' \in [Peers -> {"ok", "timeout", "error"}]
      /\ \A t \in Peers \ {p} : result'[t] = result[t]
  BY <1>1, <1>3 DEF LineInv
<1>6. LineInv' /\ Roused' = Roused \ {p}
  BY <1>1, <1>2, <1>3, <1>5, LinePassed
<1>7. p \notin Roused
  BY <1>1 DEF Roused
<1>8. Served'
  BY <1>1, <1>6, <1>7, QueueTypes, ServedSame DEF QueueInv
<1> QED BY <1>3, <1>4, <1>6, <1>8 DEF QueueInv

\* p looks: it is not suspended, has no node, and is there to receive.
LEMMA LooksLemma ==
    ASSUME NEW q, NEW f, QueueInv(q, f), NEW p \in Users, NEW m, Queue!Looks(p, m)
    PROVE  /\ p \notin Range(suspended) /\ AtHand(p) /\ msg[p] = Null /\ buf[p] = None
           /\ arg[p] = None /\ pc[p] \in {"idle", "waits"}
           /\ m \in {"no", "timed", "forever"} /\ (m # "no" => p \in Peers)
           /\ (pc[p] = "waits" => p \in Peers)
<1>1. Queue!Runs(p) /\ pc[p] \in {"idle", "waits"} /\ AtHand(p) /\ pc[Isr] # "waits"
  BY DEF Queue!Looks, QueueInv, CallInv
<1>2. p \notin Range(suspended)
  BY <1>1, Awake DEF QueueInv
<1>3. msg[p] = Null /\ buf[p] = None /\ arg[p] = None
  BY <1>1 DEF AtHand
<1>4. pc[p] = "waits" => p \in Peers
  BY <1>1 DEF Users
<1>5. m \in {"no", "timed", "forever"} /\ (m # "no" => p \in Peers)
  <2>1. CASE pc[p] = "idle"
    BY <2>1 DEF Queue!Looks, Queue!Waits, Users
  <2>2. CASE pc[p] = "waits"
    <3>1. mode[p] \in {"no", "timed", "forever"}
      BY <1>4, <2>2 DEF QueueInv, LineInv
    <3> QED BY <1>4, <2>2, <3>1 DEF Queue!Looks, Queue!Left
  <2> QED BY <1>1, <2>1, <2>2
<1> QED BY <1>1, <1>2, <1>3, <1>4, <1>5

LEMMA QRecvWait ==
    ASSUME NEW q, NEW f, QueueInv(q, f), NEW p \in Users, NEW m, Queue!RecvWait(p, m)
    PROVE  QueueInv(q, f)'
<1>1. /\ Queue!Looks(p, m) /\ entry = 0 /\ m # "no"
      /\ suspended' = Append(suspended, p)
      /\ timed' = (IF m = "timed" THEN timed \union {p} ELSE timed)
      /\ result' = [result EXCEPT ![p] = "ok"]
      /\ mode' = [mode EXCEPT ![p] = m]
      /\ again' = (IF stage = "live" THEN again ELSE again \union {p})
      /\ pc' = [pc EXCEPT ![p] = "waits"]
      /\ UNCHANGED <<next, data, head, tail, free, entry, arg, msg, buf, stage>>
  BY DEF Queue!RecvWait, Queue!Goto, Queue!lists
<1>2. /\ p \notin Range(suspended) /\ AtHand(p) /\ p \in Peers
      /\ m \in {"no", "timed", "forever"} /\ pc[p] \in {"idle", "waits"}
  BY <1>1, LooksLemma
<1>3. NodeInv(q, f)' /\ CallInv /\ LineInv
  BY <1>1 DEF QueueInv, NodeInv
<1>4. /\ pc' \in [Users -> Labels] /\ pc'[p] = "waits"
      /\ \A u \in Users \ {p} : pc'[u] = pc[u]
  <2>1. pc \in [Users -> Labels] /\ "waits" \in Labels
    BY <1>3 DEF CallInv, Labels
  <2> QED BY <1>1, <2>1
<1>5. CallInv'
  <2>1. pc'[Isr] # "waits"
    BY <1>2, <1>3, <1>4, QueueConstants DEF CallInv, Users
  <2>2. AtHand(p)'
    BY <1>1, <1>2, <1>4 DEF AtHand
  <2>3. ASSUME NEW u \in Users \ {p} PROVE AtHand(u)'
    BY <1>1, <1>3, <1>4 DEF CallInv, AtHand
  <2> QED BY <1>1, <1>3, <1>4, <2>1, <2>2, <2>3 DEF CallInv
<1>6. Row(suspended', Peers) /\ Range(suspended') = Range(suspended) \union {p}
  BY <1>1, <1>2, <1>3, AppendRow DEF LineInv
<1>7. LineInv'
  <2>1. timed' \in SUBSET Range(suspended')
    BY <1>1, <1>3, <1>6 DEF LineInv
  <2>2. /\ result' \in [Peers -> {"ok", "timeout", "error"}] /\ result'[p] = "ok"
        /\ \A t \in Peers \ {p} : result'[t] = result[t]
    BY <1>1, <1>2, <1>3 DEF LineInv
  <2>3. mode' \in [Peers -> {"no", "timed", "forever"}] /\ again' \in SUBSET Peers
    BY <1>1, <1>2, <1>3 DEF LineInv
  <2>4. Range(suspended) \subseteq Peers
    BY <1>3 DEF LineInv, Row, Range
  <2>5. \A t \in Range(suspended') : pc'[t] = "waits" /\ result'[t] = "ok"
    BY <1>3, <1>4, <1>6, <2>2, <2>4 DEF LineInv, Users
  <2>6. Swept'
    BY <1>1, <1>3, <1>6 DEF LineInv, Swept
  <2> QED BY <1>1, <1>3, <1>6, <2>1, <2>2, <2>3, <2>5, <2>6 DEF LineInv
<1>8. Served'
  <2>1. Roused' \in SUBSET Peers
    BY DEF Roused
  <2>2. Cardinality(Roused') \in Nat
    BY <2>1, QueueConstants, FS_Subset, FS_CardinalityType
  <2> QED BY <1>1, <2>2 DEF Served
<1> QED BY <1>3, <1>5, <1>7, <1>8 DEF QueueInv

LEMMA QUnlink ==
    ASSUME NEW q, NEW f, QueueInv(q, f), NEW p \in Users, NEW w, Queue!Unlink(p, w),
           NEW g, g = Tail(q)
    PROVE  QueueInv(g, f)'
<1>1. PICK m : m = head
  OBVIOUS
<1>2. /\ Queue!Looks(p, w) /\ entry # 0 /\ msg' = [msg EXCEPT ![p] = m] /\ head' = next[m]
      /\ tail' = (IF tail = m THEN Null ELSE tail) /\ entry' = entry - 1
      /\ pc' = [pc EXCEPT ![p] = "copy"]
      /\ mode' = [t \in Peers |-> IF t = p THEN "no" ELSE mode[t]]
      /\ UNCHANGED <<next, data, free, suspended, timed, result, arg, buf, stage, again>>
  BY <1>1 DEF Queue!Unlink, Queue!Goto, Queue!waits, Queue!deletion, Queue!Done
<1>3. p \notin Range(suspended) /\ AtHand(p) /\ pc[p] \in {"idle", "waits"} /\ msg[p] = Null
  BY <1>2, LooksLemma
<1>4. /\ Linked(next, q, m) /\ Placed(Range(q), Range(f), msg) /\ m # Null
      /\ CallInv /\ LineInv /\ Row(q, Slots) /\ entry \in Nat
  BY <1>1, <1>2, QueueTypes DEF QueueInv, NodeInv
<1>5. /\ Linked(next, g, next[m]) /\ Range(g) = Range(q) \ {m} /\ m \in Range(q)
      /\ m \in Slots /\ q # <<>> /\ m = Head(q) /\ Len(g) = Len(q) - 1 /\ Len(q) \in Nat
  BY <1>4, LinkedTail
<1>6. entry' = Len(g) /\ tail' = IF g = <<>> THEN Null ELSE g[Len(g)]
  <2>1. entry = Len(q) /\ tail = q[Len(q)]
    BY <1>5 DEF QueueInv, NodeInv
  <2>2. q \in Seq(Slots) /\ m = q[1] /\ \A i, j \in 1..Len(q) : q[i] = q[j] => i = j
    BY <1>4, <1>5 DEF Row
  <2>3. Len(q) \in 1..Len(q) /\ 1 \in 1..Len(q)
    BY <1>5, <2>2
  <2>4. (tail = m) <=> (Len(q) = 1)
    BY <2>1, <2>2, <2>3
  <2>5. (g = <<>>) <=> (Len(q) = 1)
    BY <1>5, <2>2
  <2>6. g # <<>> => g[Len(g)] = q[Len(q)]
    BY <1>5, <2>2
  <2> QED BY <1>2, <1>5, <2>1, <2>4, <2>5, <2>6
<1>7. NodeInv(g, f)'
  <2>1. Placed(Range(g), Range(f), msg')
    <3>1. msg \in [Users -> SlotOrNull] /\ m \in Range(q) \union Range(f)
      BY <1>4, <1>5 DEF CallInv
    <3>2. Placed(Range(q) \ {m}, Range(f) \ {m}, msg')
      BY <1>2, <1>3, <1>4, <3>1, PlacedTaken
    <3>3. Range(f) \ {m} = Range(f)
      BY <1>4, <1>5 DEF Placed
    <3> QED BY <1>5, <3>2, <3>3
  <2> QED BY <1>2, <1>5, <1>6, <2>1 DEF QueueInv, NodeInv
<1>8. "copy" \in Labels \ {"waits"}
  BY DEF Labels
<1>9. CallInv'
  <2>1. msg' \in [Users -> SlotOrNull] /\ \A u \in Users \ {p} : msg'[u] = msg[u]
    BY <1>2, <1>4, <1>5 DEF CallInv, SlotOrNull
  <2>2. pc'[p] = "copy" /\ msg'[p] = m /\ data[m] \in Values
    BY <1>2, <1>4, <1>5 DEF CallInv, QueueInv, NodeInv
  <2>3. AtHand(p)'
    BY <1>2, <1>3, <1>4, <2>2 DEF AtHand
  <2>4. arg' \in [Users -> Values \union {None}] /\ buf' \in [Users -> Values \union {None}]
    BY <1>2, <1>4 DEF CallInv
  <2> QED BY <1>2, <1>4, <1>8, <2>1, <2>3, <2>4, CallMoved
<1>10. mode' \in [Peers -> {"no", "timed", "forever"}]
  BY <1>2, <1>4 DEF LineInv
<1>11. LineInv' /\ Roused' = Roused \ {p}
  BY <1>2, <1>3, <1>4, <1>8, <1>10, LinePassed DEF LineInv
<1>12. Served'
  <2>1. entry' \in Nat /\ entry' = entry - 1
    BY <1>2, <1>4
  <2> QED BY <1>2, <1>4, <1>11, <2>1, ServedSame DEF QueueInv
<1> QED BY <1>7, <1>9, <1>11, <1>12 DEF QueueInv

LEMMA QCopy ==
    ASSUME NEW q, NEW f, QueueInv(q, f), NEW p \in Users, Queue!Copy(p)
    PROVE  QueueInv(q, f)'
<1>1. /\ Queue!At(p, "copy") /\ buf' = [buf EXCEPT ![p] = data[msg[p]]]
      /\ pc' = [pc EXCEPT ![p] = "put"]
      /\ UNCHANGED <<next, data, head, tail, free, entry, suspended, timed, result,
                     arg, mode, msg, stage, again>>
  BY DEF Queue!Copy, Queue!Goto, Queue!lists, Queue!waits, Queue!deletion
<1>2. pc[p] = "copy" /\ p \notin Range(suspended) /\ p \notin Roused /\ AtHand(p)
  BY <1>1, AtLemma
<1>3. NodeInv(q, f)' /\ CallInv /\ LineInv /\ "put" \in Labels \ {"waits"}
  BY <1>1 DEF QueueInv, NodeInv, Labels
<1>4. CallInv'
  <2>1. data[msg[p]] \in Values
    BY <1>2 DEF AtHand
  <2>2. /\ buf' \in [Users -> Values \union {None}] /\ \A u \in Users \ {p} : buf'[u] = buf[u]
        /\ buf'[p] = data[msg[p]]
    BY <1>1, <1>3, <2>1 DEF CallInv
  <2>3. pc'[p] = "put"
    BY <1>1, <1>3 DEF CallInv
  <2>4. AtHand(p)'
    BY <1>1, <1>2, <2>1, <2>2, <2>3, QueueConstants DEF AtHand
  <2>5. msg' \in [Users -> SlotOrNull] /\ arg' \in [Users -> Values \union {None}]
    BY <1>1, <1>3 DEF CallInv
  <2> QED BY <1>1, <1>3, <2>2, <2>4, <2>5, CallMoved
<1>5. LineInv' /\ Roused' = Roused \ {p}
  BY <1>1, <1>2, <1>3, LinePassed DEF LineInv
<1>6. Served'
  BY <1>1, <1>2, <1>5, QueueTypes, ServedSame DEF QueueInv
<1> QED BY <1>3, <1>4, <1>5, <1>6 DEF QueueInv

LEMMA QPutBack ==
    ASSUME NEW q, NEW f, QueueInv(q, f), NEW p \in Users, Queue!PutBack(p),
           NEW g, g = <<msg[p]>> \o f
    PROVE  QueueInv(q, g)'
<1>1. PICK m : m = msg[p]
  OBVIOUS
<1>2. /\ Queue!At(p, "put") /\ next' = [next EXCEPT ![m] = free] /\ free' = m
      /\ msg' = [msg EXCEPT ![p] = Null] /\ buf' = [buf EXCEPT ![p] = None]
      /\ pc' = [pc EXCEPT ![p] = "idle"]
      /\ UNCHANGED <<data, head, tail, entry, suspended, timed, result,
                     arg, mode, stage, again>>
  BY <1>1 DEF Queue!PutBack, Queue!Goto, Queue!waits, Queue!deletion
<1>3. /\ pc[p] = "put" /\ p \notin Range(suspended) /\ p \notin Roused /\ AtHand(p)
      /\ \A u \in Users \ {p} : msg[u] # Null => msg[u] # m
  BY <1>1, <1>2, AtLemma
<1>4. /\ NodeInv(q, f) /\ CallInv /\ LineInv /\ m # Null /\ "idle" \in Labels \ {"waits"}
      /\ Range(q) \subseteq Slots /\ Range(f) \subseteq Slots /\ Row(f, Slots)
      /\ free \in SlotOrNull
  <2>1. free \in SlotOrNull
    BY DEF QueueInv, NodeInv, Linked, Row, SlotOrNull
  <2> QED BY <1>1, <1>3, <2>1, QueueTypes DEF QueueInv, AtHand, Labels
<1>5. /\ Placed(Range(q), Range(f) \union {m}, msg') /\ m \in Slots
      /\ m \notin Range(q) /\ m \notin Range(f)
  <2>1. Placed(Range(q), Range(f), msg) /\ msg \in [Users -> SlotOrNull] /\ msg[p] # Null
    BY <1>1, <1>4 DEF NodeInv, CallInv
  <2> QED BY <1>1, <1>2, <2>1, PlacedGiven
<1>6. /\ next' \in [Slots -> SlotOrNull] /\ next'[m] = free
      /\ \A n \in Slots \ {m} : next'[n] = next[n]
  BY <1>2, <1>4, <1>5 DEF NodeInv
<1>7. NodeInv(q, g)'
  <2>1. \A n \in Range(q) \union Range(f) : next'[n] = next[n]
    BY <1>4, <1>5, <1>6
  <2>2. Linked(next, q, head) /\ Linked(next, f, free)
    BY <1>4 DEF NodeInv
  <2>3. Linked(next', q, head')
    BY <1>2, <2>1, <2>2, LinkedSame
  <2>4. Linked(next', g, free')
    <3>1. Linked(next', <<m>> \o f, m)
      BY <1>5, <1>6, <2>1, <2>2, LinkedPush
    <3> QED BY <1>1, <1>2, <3>1
  <2>5. Range(g) = Range(f) \union {m}
    BY <1>1, <1>4, <1>5, PrependRow
  <2> QED BY <1>2, <1>4, <1>5, <1>6, <2>3, <2>4, <2>5 DEF NodeInv
<1>8. CallInv'
  <2>1. \A u \in Users \ {p} : msg[u] # Null => msg[u] \in Slots \ {m}
    BY <1>3, <1>4 DEF CallInv, SlotOrNull
  <2>2. /\ msg' \in [Users -> SlotOrNull] /\ buf' \in [Users -> Values \union {None}]
        /\ arg' \in [Users -> Values \union {None}]
        /\ \A u \in Users \ {p} : msg'[u] = msg[u] /\ buf'[u] = buf[u]
    BY <1>2, <1>4 DEF CallInv, SlotOrNull
  <2>3. pc'[p] = "idle" /\ msg'[p] = Null /\ buf'[p] = None
    BY <1>2, <1>4 DEF CallInv
  <2>4. AtHand(p)'
    BY <1>2, <1>3, <2>3 DEF AtHand
  <2> QED BY <1>2, <1>4, <1>6, <2>1, <2>2, <2>4, CallMoved
<1>9. LineInv' /\ Roused' = Roused \ {p}
  BY <1>2, <1>3, <1>4, LinePassed DEF LineInv
<1>10. Served'
  BY <1>2, <1>3, <1>9, QueueTypes, ServedSame DEF QueueInv
<1> QED BY <1>7, <1>8, <1>9, <1>10 DEF QueueInv

LEMMA QTimeout ==
    ASSUME NEW q, NEW f, QueueInv(q, f), NEW t \in Peers, Queue!Timeout(t)
    PROVE  QueueInv(q, f)'
<1>1. PICK r : r = RemoveAt(suspended, CHOOSE i \in DOMAIN suspended : suspended[i] = t)
  OBVIOUS
<1>2. /\ t \in timed /\ timed' = timed \ {t} /\ suspended' = r
      /\ result' = [result EXCEPT ![t] = "timeout"]
      /\ UNCHANGED <<next, data, head, tail, free, entry, pc, arg, mode, msg, buf,
                     stage, again>>
  BY <1>1, SameRemoveAt DEF Queue!Timeout, Queue!Without, Queue!lists, Queue!deletion
<1>3. NodeInv(q, f)' /\ CallInv' /\ LineInv
  BY <1>2 DEF QueueInv, NodeInv, CallInv, AtHand
<1>4. Row(r, Peers) /\ Range(r) = Range(suspended) \ {t} /\ t \in Range(suspended)
  <2>1. t \in Range(suspended) /\ Row(suspended, Peers)
    BY <1>2, <1>3 DEF LineInv
  <2> QED BY <1>1, <2>1, RemovedRow
<1>5. /\ result' \in [Peers -> {"ok", "timeout", "error"}] /\ result'[t] = "timeout"
      /\ \A u \in Peers \ {t} : result'[u] = result[u]
  BY <1>2, <1>3 DEF LineInv
<1>6. LineInv'
  <2>1. Range(suspended) \subseteq Peers
    BY <1>3 DEF LineInv, Row, Range
  <2>2. \A u \in Range(suspended') : pc'[u] = "waits" /\ result'[u] = "ok"
    BY <1>2, <1>3, <1>4, <1>5, <2>1 DEF LineInv
  <2>3. Swept'
    BY <1>2, <1>3, <1>4 DEF LineInv, Swept
  <2> QED BY <1>2, <1>3, <1>4, <1>5, <2>2, <2>3 DEF LineInv
<1>7. Roused' = Roused
  BY <1>2, <1>4, <1>5 DEF Roused
<1>8. Served'
  <2>1. suspended # <<>>
    BY <1>4, EmptyRow
  <2> QED BY <1>2, <1>7, <2>1 DEF QueueInv, Served
<1> QED BY <1>3, <1>6, <1>8 DEF QueueInv

LEMMA QReset ==
    ASSUME NEW q, NEW f, QueueInv(q, f), NEW t \in Peers, Queue!Reset(t)
    PROVE  \E g : QueueInv(<<>>, g)'
<1>1. /\ next \in [Slots -> SlotOrNull] /\ Linked(next, q, head) /\ Linked(next, f, free)
      /\ Placed(Range(q), Range(f), msg) /\ LineInv /\ CallInv
      /\ data \in [Slots -> Values \union {None}]
  BY DEF QueueInv, NodeInv
<1>2. Queue!Chain(head) = q
  BY <1>1, ChainSame, ChainLemma, QueueConstants
<1>3. /\ suspended' = <<>> /\ timed' = {}
      /\ result' = [u \in Peers |-> IF u \in Range(suspended) THEN "error" ELSE result[u]]
      /\ next' = [n \in 1..Size |->
                    IF n \notin Range(q) THEN next[n]
                    ELSE LET i == CHOOSE j \in DOMAIN q : q[j] = n
                         IN  IF i = 1 THEN free ELSE q[i - 1]]
      /\ free' = (IF q = <<>> THEN free ELSE q[Len(q)])
      /\ head' = Null /\ tail' = Null /\ entry' = 0
      /\ UNCHANGED <<data, pc, arg, mode, msg, buf, stage, again>>
  BY <1>2, SameRange DEF Queue!Reset, Queue!Last, Queue!deletion
<1>4. /\ q \in Seq(Slots) /\ Len(q) \in Nat /\ DOMAIN q = 1..Len(q)
      /\ \A i, j \in DOMAIN q : q[i] = q[j] => i = j
      /\ Range(q) \subseteq Slots /\ Range(f) \subseteq Slots /\ Row(q, Slots)
      /\ free \in SlotOrNull
  BY <1>1, QueueTypes DEF Linked, Row, SlotOrNull
<1>5. \A n \in Slots : next'[n] =
         IF n \notin Range(q) THEN next[n]
         ELSE LET i == CHOOSE j \in DOMAIN q : q[j] = n IN IF i = 1 THEN free ELSE q[i - 1]
  BY <1>3 DEF Slots
<1>6. \A i \in 1..Len(q) : /\ q[i] \in Range(q) /\ q[i] \in Slots
                           /\ i = CHOOSE j \in DOMAIN q : q[j] = q[i]
  BY <1>4 DEF Range
<1>7. \A i \in 1..Len(q) : next'[q[i]] = IF i = 1 THEN free ELSE q[i-1]
  BY <1>5, <1>6
<1>8. next' \in [Slots -> SlotOrNull]
  <2>1. \A n \in Slots : next'[n] \in SlotOrNull
    <3> TAKE n \in Slots
    <3>1. CASE n \notin Range(q)
      BY <1>1, <1>5, <3>1
    <3>2. CASE n \in Range(q)
      <4>1. PICK i \in 1..Len(q) : n = q[i]
        BY <1>4, <3>2 DEF Range
      <4>2. i # 1 => i - 1 \in 1..Len(q)
        BY <1>4
      <4>3. i # 1 => q[i-1] \in Slots
        BY <1>6, <4>2
      <4> QED BY <1>4, <1>7, <4>1, <4>3 DEF SlotOrNull
    <3> QED BY <3>1, <3>2
  <2> QED BY <1>3, <2>1 DEF Slots
<1>9. PICK g : /\ Linked(next', g, IF q = <<>> THEN free ELSE q[Len(q)])
               /\ Range(g) = Range(q) \union Range(f)
  <2>1. Linked(next', f, free)
    <3>1. \A n \in Range(f) : next'[n] = next[n]
      BY <1>1, <1>4, <1>5 DEF Placed
    <3> QED BY <1>1, <3>1, LinkedSame
  <2>2. Range(q) \intersect Range(f) = {}
    BY <1>1 DEF Placed
  <2> QED BY <1>4, <1>7, <2>1, <2>2, LinkedReversed
<1>10. NodeInv(<<>>, g)'
  <2>1. Linked(next', <<>>, Null) /\ Range(<<>>) = {}
    BY LinkedNone, EmptyRow
  <2>2. Placed(Range(<<>>), Range(g), msg')
    <3>1. Placed({}, Range(q) \union Range(f), msg)
      BY <1>1, PlacedFreed
    <3>2. msg' = msg
      BY <1>3
    <3> QED BY <1>9, <2>1, <3>1, <3>2
  <2>3. entry' = Len(<<>>)
    BY <1>3
  <2> QED BY <1>1, <1>3, <1>8, <1>9, <2>1, <2>2, <2>3 DEF NodeInv
<1>11. CallInv'
  <2>1. \A u \in Users : msg[u] # Null => msg[u] \in Slots /\ next'[msg[u]] = next[msg[u]]
    BY <1>1, <1>5 DEF CallInv, SlotOrNull, Placed
  <2>2. ASSUME NEW u \in Users PROVE AtHand(u)'
    <3>1. AtHand(u)
      BY <1>1 DEF CallInv
    <3> QED BY <1>3, <2>1, <3>1 DEF AtHand
  <2> QED BY <1>1, <1>3, <2>2 DEF CallInv
<1>12. LineInv'
  <2>1. result' \in [Peers -> {"ok", "timeout", "error"}]
    BY <1>1, <1>3 DEF LineInv
  <2>2. Row(suspended', Peers) /\ Range(suspended') = {}
    BY <1>3, EmptyRow
  <2>3. Swept'
    BY <2>2 DEF Swept
  <2> QED BY <1>1, <1>3, <2>1, <2>2, <2>3 DEF LineInv
<1>13. QueueInv(<<>>, g)'
  BY <1>3, <1>10, <1>11, <1>12 DEF QueueInv, Served
<1> QED BY <1>13

LEMMA QDelete ==
    ASSUME NEW q, NEW f, QueueInv(q, f),
           Queue!DeleteCheck \/ Queue!DeleteTake \/ Queue!Delete
    PROVE  QueueInv(q, f)'
<1>1. /\ UNCHANGED <<next, data, head, tail, free, entry, pc, arg, mode, msg, buf, again>>
  BY DEF Queue!DeleteCheck, Queue!DeleteTake, Queue!Delete, Queue!lists
<1>2. NodeInv(q, f)' /\ CallInv' /\ LineInv /\ Served
  BY <1>1 DEF QueueInv, NodeInv, CallInv, AtHand
<1>3. CASE UNCHANGED <<suspended, timed, result>> /\ stage' \in {"take", "wild"}
  <2>1. LineInv'
    BY <1>1, <1>2, <1>3 DEF LineInv, Swept, Row
  <2> QED BY <1>1, <1>2, <1>3, <2>1 DEF QueueInv, Served, Roused
<1>4. CASE UNCHANGED <<suspended, timed, result>> /\ stage' = "free" /\ suspended = <<>>
  <2>1. Swept'
    BY <1>4, EmptyRow DEF Swept
  <2>2. LineInv'
    BY <1>1, <1>2, <1>4, <2>1 DEF LineInv, Row
  <2> QED BY <1>1, <1>2, <1>4, <2>2 DEF QueueInv, Served, Roused
<1>5. CASE Queue!Delete
  <2>1. /\ stage = "free" /\ stage' = "gone" /\ UNCHANGED <<suspended, timed, result>>
    BY <1>5 DEF Queue!Delete, Queue!waits
  <2>2. LineInv'
    BY <1>1, <1>2, <2>1 DEF LineInv, Swept, Row
  <2> QED BY <1>1, <1>2, <2>1, <2>2 DEF QueueInv, Served, Roused
<1>6. CASE Queue!DeleteTake /\ suspended # <<>>
  <2>1. PICK t, r : t = Head(suspended) /\ r = Tail(suspended)
    OBVIOUS
  <2>2. /\ suspended' = r /\ timed' = timed \ {t}
        /\ result' = [result EXCEPT ![t] = "error"] /\ stage' = "check"
    BY <1>6, <2>1 DEF Queue!DeleteTake
  <2>3. /\ Row(r, Peers) /\ Range(r) = Range(suspended) \ {t} /\ t \in Range(suspended)
        /\ Range(suspended) \subseteq Peers
    BY <1>2, <1>6, <2>1, TailRow DEF LineInv
  <2>4. /\ result' \in [Peers -> {"ok", "timeout", "error"}] /\ result'[t] = "error"
        /\ \A u \in Peers \ {t} : result'[u] = result[u]
    BY <1>2, <2>2, <2>3 DEF LineInv
  <2>5. LineInv'
    <3>1. \A u \in Range(suspended') : pc'[u] = "waits" /\ result'[u] = "ok"
      BY <1>1, <1>2, <2>2, <2>3, <2>4 DEF LineInv
    <3>2. Swept'
      BY <2>2 DEF Swept
    <3> QED BY <1>1, <1>2, <2>2, <2>3, <2>4, <3>1, <3>2 DEF LineInv
  <2>6. Roused' = Roused
    BY <1>1, <2>2, <2>3, <2>4 DEF Roused
  <2>7. Served'
    BY <1>1, <1>2, <1>6, <2>6 DEF Served
  <2> QED BY <1>2, <2>5, <2>7 DEF QueueInv
<1>7. CASE Queue!DeleteTake /\ suspended = <<>>
  BY <1>3, <1>7 DEF Queue!DeleteTake, Queue!waits
<1>8. CASE Queue!DeleteCheck
  BY <1>3, <1>4, <1>8 DEF Queue!DeleteCheck, Queue!waits
<1> QED BY <1>5, <1>6, <1>7, <1>8

LEMMA QStays ==
    ASSUME NEW q, NEW f, QueueInv(q, f), UNCHANGED Queue!vars
    PROVE  QueueInv(q, f)'
<1>1. UNCHANGED <<next, data, head, tail, free, entry, pc, arg, mode, msg, buf, again,
                  suspended, timed, result, stage>>
  BY DEF Queue!vars, Queue!lists, Queue!waits, Queue!deletion
<1>2. NodeInv(q, f)' /\ CallInv' /\ LineInv'
  BY <1>1 DEF QueueInv, NodeInv, CallInv, AtHand, LineInv, Swept, Row
<1> QED BY <1>1, <1>2 DEF QueueInv, Served, Roused

LEMMA QInit ==
    ASSUME Queue!Init
    PROVE  \E f : QueueInv(<<>>, f)
<1>1. PICK o : o = SetToSeq(1..Size)
  OBVIOUS
<1>2. Row(o, Slots) /\ Range(o) = Slots /\ Len(o) = Size
  BY <1>1, QueueConstants, SetToSeqRow DEF Slots
<1>3. /\ next = [n \in 1..Size |-> LET i == CHOOSE j \in DOMAIN o : o[j] = n
                                  IN  IF i = 1 THEN Null ELSE o[i - 1]]
      /\ free = o[Len(o)] /\ data = [n \in 1..Size |-> None]
      /\ head = Null /\ tail = Null /\ entry = 0
      /\ suspended = <<>> /\ timed = {}
      /\ result = [t \in Peers |-> "ok"] /\ mode = [t \in Peers |-> "no"]
      /\ pc = [p \in Users |-> "idle"] /\ arg = [p \in Users |-> None]
      /\ msg = [p \in Users |-> Null] /\ buf = [p \in Users |-> None]
      /\ stage = "live" /\ again = {}
  BY <1>1, SameSetToSeq DEF Queue!Init, Queue!Procs, Users, Queue!Last
<1>4. /\ o \in Seq(Slots) /\ Len(o) \in Nat /\ DOMAIN o = 1..Len(o)
      /\ \A i, j \in DOMAIN o : o[i] = o[j] => i = j
  BY <1>2 DEF Row
<1>5. \A n \in Slots : next[n] = LET i == CHOOSE j \in DOMAIN o : o[j] = n
                                 IN  IF i = 1 THEN Null ELSE o[i - 1]
  BY <1>3 DEF Slots
<1>6. \A i \in 1..Len(o) : o[i] \in Slots /\ i = CHOOSE j \in DOMAIN o : o[j] = o[i]
  BY <1>4
<1>7. \A i \in 1..Len(o) : next[o[i]] = IF i = 1 THEN Null ELSE o[i-1]
  BY <1>5, <1>6
<1>8. next \in [Slots -> SlotOrNull]
  <2>1. \A n \in Slots : next[n] \in SlotOrNull
    <3> TAKE n \in Slots
    <3>1. PICK i \in 1..Len(o) : n = o[i]
      BY <1>2, <1>4 DEF Range
    <3>2. i # 1 => i - 1 \in 1..Len(o)
      BY <1>4
    <3>3. i # 1 => o[i-1] \in Slots
      BY <1>6, <3>2
    <3> QED BY <1>7, <3>1, <3>3 DEF SlotOrNull
  <2> QED BY <1>3, <2>1 DEF Slots
<1>9. PICK g : Linked(next, g, free) /\ Range(g) = Slots
  <2>1. Linked(next, <<>>, Null) /\ Range(<<>>) = {}
    BY LinkedNone, EmptyRow
  <2>2. Size # 0
    BY InstancesAssumption DEF Box!MailboxAssumption
  <2>3. o # <<>>
    BY <1>2, <2>2
  <2>4. Range(o) \intersect Range(<<>>) = {}
    BY <2>1
  <2>5. \E r : /\ Linked(next, r, IF o = <<>> THEN Null ELSE o[Len(o)])
               /\ Range(r) = Range(o) \union Range(<<>>)
    BY <1>2, <1>7, <2>1, <2>4, LinkedReversed
  <2> QED BY <1>2, <1>3, <2>1, <2>3, <2>5
<1>10. NodeInv(<<>>, g)
  <2>1. Linked(next, <<>>, Null) /\ Range(<<>>) = {} /\ Len(<<>>) = 0
    BY LinkedNone, EmptyRow
  <2>2. Placed({}, Slots, msg)
    BY <1>3 DEF Placed
  <2>3. data \in [Slots -> Values \union {None}]
    BY <1>3 DEF Slots
  <2> QED BY <1>3, <1>8, <1>9, <2>1, <2>2, <2>3 DEF NodeInv
<1>11. CallInv
  <2>1. Isr \in Users
    BY DEF Users
  <2> QED BY <1>3, <2>1 DEF CallInv, AtHand, Labels, SlotOrNull
<1>12. LineInv /\ Served
  BY <1>3, EmptyRow DEF LineInv, Served, Swept
<1> QED BY <1>10, <1>11, <1>12 DEF QueueInv

-----------------------------------------------------------------------------
(* Message queue: what the module states                                    *)

\* Chain walks through the queue and through the free list.
LEMMA QueueChains ==
    ASSUME NEW q, NEW f, QueueInv(q, f)
    PROVE  Queue!Chain(head) = q /\ Queue!Chain(free) = f
<1>1. Linked(next, q, head) /\ Linked(next, f, free) /\ next \in [Slots -> SlotOrNull]
  BY DEF QueueInv, NodeInv
<1>2. ChainOf(next, head) = q /\ ChainOf(next, free) = f
  BY <1>1, ChainLemma, QueueConstants
<1> QED BY <1>2, ChainSame

LEMMA QueueSound ==
    ASSUME NEW q, NEW f, QueueInv(q, f)
    PROVE  /\ Queue!TypeOK /\ Queue!NodesPartitioned
           /\ Queue!WaitersServed /\ Queue!NobodyLeft
<1>1. NodeInv(q, f) /\ CallInv /\ LineInv /\ Served
  BY DEF QueueInv
<1>2. /\ Row(q, Slots) /\ Row(f, Slots) /\ entry \in Nat /\ entry = Len(q)
      /\ ((q = <<>>) <=> (head = Null))
      /\ Range(q) \subseteq Slots /\ Range(f) \subseteq Slots
  BY QueueTypes
<1>3. Queue!Queued = Range(q) /\ Queue!Freed = Range(f)
  BY QueueChains, SameRange DEF Queue!Queued, Queue!Freed
<1>4. {head, tail, free} \subseteq SlotOrNull
  <2>1. q # <<>> => q[1] \in Slots /\ q[Len(q)] \in Slots
    BY <1>2 DEF Row
  <2>2. f # <<>> => f[1] \in Slots
    BY <1>2 DEF Row
  <2> QED BY <1>1, <2>1, <2>2 DEF NodeInv, Linked, SlotOrNull
<1>5. entry \in 0..Cardinality(1..Size)
  <2>1. Cardinality(Range(q)) = Len(q)
    BY <1>2, RowLength
  <2>2. Cardinality(Range(q)) =< Cardinality(Slots)
    BY <1>2, QueueConstants, FS_Subset
  <2>3. Cardinality(Slots) \in Nat
    BY QueueConstants
  <2> QED BY <1>2, <2>1, <2>2, <2>3 DEF Slots
<1>6. Queue!TypeOK
  <2>1. Users = Queue!Procs
    BY DEF Users, Queue!Procs
  <2>2. /\ next \in [1..Size -> Queue!NodeOrNull] /\ data \in [1..Size -> Values \union {None}]
        /\ {head, tail, free} \subseteq Queue!NodeOrNull
        /\ msg \in [Queue!Procs -> Queue!NodeOrNull]
    BY <1>1, <1>4, <2>1 DEF NodeInv, CallInv, SlotOrNull, Slots, Queue!NodeOrNull
  <2>3. /\ suspended \in Seq(Peers) /\ timed \subseteq Queue!Range(suspended)
        /\ entry \in 0..Queue!Cardinality(1..Size)
    BY <1>1, <1>5, SameRange, SameSize DEF LineInv, Row
  <2>4. /\ pc \in [Queue!Procs -> {"idle", "alloc", "fill", "link", "waits", "copy", "put"}]
        /\ arg \in [Queue!Procs -> Values \union {None}]
        /\ buf \in [Queue!Procs -> Values \union {None}]
    BY <1>1, <2>1 DEF CallInv, Labels
  <2> QED BY <1>1, <2>2, <2>3, <2>4 DEF LineInv, Queue!TypeOK, Queue!Waits
<1>7. Queue!NodesPartitioned
  <2>1. Placed(Range(q), Range(f), msg)
    BY <1>1 DEF NodeInv
  <2>2. \A p \in Users : Queue!HeldBy(p) = IF msg[p] = Null THEN {} ELSE {msg[p]}
    BY DEF Queue!HeldBy
  <2>3. Range(q) \intersect Range(f) = {}
    BY <2>1 DEF Placed
  <2>4. \A p \in Users : Queue!HeldBy(p) \intersect (Range(q) \union Range(f)) = {}
    BY <2>1, <2>2 DEF Placed
  <2>5. \A p1, p2 \in Users : p1 # p2 => Queue!HeldBy(p1) \intersect Queue!HeldBy(p2) = {}
    BY <2>1, <2>2 DEF Placed
  <2>6. Range(q) \union Range(f) \union UNION {Queue!HeldBy(p) : p \in Users} = 1..Size
    <3>1. \A p \in Users : Queue!HeldBy(p) \subseteq Slots
      BY <1>1, <2>2 DEF CallInv, SlotOrNull
    <3>2. \A n \in Slots : n \in Range(q) \union Range(f) \/ \E p \in Users : n \in Queue!HeldBy(p)
      <4> TAKE n \in Slots
      <4>1. CASE \E p \in Users : msg[p] = n
        BY <2>2, <4>1, QueueConstants
      <4>2. CASE n \in Range(q) \union Range(f)
        BY <4>2
      <4> QED BY <2>1, <4>1, <4>2 DEF Placed
    <3> QED BY <1>2, <3>1, <3>2 DEF Slots
  <2>7. entry = Len(Queue!Chain(head))
    BY <1>2, QueueChains
  <2>8. IF head = Null THEN tail = Null ELSE tail = Queue!Last(Queue!Chain(head))
    BY <1>1, <1>2, QueueChains DEF NodeInv, Queue!Last
  <2> QED BY <1>3, <2>3, <2>4, <2>5, <2>6, <2>7, <2>8
          DEF Queue!NodesPartitioned, Queue!Procs, Users
<1>8. Queue!WaitersServed
  BY <1>1, SameRange, SameSize DEF Served, Roused, Queue!WaitersServed
<1>9. Queue!NobodyLeft
  BY <1>1, SameRange DEF LineInv, Swept, Queue!NobodyLeft
<1> QED BY <1>6, <1>7, <1>8, <1>9

\* What Channel lets happen between two states, for any channel.
Passes(c, d, o, n, h, k) ==
    \/ \E p \in Users :
          \/ /\ o[p] = None /\ d = c /\ k = h
             /\ \E v \in Values : n = [o EXCEPT ![p] = v]
          \/ /\ o[p] # None /\ Len(c) < Size /\ k = h /\ n = [o EXCEPT ![p] = None]
             /\ d = Append(c, o[p]) \/ d = <<o[p]>> \o c
          \/ o[p] # None /\ d = c /\ k = h /\ n = [o EXCEPT ![p] = None]
          \/ /\ h[p] = None /\ c # <<>> /\ n = o
             /\ k = [h EXCEPT ![p] = Head(c)] /\ d = Tail(c)
          \/ h[p] # None /\ k = [h EXCEPT ![p] = None] /\ d = c /\ n = o
    \/ d = <<>> /\ n = o /\ k = h

\* The values in the nodes of q, and what the calls have received.
Texts(d, q) == [i \in 1..Len(q) |-> d[q[i]]]
Hands(l, d, m, b) == [p \in Users |-> IF l[p] = "copy" THEN d[m[p]] ELSE b[p]]
Handed == Hands(pc, data, msg, buf)

\* Nodes that are not in the queue do not matter.
LEMMA TextsSame ==
    ASSUME NEW q, Row(q, Slots), NEW d, NEW e, \A n \in Range(q) : d[n] = e[n]
    PROVE  Texts(d, q) = Texts(e, q)
<1>1. \A i \in 1..Len(q) : q[i] \in Range(q)
  BY DEF Row, Range
<1> QED BY <1>1 DEF Texts

LEMMA TextsAppend ==
    ASSUME NEW q, Row(q, Slots), NEW d, NEW m \in Slots, m \notin Range(q)
    PROVE  Texts(d, Append(q, m)) = Append(Texts(d, q), d[m])
<1>1. PICK c, e : c = Texts(d, q) /\ e = Texts(d, Append(q, m))
  OBVIOUS
<1>2. q \in Seq(Slots) /\ Len(q) \in Nat
  BY DEF Row
<1>3. \A i \in 1..Len(q) : Append(q, m)[i] = q[i]
  BY <1>2
<1>4. Append(q, m)[Len(q) + 1] = m /\ Len(Append(q, m)) = Len(q) + 1
  BY <1>2
<1>5. c = [i \in 1..Len(q) |-> d[q[i]]]
  BY <1>1 DEF Texts
<1>6. e = [i \in 1..Len(q) + 1 |-> IF i = Len(q) + 1 THEN d[m] ELSE d[q[i]]]
  <2>1. \A i \in 1..Len(q) + 1 : d[Append(q, m)[i]] = IF i = Len(q) + 1 THEN d[m] ELSE d[q[i]]
    <3> TAKE i \in 1..Len(q) + 1
    <3>1. CASE i = Len(q) + 1
      BY <1>4, <3>1
    <3>2. CASE i # Len(q) + 1
      <4>1. i \in 1..Len(q)
        BY <1>2, <3>2
      <4> QED BY <1>3, <3>2, <4>1
    <3> QED BY <3>1, <3>2
  <2> QED BY <1>1, <1>4, <2>1 DEF Texts
<1>7. PICK S : \A i \in 1..Len(q) : d[q[i]] \in S
  <2>1. \A i \in 1..Len(q) : d[q[i]] \in {d[q[j]] : j \in 1..Len(q)}
    OBVIOUS
  <2> QED BY <2>1
<1>8. PICK T : (\A i \in 1..Len(q) : d[q[i]] \in T) /\ d[m] \in T
  <2>1. (\A i \in 1..Len(q) : d[q[i]] \in S \union {d[m]}) /\ d[m] \in S \union {d[m]}
    BY <1>7
  <2> QED BY <2>1
<1>9. c \in Seq(T) /\ Len(c) = Len(q)
  BY <1>2, <1>5, <1>8
<1>10. Append(c, d[m]) = [i \in 1..Len(q) + 1 |-> IF i = Len(q) + 1 THEN d[m] ELSE c[i]]
  BY <1>8, <1>9, <1>2, AppendProperties
<1>11. \A i \in 1..Len(q) + 1 : i # Len(q) + 1 => c[i] = d[q[i]]
  BY <1>2, <1>5
<1> QED BY <1>1, <1>6, <1>10, <1>11

LEMMA TextsPush ==
    ASSUME NEW q, Row(q, Slots), NEW d, NEW m \in Slots, m \notin Range(q)
    PROVE  /\ Texts(d, <<m>> \o q) = <<d[m]>> \o Texts(d, q)
           /\ Head(Texts(d, <<m>> \o q)) = d[m] /\ Texts(d, <<m>> \o q) # <<>>
           /\ Tail(Texts(d, <<m>> \o q)) = Texts(d, q)
<1>1. PICK c, e, g : c = Texts(d, q) /\ e = Texts(d, g) /\ g = <<m>> \o q
  OBVIOUS
<1>2. q \in Seq(Slots) /\ Len(q) \in Nat
  BY DEF Row
<1>3. Len(g) = Len(q) + 1 /\ g[1] = m /\ \A i \in 1..Len(q) : g[i+1] = q[i]
  BY <1>1, <1>2
<1>4. PICK S : (\A i \in 1..Len(q) : d[q[i]] \in S) /\ d[m] \in S
  <2>1. /\ \A i \in 1..Len(q) : d[q[i]] \in {d[q[j]] : j \in 1..Len(q)} \union {d[m]}
        /\ d[m] \in {d[q[j]] : j \in 1..Len(q)} \union {d[m]}
    OBVIOUS
  <2> QED BY <2>1
<1>5. c \in Seq(S) /\ Len(c) = Len(q) /\ \A i \in 1..Len(q) : c[i] = d[q[i]]
  BY <1>1, <1>2, <1>4 DEF Texts
<1>6. \A i \in 1..Len(q) + 1 : d[g[i]] = IF i = 1 THEN d[m] ELSE d[q[i-1]]
  <2> TAKE i \in 1..Len(q) + 1
  <2>1. CASE i = 1
    BY <1>3, <2>1
  <2>2. CASE i # 1
    <3>1. i - 1 \in 1..Len(q) /\ (i - 1) + 1 = i
      BY <1>2, <2>2
    <3> QED BY <1>3, <2>2, <3>1
  <2> QED BY <2>1, <2>2
<1>7. /\ e \in Seq(S) /\ Len(e) = Len(q) + 1
      /\ \A i \in 1..Len(q) + 1 : e[i] = IF i = 1 THEN d[m] ELSE c[i-1]
  <2>1. e = [i \in 1..Len(q) + 1 |-> d[g[i]]]
    BY <1>1, <1>3 DEF Texts
  <2>2. \A i \in 1..Len(q) + 1 : i # 1 => i - 1 \in 1..Len(q)
    BY <1>2
  <2>3. \A i \in 1..Len(q) + 1 : d[g[i]] \in S
    BY <1>4, <1>6, <2>2
  <2>4. e \in Seq(S) /\ Len(e) = Len(q) + 1
    BY <1>2, <2>1, <2>3
  <2> QED BY <1>5, <1>6, <2>1, <2>2, <2>4
<1>8. e = <<d[m]>> \o c
  <2>1. PICK b : b = <<d[m]>> \o c
    OBVIOUS
  <2>2. /\ b \in Seq(S) /\ Len(b) = Len(q) + 1
        /\ \A i \in 1..Len(q) + 1 : b[i] = IF i = 1 THEN d[m] ELSE c[i-1]
    BY <1>2, <1>4, <1>5, <2>1
  <2> QED BY <1>2, <1>7, <2>1, <2>2, SeqEqual
<1>9. e # <<>> /\ Head(e) = d[m]
  BY <1>2, <1>7
<1>10. Tail(e) = c
  <2>1. /\ Tail(e) \in Seq(S) /\ Len(Tail(e)) = Len(c)
        /\ \A i \in 1..Len(c) : Tail(e)[i] = c[i]
    BY <1>2, <1>5, <1>7, <1>9
  <2> QED BY <1>5, <2>1, SeqEqual
<1> QED BY <1>1, <1>8, <1>9, <1>10

\* The channel passes on, or nothing of it changes.
Passed(q, g) ==
    \/ Passes(Texts(data, q), Texts(data', g), arg, arg', Handed, Handed')
    \/ Texts(data', g) = Texts(data, q) /\ arg' = arg /\ Handed' = Handed

\* What p has received changes, if anything.
LEMMA HandsMoved ==
    ASSUME CallInv, NEW p \in Users, NEW l, pc' = [pc EXCEPT ![p] = l],
           buf' \in [Users -> Values \union {None}],
           \A u \in Users \ {p} : /\ msg'[u] = msg[u] /\ buf'[u] = buf[u]
                                  /\ msg[u] # Null => data'[msg[u]] = data[msg[u]],
           NEW x, x = IF l = "copy" THEN data'[msg'[p]] ELSE buf'[p]
    PROVE  /\ Handed' = [Handed EXCEPT ![p] = x]
           /\ (x = Handed[p] => Handed' = Handed)
           /\ Handed[p] = IF pc[p] = "copy" THEN data[msg[p]] ELSE buf[p]
<1>1. \A u \in Users : pc'[u] = IF u = p THEN l ELSE pc[u]
  BY DEF CallInv
<1>2. \A u \in Users : pc[u] = "copy" => msg[u] # Null
  BY DEF CallInv, AtHand
<1>3. PICK h, k : h = Handed /\ k = Handed'
  OBVIOUS
<1>4. h = [u \in Users |-> IF pc[u] = "copy" THEN data[msg[u]] ELSE buf[u]]
  BY <1>3 DEF Handed, Hands
<1>5. k = [u \in Users |-> IF pc'[u] = "copy" THEN data'[msg'[u]] ELSE buf'[u]]
  BY <1>3 DEF Handed, Hands
<1>6. \A u \in Users : k[u] = IF u = p THEN x ELSE h[u]
  BY <1>1, <1>2, <1>4, <1>5
<1>7. k = [h EXCEPT ![p] = x]
  BY <1>4, <1>5, <1>6
<1>8. x = h[p] => k = h
  BY <1>4, <1>5, <1>6
<1>9. h[p] = IF pc[p] = "copy" THEN data[msg[p]] ELSE buf[p]
  BY <1>4
<1> QED BY <1>3, <1>7, <1>8, <1>9

\* There is room for a node that is not in the queue.
LEMMA RoomLemma ==
    ASSUME NEW q, Row(q, Slots), NEW m \in Slots, m \notin Range(q), NEW d
    PROVE  Len(Texts(d, q)) < Size
<1>1. Range(q) \in SUBSET Slots
  BY DEF Row, Range
<1>2. Range(q) \subseteq Slots /\ Range(q) # Slots
  BY <1>1
<1>3. Cardinality(Range(q)) =< Cardinality(Slots) /\ Cardinality(Range(q)) # Cardinality(Slots)
  BY <1>2, QueueConstants, FS_Subset
<1>4. Cardinality(Range(q)) = Len(q) /\ Len(q) \in Nat
  BY RowLength
<1>5. Len(Texts(d, q)) = Len(q)
  BY <1>4 DEF Texts
<1> QED BY <1>3, <1>4, <1>5, QueueConstants

-----------------------------------------------------------------------------
(* Message queue: the channel it implements                                 *)

LEMMA QPassSend ==
    ASSUME NEW q, NEW f, QueueInv(q, f), NEW p \in Users,
           \/ \E v \in Values : Queue!SendCall(p, v)
           \/ Queue!SendFull(p)
    PROVE  Passed(q, q)
<1>1. PICK n, l : /\ arg' = [arg EXCEPT ![p] = n] /\ pc' = [pc EXCEPT ![p] = l]
                  /\ l \in {"alloc", "idle"} /\ pc[p] # "copy"
                  /\ (n \in Values /\ pc[p] = "idle") \/ (n = None /\ pc[p] = "alloc")
                  /\ UNCHANGED <<data, msg, buf>>
  BY DEF Queue!SendCall, Queue!SendFull, Queue!Goto, Queue!At
<1>2. CallInv /\ AtHand(p)
  BY DEF QueueInv, CallInv
<1>3. Handed' = Handed
  <2>1. /\ \A u \in Users \ {p} : msg'[u] = msg[u] /\ buf'[u] = buf[u]
        /\ buf' \in [Users -> Values \union {None}]
        /\ \A u \in Users \ {p} : msg[u] # Null => data'[msg[u]] = data[msg[u]]
    BY <1>1, <1>2 DEF CallInv
  <2>2. buf[p] = IF l = "copy" THEN data'[msg'[p]] ELSE buf'[p]
    BY <1>1
  <2> QED BY <1>1, <1>2, <2>1, <2>2, HandsMoved
<1>4. Texts(data', q) = Texts(data, q)
  BY <1>1
<1>5. CASE n \in Values /\ pc[p] = "idle"
  <2>1. arg[p] = None
    BY <1>2, <1>5 DEF AtHand
  <2> QED BY <1>1, <1>3, <1>4, <1>5, <2>1 DEF Passed, Passes
<1>6. CASE n = None /\ pc[p] = "alloc"
  <2>1. arg[p] # None
    BY <1>2, <1>6 DEF AtHand
  <2> QED BY <1>1, <1>3, <1>4, <1>6, <2>1 DEF Passed, Passes
<1> QED BY <1>1, <1>5, <1>6

\* Sections that touch no message of the queue and nothing received.
LEMMA QPassQuiet ==
    ASSUME NEW q, NEW f, QueueInv(q, f), NEW p \in Users, NEW w,
           \/ Queue!Alloc(p) \/ Queue!Fill(p) \/ Queue!RecvEmpty(p) \/ Queue!RecvFails(p)
           \/ Queue!RecvWait(p, w)
    PROVE  Passed(q, q)
<1> DEFINE Calm(l) ==
              /\ pc' = [pc EXCEPT ![p] = l] /\ l \notin {"copy", "put"}
              /\ arg' = arg /\ buf' = buf /\ \A u \in Users \ {p} : msg'[u] = msg[u]
              /\ pc[p] \notin {"copy", "put"}
              /\ data' = data \/ (data' = [data EXCEPT ![msg[p]] = arg[p]] /\ pc[p] = "fill")
<1>1. \E l : Calm(l)
  <2>1. CASE Queue!Alloc(p)
    <3>1. msg' = [msg EXCEPT ![p] = free] /\ msg \in [Users -> SlotOrNull]
      BY <2>1 DEF Queue!Alloc, QueueInv, CallInv
    <3>2. \A u \in Users \ {p} : msg'[u] = msg[u]
      BY <3>1
    <3>3. Calm("fill")
      BY <2>1, <3>2 DEF Queue!Alloc, Queue!Goto, Queue!At
    <3> HIDE DEF Calm
    <3> QED BY <3>3
  <2>2. CASE Queue!Fill(p)
    <3>1. Calm("link")
      BY <2>2 DEF Queue!Fill, Queue!Goto, Queue!At
    <3> HIDE DEF Calm
    <3> QED BY <3>1
  <2>3. CASE Queue!RecvEmpty(p) \/ Queue!RecvFails(p)
    <3>1. Calm("idle")
      BY <2>3 DEF Queue!RecvEmpty, Queue!RecvFails, Queue!Goto, Queue!At
    <3> HIDE DEF Calm
    <3> QED BY <3>1
  <2>4. CASE Queue!RecvWait(p, w)
    <3>1. pc[p] \in {"idle", "waits"}
      BY <2>4, LooksLemma DEF Queue!RecvWait
    <3>2. Calm("waits")
      BY <2>4, <3>1 DEF Queue!RecvWait, Queue!Goto
    <3> HIDE DEF Calm
    <3> QED BY <3>2
  <2> QED BY <2>1, <2>2, <2>3, <2>4
<1>1a. PICK l : Calm(l)
  BY <1>1
<1>2. CallInv /\ AtHand(p) /\ Placed(Range(q), Range(f), msg) /\ Row(q, Slots)
      /\ data \in [Slots -> Values \union {None}]
  BY QueueTypes DEF QueueInv, CallInv, NodeInv
<1>3. \A n \in Slots : n \in Range(q) \/ (\E u \in Users \ {p} : msg[u] = n) => data'[n] = data[n]
  <2>1. CASE data' = data
    BY <2>1
  <2>2. CASE data' = [data EXCEPT ![msg[p]] = arg[p]] /\ pc[p] = "fill"
    <3>1. msg[p] # Null
      BY <1>2, <2>2 DEF AtHand
    <3>2. msg[p] \notin Range(q) /\ \A u \in Users \ {p} : msg[u] # msg[p]
      BY <1>2, <3>1 DEF Placed
    <3> QED BY <1>2, <2>2, <3>2
  <2> QED BY <1>1a, <2>1, <2>2
<1>4. Texts(data', q) = Texts(data, q)
  <2>1. \A n \in Range(q) : data'[n] = data[n]
    BY <1>2, <1>3 DEF Row, Range
  <2> QED BY <1>2, <2>1, TextsSame
<1>5. Handed' = Handed
  <2>1. \A u \in Users \ {p} : msg[u] # Null => data'[msg[u]] = data[msg[u]]
    BY <1>2, <1>3 DEF CallInv, SlotOrNull
  <2>2. buf[p] = IF l = "copy" THEN data'[msg'[p]] ELSE buf'[p]
    BY <1>1a
  <2>3. /\ buf' \in [Users -> Values \union {None}]
        /\ \A u \in Users \ {p} : msg'[u] = msg[u] /\ buf'[u] = buf[u]
    BY <1>1a, <1>2 DEF CallInv
  <2>4. (buf[p] = Handed[p] => Handed' = Handed)
        /\ Handed[p] = IF pc[p] = "copy" THEN data[msg[p]] ELSE buf[p]
    BY <1>1a, <1>2, <2>1, <2>2, <2>3, HandsMoved
  <2> QED BY <1>1a, <2>4
<1> QED BY <1>1a, <1>4, <1>5 DEF Passed

LEMMA QPassLink ==
    ASSUME NEW q, NEW f, QueueInv(q, f), NEW p \in Users, NEW g,
           \/ Queue!LinkLast(p) /\ g = Append(q, msg[p])
           \/ Queue!LinkFirst(p) /\ g = <<msg[p]>> \o q
    PROVE  Passed(q, g)
<1>1. /\ arg' = [arg EXCEPT ![p] = None] /\ msg' = [msg EXCEPT ![p] = Null]
      /\ pc' = [pc EXCEPT ![p] = "idle"] /\ data' = data /\ buf' = buf /\ pc[p] = "link"
  BY DEF Queue!LinkLast, Queue!LinkFirst, Queue!Sent, Queue!Goto, Queue!At
<1>2. /\ CallInv /\ AtHand(p) /\ Placed(Range(q), Range(f), msg) /\ Row(q, Slots)
      /\ msg \in [Users -> SlotOrNull]
  BY QueueTypes DEF QueueInv, CallInv, NodeInv
<1>3. PICK m : m = msg[p] /\ m \in Slots /\ m \notin Range(q) /\ data[m] = arg[p] /\ arg[p] # None
  <2>1. msg[p] # Null /\ data[msg[p]] = arg[p] /\ arg[p] # None
    BY <1>1, <1>2 DEF AtHand
  <2>2. msg[p] \in Slots /\ msg[p] \notin Range(q)
    BY <1>2, <2>1 DEF Placed, SlotOrNull
  <2> QED BY <2>1, <2>2
<1>4. Handed' = Handed
  <2>1. /\ buf' \in [Users -> Values \union {None}]
        /\ \A u \in Users \ {p} : msg'[u] = msg[u] /\ buf'[u] = buf[u]
        /\ \A u \in Users \ {p} : msg[u] # Null => data'[msg[u]] = data[msg[u]]
    BY <1>1, <1>2 DEF CallInv
  <2>2. "idle" # "copy" /\ buf[p] = IF "idle" = "copy" THEN data'[msg'[p]] ELSE buf'[p]
    BY <1>1
  <2>3. (buf[p] = Handed[p] => Handed' = Handed)
        /\ Handed[p] = IF pc[p] = "copy" THEN data[msg[p]] ELSE buf[p]
    BY <1>1, <1>2, <2>1, <2>2, HandsMoved
  <2> QED BY <1>1, <2>3
<1>5. Len(Texts(data, q)) < Size
  BY <1>2, <1>3, RoomLemma
<1>6. \/ Texts(data', g) = Append(Texts(data, q), arg[p])
      \/ Texts(data', g) = <<arg[p]>> \o Texts(data, q)
  <2>1. CASE g = Append(q, m)
    BY <1>1, <1>2, <1>3, <2>1, TextsAppend
  <2>2. CASE g = <<m>> \o q
    BY <1>1, <1>2, <1>3, <2>2, TextsPush
  <2> QED BY <1>3, <2>1, <2>2
<1> QED BY <1>1, <1>3, <1>4, <1>5, <1>6 DEF Passed, Passes

LEMMA QPassUnlink ==
    ASSUME NEW q, NEW f, QueueInv(q, f), NEW p \in Users, NEW w, Queue!Unlink(p, w),
           NEW g, g = Tail(q)
    PROVE  Passed(q, g)
<1>1. PICK m : m = head
  OBVIOUS
<1>2. /\ Queue!Looks(p, w) /\ entry # 0 /\ msg' = [msg EXCEPT ![p] = m]
      /\ pc' = [pc EXCEPT ![p] = "copy"] /\ UNCHANGED <<data, arg, buf>>
  BY <1>1 DEF Queue!Unlink, Queue!Goto
<1>3. /\ pc[p] \in {"idle", "waits"} /\ buf[p] = None /\ CallInv
      /\ Linked(next, q, m) /\ m # Null
  BY <1>1, <1>2, LooksLemma, QueueTypes DEF QueueInv, NodeInv
<1>4. /\ m \in Slots /\ Row(g, Slots) /\ m \notin Range(g) /\ q = <<m>> \o g
  BY <1>3, LinkedTail
<1>5. /\ Head(Texts(data, q)) = data[m] /\ Texts(data, q) # <<>>
      /\ Tail(Texts(data, q)) = Texts(data, g)
  <2>1. m = q[1] /\ 1 \in 1..Len(q) /\ Len(q) \in Nat
    BY <1>3, QueueConstants DEF Linked, Row
  <2>2. PICK c : c = Texts(data, q)
    OBVIOUS
  <2>3. c = [i \in 1..Len(q) |-> data[q[i]]]
    BY <2>2 DEF Texts
  <2>4. Head(c) = data[m] /\ c # <<>>
    BY <2>1, <2>3
  <2>5. m \in Slots /\ m \notin Range(g) /\ Row(g, Slots)
    BY <1>4
  <2>6. Tail(Texts(data, <<m>> \o g)) = Texts(data, g)
    BY <2>5, TextsPush
  <2> QED BY <1>4, <2>2, <2>4, <2>6
<1>6. Handed' = [Handed EXCEPT ![p] = data[m]] /\ Handed[p] = None
  <2>1. \A u \in Users \ {p} : /\ msg'[u] = msg[u] /\ buf'[u] = buf[u] /\ pc'[u] = pc[u]
                               /\ pc[u] = "copy" => data'[msg[u]] = data[msg[u]]
    BY <1>2, <1>3 DEF CallInv
  <2>2. pc'[p] = "copy" /\ data'[msg'[p]] = data[m]
    BY <1>2, <1>3 DEF CallInv
  <2>3. PICK h, k : h = Handed /\ k = Handed'
    OBVIOUS
  <2>4. h = [u \in Users |-> IF pc[u] = "copy" THEN data[msg[u]] ELSE buf[u]]
    BY <2>3 DEF Handed, Hands
  <2>5. k = [u \in Users |-> IF pc'[u] = "copy" THEN data'[msg'[u]] ELSE buf'[u]]
    BY <2>3 DEF Handed, Hands
  <2>6. \A u \in Users : k[u] = IF u = p THEN data[m] ELSE h[u]
    BY <2>1, <2>2, <2>4, <2>5
  <2>7. k = [h EXCEPT ![p] = data[m]]
    BY <2>4, <2>5, <2>6
  <2>8. h[p] = None
    BY <1>3, <2>4
  <2> QED BY <2>3, <2>7, <2>8
<1>7. Texts(data', g) = Tail(Texts(data, q)) /\ arg' = arg
  BY <1>2, <1>5
<1> QED BY <1>5, <1>6, <1>7 DEF Passed, Passes

LEMMA QPassBack ==
    ASSUME NEW q, NEW f, QueueInv(q, f), NEW p \in Users, Queue!Copy(p) \/ Queue!PutBack(p)
    PROVE  Passed(q, q)
<1>1. /\ data' = data /\ arg' = arg
      /\ \/ /\ pc[p] = "copy" /\ pc' = [pc EXCEPT ![p] = "put"]
            /\ buf' = [buf EXCEPT ![p] = data[msg[p]]] /\ msg' = msg
         \/ /\ pc[p] = "put" /\ pc' = [pc EXCEPT ![p] = "idle"]
            /\ buf' = [buf EXCEPT ![p] = None] /\ msg' = [msg EXCEPT ![p] = Null]
  BY DEF Queue!Copy, Queue!PutBack, Queue!Goto, Queue!At
<1>2. CallInv /\ AtHand(p)
  BY DEF QueueInv, CallInv
<1>3. Texts(data', q) = Texts(data, q)
  BY <1>1
<1>4. PICK l, x : /\ pc' = [pc EXCEPT ![p] = l] /\ buf' = [buf EXCEPT ![p] = x]
                  /\ l \in {"put", "idle"} /\ x \in Values \union {None}
                  /\ \A u \in Users \ {p} : msg'[u] = msg[u]
                  /\ \/ pc[p] = "copy" /\ x = data[msg[p]]
                     \/ pc[p] = "put" /\ x = None
  <2>1. pc[p] = "copy" => data[msg[p]] \in Values
    BY <1>2 DEF AtHand
  <2>2. \A u \in Users \ {p} : msg'[u] = msg[u]
    BY <1>1, <1>2 DEF CallInv
  <2> QED BY <1>1, <2>1, <2>2
<1>5. /\ Handed' = [Handed EXCEPT ![p] = x] /\ (x = Handed[p] => Handed' = Handed)
      /\ Handed[p] = IF pc[p] = "copy" THEN data[msg[p]] ELSE buf[p]
  <2>1. /\ buf' \in [Users -> Values \union {None}]
        /\ \A u \in Users \ {p} : msg'[u] = msg[u] /\ buf'[u] = buf[u]
        /\ \A u \in Users \ {p} : msg[u] # Null => data'[msg[u]] = data[msg[u]]
    BY <1>1, <1>2, <1>4 DEF CallInv
  <2>2. x = IF l = "copy" THEN data'[msg'[p]] ELSE buf'[p]
    BY <1>2, <1>4 DEF CallInv
  <2> QED BY <1>2, <1>4, <2>1, <2>2, HandsMoved
<1>6. CASE pc[p] = "copy"
  BY <1>1, <1>3, <1>4, <1>5, <1>6 DEF Passed
<1>7. CASE pc[p] = "put"
  <2>1. Handed[p] # None /\ x = None
    BY <1>2, <1>4, <1>5, <1>7 DEF AtHand
  <2> QED BY <1>1, <1>3, <1>5, <2>1 DEF Passed, Passes
<1> QED BY <1>1, <1>6, <1>7

LEMMA QPassOther ==
    ASSUME NEW q, NEW f, QueueInv(q, f)
    PROVE  /\ (\E t \in Peers : Queue!Timeout(t)) => Passed(q, q)
           /\ Queue!DeleteCheck \/ Queue!DeleteTake \/ Queue!Delete => Passed(q, q)
           /\ UNCHANGED Queue!vars => Passed(q, q)
           /\ (\E t \in Peers : Queue!Reset(t)) => Passed(q, <<>>)
<1>1. UNCHANGED <<data, arg, pc, msg, buf>> => Passed(q, q)
  BY DEF Passed, Handed
<1>2. ASSUME NEW t \in Peers, Queue!Reset(t) PROVE Passed(q, <<>>)
  <2>1. UNCHANGED <<data, arg, pc, msg, buf>>
    BY <1>2 DEF Queue!Reset
  <2>2. Texts(data', <<>>) = <<>>
    BY DEF Texts
  <2> QED BY <2>1, <2>2 DEF Passed, Passes, Handed
<1>3. ASSUME NEW t \in Peers, Queue!Timeout(t) PROVE UNCHANGED <<data, arg, pc, msg, buf>>
  BY <1>3 DEF Queue!Timeout
<1>4. Queue!DeleteCheck \/ Queue!DeleteTake \/ Queue!Delete \/ UNCHANGED Queue!vars
      => UNCHANGED <<data, arg, pc, msg, buf>>
  BY DEF Queue!DeleteCheck, Queue!DeleteTake, Queue!Delete, Queue!vars
<1> QED BY <1>1, <1>2, <1>3, <1>4

\* One step: the queue is g after it, the free list k.
LEMMA QueueSteps ==
    ASSUME NEW q, NEW f, QueueInv(q, f), Queue!Next \/ UNCHANGED Queue!vars
    PROVE  \E g, k : QueueInv(g, k)' /\ Passed(q, g)
<1>1. ASSUME NEW p \in Users, NEW v \in Values, Queue!SendCall(p, v)
      PROVE  QueueInv(q, f)' /\ Passed(q, q)
  BY <1>1, QSendCall, QPassSend
<1>2. ASSUME NEW p \in Users, Queue!SendFull(p) PROVE QueueInv(q, f)' /\ Passed(q, q)
  BY <1>2, QSendFull, QPassSend
<1>3. ASSUME NEW p \in Users, Queue!Alloc(p) PROVE \E k : QueueInv(q, k)' /\ Passed(q, q)
  <2>1. PICK k : k = Tail(f)
    OBVIOUS
  <2>2. QueueInv(q, k)'
    BY <1>3, <2>1, QAlloc
  <2> QED BY <1>3, <2>2, QPassQuiet
<1>4. ASSUME NEW p \in Users, Queue!Fill(p) PROVE QueueInv(q, f)' /\ Passed(q, q)
  BY <1>4, QFill, QPassQuiet
<1>5. ASSUME NEW p \in Users, Queue!LinkLast(p) PROVE \E g : QueueInv(g, f)' /\ Passed(q, g)
  <2>1. PICK g : g = Append(q, msg[p])
    OBVIOUS
  <2>2. QueueInv(g, f)'
    BY <1>5, <2>1, QLinkLast
  <2> QED BY <1>5, <2>1, <2>2, QPassLink
<1>6. ASSUME NEW p \in Users, Queue!LinkFirst(p) PROVE \E g : QueueInv(g, f)' /\ Passed(q, g)
  <2>1. PICK g : g = <<msg[p]>> \o q
    OBVIOUS
  <2>2. QueueInv(g, f)'
    BY <1>6, <2>1, QLinkFirst
  <2> QED BY <1>6, <2>1, <2>2, QPassLink
<1>7. ASSUME NEW p \in Users, Queue!RecvEmpty(p) \/ Queue!RecvFails(p)
      PROVE  QueueInv(q, f)' /\ Passed(q, q)
  BY <1>7, QRecvEmpty, QRecvFails, QPassQuiet
<1>8. ASSUME NEW p \in Users, NEW w, Queue!RecvWait(p, w) PROVE QueueInv(q, f)' /\ Passed(q, q)
  BY <1>8, QRecvWait, QPassQuiet
<1>9. ASSUME NEW p \in Users, NEW w, Queue!Unlink(p, w)
      PROVE  \E g : QueueInv(g, f)' /\ Passed(q, g)
  <2>1. PICK g : g = Tail(q)
    OBVIOUS
  <2>2. QueueInv(g, f)'
    BY <1>9, <2>1, QUnlink
  <2> QED BY <1>9, <2>1, <2>2, QPassUnlink
<1>10. ASSUME NEW p \in Users, Queue!Copy(p) PROVE QueueInv(q, f)' /\ Passed(q, q)
  BY <1>10, QCopy, QPassBack
<1>11. ASSUME NEW p \in Users, Queue!PutBack(p) PROVE \E k : QueueInv(q, k)' /\ Passed(q, q)
  <2>1. PICK k : k = <<msg[p]>> \o f
    OBVIOUS
  <2>2. QueueInv(q, k)'
    BY <1>11, <2>1, QPutBack
  <2> QED BY <1>11, <2>2, QPassBack
<1>12. ASSUME NEW t \in Peers, Queue!Timeout(t) PROVE QueueInv(q, f)' /\ Passed(q, q)
  BY <1>12, QTimeout, QPassOther
<1>13. ASSUME NEW t \in Peers, Queue!Reset(t) PROVE \E k : QueueInv(<<>>, k)' /\ Passed(q, <<>>)
  BY <1>13, QReset, QPassOther
<1>14. ASSUME Queue!DeleteCheck \/ Queue!DeleteTake \/ Queue!Delete
       PROVE  QueueInv(q, f)' /\ Passed(q, q)
  BY <1>14, QDelete, QPassOther
<1>15. ASSUME UNCHANGED Queue!vars PROVE QueueInv(q, f)' /\ Passed(q, q)
  BY <1>15, QStays, QPassOther
<1>16. CASE \E p \in Users : Queue!Send(p)
  BY <1>1, <1>2, <1>3, <1>4, <1>5, <1>6, <1>16 DEF Queue!Send
<1>17. CASE \E p \in Users : Queue!Recv(p)
  BY <1>7, <1>8, <1>9, <1>10, <1>11, <1>17 DEF Queue!Recv
<1>18. CASE \E t \in Peers : Queue!Timeout(t) \/ Queue!Reset(t)
  BY <1>12, <1>13, <1>18
<1> QED BY <1>14, <1>15, <1>16, <1>17, <1>18 DEF Queue!Next, Queue!Procs, Users

-----------------------------------------------------------------------------
(* Mailbox: the theorems of MailboxProofs, under the names of Ipc           *)

BoxProofs == INSTANCE MailboxProofs WITH
    Threads <- Peers, armed <- timed, err <- result, phase <- stage

BoxInv == BoxProofs!Inv /\ BoxProofs!Moods

\* The library's operators once more.
LEMMA BoxLibrary ==
    /\ \A l : Box!Range(l) = BoxProofs!Range(l)
    /\ \A S : Box!Cardinality(S) = BoxProofs!Cardinality(S)
    /\ \A S : Box!IsFiniteSet(S) <=> BoxProofs!IsFiniteSet(S)
    /\ \A l, i : Box!RemoveAt(l, i) = BoxProofs!RemoveAt(l, i)
BY DEF Box!Range, BoxProofs!Range, Box!Cardinality, BoxProofs!Cardinality,
       Box!IsFiniteSet, BoxProofs!IsFiniteSet, Box!RemoveAt, BoxProofs!RemoveAt

\* The tests and the ways to wait and to wake are the same ...
LEMMA BoxTests ==
    /\ Box!Procs = BoxProofs!Procs /\ Box!Waits = BoxProofs!Waits
    /\ Box!Sides = BoxProofs!Sides /\ Box!Waiting = BoxProofs!Waiting
    /\ Box!Taking = BoxProofs!Taking
    /\ (\A t : Box!Suspended(t) <=> BoxProofs!Suspended(t))
    /\ (\A p : Box!Runs(p) <=> BoxProofs!Runs(p))
    /\ (Box!Usable <=> BoxProofs!Usable)
    /\ (\A p : Box!Calls(p) <=> BoxProofs!Calls(p))
BY BoxLibrary DEF Box!Procs, BoxProofs!Procs, Box!Waits, BoxProofs!Waits, Box!Sides,
   BoxProofs!Sides, Box!Waiting, BoxProofs!Waiting, Box!Taking, BoxProofs!Taking,
   Box!Suspended, BoxProofs!Suspended, Box!Runs, BoxProofs!Runs, Box!Usable,
   BoxProofs!Usable, Box!Calls, BoxProofs!Calls

LEMMA BoxMoves ==
    /\ (\A p, l : Box!Goto(p, l) <=> BoxProofs!Goto(p, l))
    /\ (\A p : Box!Done(p) <=> BoxProofs!Done(p))
    /\ (\A t, s, m : Box!Wait(t, s, m) <=> BoxProofs!Wait(t, s, m))
    /\ (\A s : Box!Wake(s) <=> BoxProofs!Wake(s))
    /\ (\A p, s, l, m : Box!Looks(p, s, l, m) <=> BoxProofs!Looks(p, s, l, m))
    /\ (\A o : Box!Advanced(o) = BoxProofs!Advanced(o))
<1>1. \A p, l : Box!Goto(p, l) <=> BoxProofs!Goto(p, l)
  BY DEF Box!Goto, BoxProofs!Goto
<1>2. \A p : Box!Done(p) <=> BoxProofs!Done(p)
  BY DEF Box!Done, BoxProofs!Done
<1>3. \A t, s, m : Box!Wait(t, s, m) <=> BoxProofs!Wait(t, s, m)
  BY <1>1, BoxTests DEF Box!Wait, BoxProofs!Wait
<1>4. \A s : Box!Wake(s) <=> BoxProofs!Wake(s)
  BY DEF Box!Wake, BoxProofs!Wake
<1>5. \A p, s, l, m : Box!Looks(p, s, l, m) <=> BoxProofs!Looks(p, s, l, m)
  BY BoxTests DEF Box!Looks, BoxProofs!Looks, Box!Left, BoxProofs!Left
<1>6. \A o : Box!Advanced(o) = BoxProofs!Advanced(o)
  BY DEF Box!Advanced, BoxProofs!Advanced
<1> QED BY <1>1, <1>2, <1>3, <1>4, <1>5, <1>6

\* ... and so are the calls and the steps ...
LEMMA BoxCalls ==
    /\ (\A p, v : Box!SendCall(p, v) <=> BoxProofs!SendCall(p, v))
    /\ (\A p : Box!SendFull(p) <=> BoxProofs!SendFull(p))
    /\ (\A p : Box!RecvEmpty(p) <=> BoxProofs!RecvEmpty(p))
    /\ (\A p : Box!GetReturn(p) <=> BoxProofs!GetReturn(p))
    /\ (\A p, m : Box!Put(p, m) <=> BoxProofs!Put(p, m))
    /\ (\A p, m : Box!Get(p, m) <=> BoxProofs!Get(p, m))
    /\ (\A p, m : Box!SendWait(p, m) <=> BoxProofs!SendWait(p, m))
    /\ (\A p, m : Box!RecvWait(p, m) <=> BoxProofs!RecvWait(p, m))
<1>1. \A p, v : Box!SendCall(p, v) <=> BoxProofs!SendCall(p, v)
  BY BoxTests, BoxMoves
     DEF Box!SendCall, BoxProofs!SendCall, Box!ring, BoxProofs!ring, Box!waits, BoxProofs!waits,
         Box!deletion, BoxProofs!deletion
<1>2. \A p : Box!SendFull(p) <=> BoxProofs!SendFull(p)
  BY BoxTests, BoxMoves
     DEF Box!SendFull, BoxProofs!SendFull, Box!ring, BoxProofs!ring, Box!waits, BoxProofs!waits,
         Box!deletion, BoxProofs!deletion
<1>3. \A p : Box!RecvEmpty(p) <=> BoxProofs!RecvEmpty(p)
  BY BoxTests, BoxMoves
     DEF Box!RecvEmpty, BoxProofs!RecvEmpty, Box!ring, BoxProofs!ring,
         Box!waits, BoxProofs!waits, Box!deletion, BoxProofs!deletion
<1>4. \A p : Box!GetReturn(p) <=> BoxProofs!GetReturn(p)
  BY BoxTests, BoxMoves
     DEF Box!GetReturn, BoxProofs!GetReturn, Box!ring, BoxProofs!ring,
         Box!waits, BoxProofs!waits, Box!deletion, BoxProofs!deletion
<1>5. \A p, m : Box!Put(p, m) <=> BoxProofs!Put(p, m)
  BY BoxTests, BoxMoves
     DEF Box!Put, BoxProofs!Put, Box!deletion, BoxProofs!deletion
<1>6. \A p, m : Box!Get(p, m) <=> BoxProofs!Get(p, m)
  BY BoxTests, BoxMoves
     DEF Box!Get, BoxProofs!Get, Box!deletion, BoxProofs!deletion
<1>7. \A p, m : Box!SendWait(p, m) <=> BoxProofs!SendWait(p, m)
  BY BoxTests, BoxMoves DEF Box!SendWait, BoxProofs!SendWait, Box!ring, BoxProofs!ring
<1>8. \A p, m : Box!RecvWait(p, m) <=> BoxProofs!RecvWait(p, m)
  BY BoxTests, BoxMoves DEF Box!RecvWait, BoxProofs!RecvWait, Box!ring, BoxProofs!ring
<1> QED BY <1>1, <1>2, <1>3, <1>4, <1>5, <1>6, <1>7, <1>8

LEMMA BoxOthers ==
    /\ (\A t : Box!Fails(t) <=> BoxProofs!Fails(t))
    /\ (\A t : Box!Timeout(t) <=> BoxProofs!Timeout(t))
    /\ (\A t : Box!Reset(t) <=> BoxProofs!Reset(t))
    /\ (Box!DeleteCheck <=> BoxProofs!DeleteCheck)
    /\ (\A s : Box!DeleteTake(s) <=> BoxProofs!DeleteTake(s))
    /\ (Box!Delete <=> BoxProofs!Delete)
<1>1. \A t : Box!Fails(t) <=> BoxProofs!Fails(t)
  BY BoxTests, BoxMoves
     DEF Box!Fails, BoxProofs!Fails, Box!ring, BoxProofs!ring, Box!deletion, BoxProofs!deletion
<1>2. \A t : Box!Timeout(t) <=> BoxProofs!Timeout(t)
  BY BoxTests, BoxMoves, BoxLibrary
     DEF Box!Timeout, BoxProofs!Timeout, Box!ring, BoxProofs!ring, Box!deletion,
         BoxProofs!deletion, Box!Without, BoxProofs!Without
<1>3. \A t : Box!Reset(t) <=> BoxProofs!Reset(t)
  BY BoxTests, BoxMoves DEF Box!Reset, BoxProofs!Reset, Box!deletion, BoxProofs!deletion
<1>4. /\ (Box!DeleteCheck <=> BoxProofs!DeleteCheck)
      /\ (\A s : Box!DeleteTake(s) <=> BoxProofs!DeleteTake(s))
      /\ (Box!Delete <=> BoxProofs!Delete)
  BY BoxTests DEF Box!DeleteCheck, BoxProofs!DeleteCheck, Box!DeleteTake, BoxProofs!DeleteTake,
     Box!Delete, BoxProofs!Delete, Box!ring, BoxProofs!ring, Box!waits, BoxProofs!waits
<1> QED BY <1>1, <1>2, <1>3, <1>4

LEMMA BoxSteps ==
    /\ (Box!MailboxAssumption <=> BoxProofs!MailboxAssumption)
    /\ (Box!Init <=> BoxProofs!Init) /\ (Box!Next <=> BoxProofs!Next)
    /\ (UNCHANGED Box!vars <=> UNCHANGED BoxProofs!vars)
<1>1. Box!MailboxAssumption <=> BoxProofs!MailboxAssumption
  BY BoxLibrary DEF Box!MailboxAssumption, BoxProofs!MailboxAssumption
<1>2. Box!Init <=> BoxProofs!Init
  BY BoxTests DEF Box!Init, BoxProofs!Init
<1>3. UNCHANGED Box!vars <=> UNCHANGED BoxProofs!vars
  BY DEF Box!vars, BoxProofs!vars, Box!ring, BoxProofs!ring, Box!waits, BoxProofs!waits,
     Box!deletion, BoxProofs!deletion
<1>4. Box!Next <=> BoxProofs!Next
  BY BoxTests, BoxCalls, BoxOthers DEF Box!Next, BoxProofs!Next
<1> QED BY <1>1, <1>2, <1>3, <1>4

\* ... and what the module states.
LEMMA BoxSound ==
    ASSUME BoxInv
    PROVE  Box!TypeOK /\ Box!NobodyForgotten /\ Box!NobodyLeft
<1>1. BoxProofs!MailboxAssumption
  BY InstancesAssumption, BoxSteps
<1>2. BoxProofs!TypeOK
  BY <1>1, BoxProofs!TypesLemma DEF BoxInv
<1>3. Box!TypeOK
  BY <1>2, BoxTests, BoxLibrary DEF Box!TypeOK, BoxProofs!TypeOK
<1>4. BoxProofs!NobodyForgotten /\ BoxProofs!NobodyLeft
  BY <1>1, BoxProofs!InvSays DEF BoxInv
<1>5. \A s : Box!Woken(s) = BoxProofs!Woken(s)
  BY BoxTests, BoxLibrary DEF Box!Woken, BoxProofs!Woken
<1> QED BY <1>3, <1>4, <1>5, BoxTests, BoxLibrary
        DEF Box!NobodyForgotten, BoxProofs!NobodyForgotten, Box!NobodyLeft, BoxProofs!NobodyLeft

-----------------------------------------------------------------------------
(* The objects side by side                                                 *)

\* Each part keeps the invariant of its object.
Queued(q, f) == part = "queue" => QueueInv(q, f)
PartInv ==
    /\ part \in {"queue", "box", "count", "flags", "pool"}
    /\ \E q, f : Queued(q, f)
    /\ part = "box" => BoxInv
    /\ part = "flags" => FlagsInv
    /\ part = "pool" => PoolInv

LEMMA PartStarts ==
    ASSUME AllInit
    PROVE  PartInv
<1>1. part \in {"queue", "box", "count", "flags", "pool"}
  BY DEF AllInit
<1>2. \E q, f : Queued(q, f)
  <2>1. part = "queue" => Queue!Init
    BY DEF AllInit
  <2> QED BY <2>1, QInit DEF Queued
<1>3. part = "box" => BoxInv
  <2>1. part = "box" => BoxProofs!Init
    BY BoxSteps DEF AllInit
  <2>2. BoxProofs!MailboxAssumption
    BY InstancesAssumption, BoxSteps
  <2> QED BY <2>1, <2>2, BoxProofs!InitStep, BoxProofs!MoodsInit DEF BoxInv
<1>4. part = "flags" => FlagsInv
  BY FlagsStarts DEF AllInit
<1>5. part = "pool" => PoolInv
  <2>1. part = "pool" => Area!Init
    BY DEF AllInit
  <2> QED BY <2>1, InstancesAssumption, PoolStarts
<1> QED BY <1>1, <1>2, <1>3, <1>4, <1>5 DEF PartInv

\* In every step the object of the part takes one of its own, or waits.
LEMMA PartMoves ==
    ASSUME [AllNext]_allVars
    PROVE  /\ part' = part
           /\ part = "queue" => Queue!Next \/ UNCHANGED Queue!vars
           /\ part = "box" => Box!Next \/ UNCHANGED Box!vars
           /\ part = "flags" => Flags!Next \/ UNCHANGED Flags!vars
           /\ part = "pool" => Area!Next \/ UNCHANGED Area!vars
           /\ [Next]_vars
           /\ part # "count" => UNCHANGED vars
<1>1. CASE AllNext
  BY <1>1 DEF AllNext, QueueStep, BoxStep, CountStep, FlagsStep, PoolStep
<1>2. CASE UNCHANGED allVars
  <2>1. /\ UNCHANGED <<part, vars>> /\ UNCHANGED <<queueOnly, boxOnly, channel, bitsOnly>>
        /\ UNCHANGED <<blocksOnly, inCall, mode, again, suspended, common>>
    BY <1>2 DEF allVars
  <2>2. UNCHANGED Queue!vars
    BY <2>1 DEF queueOnly, channel, common, Queue!vars, Queue!lists,
       Queue!waits, Queue!deletion
  <2>3. UNCHANGED Box!vars
    BY <2>1 DEF boxOnly, channel, common, Box!vars, Box!ring, Box!waits, Box!deletion
  <2>4. UNCHANGED Flags!vars
    BY <2>1 DEF bitsOnly, common, Flags!vars, Flags!request
  <2>5. UNCHANGED Area!vars
    BY <2>1 DEF blocksOnly, common, Area!vars, Area!blocks, Area!waits
  <2> QED BY <2>1, <2>2, <2>3, <2>4, <2>5
<1> QED BY <1>1, <1>2

LEMMA PartSteps ==
    ASSUME PartInv, [AllNext]_allVars
    PROVE  PartInv'
<1>1. /\ part' = part
      /\ part = "queue" => Queue!Next \/ UNCHANGED Queue!vars
      /\ part = "box" => Box!Next \/ UNCHANGED Box!vars
      /\ part = "flags" => Flags!Next \/ UNCHANGED Flags!vars
      /\ part = "pool" => Area!Next \/ UNCHANGED Area!vars
  BY PartMoves
<1>2. (\E q, f : Queued(q, f))'
  <2>1. PICK q, f : Queued(q, f)
    BY DEF PartInv
  <2>2. ASSUME part = "queue" PROVE \E g, k : QueueInv(g, k)'
    <3>1. QueueInv(q, f)
      BY <2>1, <2>2 DEF Queued
    <3>2. Queue!Next \/ UNCHANGED Queue!vars
      BY <1>1, <2>2
    <3> QED BY <3>1, <3>2, QueueSteps
  <2>3. CASE part = "queue"
    <3>1. PICK g, k : QueueInv(g, k)'
      BY <2>2, <2>3
    <3>2. Queued(g, k)'
      BY <3>1 DEF Queued
    <3> QED BY <3>2
  <2>4. CASE part # "queue"
    <3>1. Queued(q, f)'
      BY <1>1, <2>4 DEF Queued
    <3> QED BY <3>1
  <2> QED BY <2>3, <2>4
<1>3. part = "box" => BoxInv'
  <2> SUFFICES ASSUME part = "box" PROVE BoxInv'
    OBVIOUS
  <2>1. BoxProofs!Next \/ UNCHANGED BoxProofs!vars
    BY <1>1, BoxSteps
  <2>2. BoxProofs!MailboxAssumption
    BY InstancesAssumption, BoxSteps
  <2>3. BoxProofs!Inv /\ BoxProofs!Moods
    BY DEF PartInv, BoxInv
  <2>4. BoxProofs!Inv'
    BY <2>1, <2>2, <2>3, BoxProofs!NextStep
  <2>5. BoxProofs!Moods'
    BY <2>1, <2>2, <2>3, BoxProofs!MoodsStep
  <2> QED BY <2>4, <2>5 DEF BoxInv
<1>4. part = "flags" => FlagsInv'
  BY <1>1, FlagsSteps, FlagsStays DEF PartInv
<1>5. part = "pool" => PoolInv'
  <2> SUFFICES ASSUME part = "pool" PROVE PoolInv'
    OBVIOUS
  <2>1. Area!MemoryPoolAssumption /\ PoolInv
    BY InstancesAssumption DEF PartInv
  <2> QED BY <1>1, <2>1, PoolSteps, PoolStays
<1> QED BY <1>1, <1>2, <1>3, <1>4, <1>5 DEF PartInv

LEMMA PartHolds == AllSpec => []PartInv
<1>1. AllInit => PartInv
  BY PartStarts
<1>2. PartInv /\ [AllNext]_allVars => PartInv'
  BY PartSteps
<1> QED BY <1>1, <1>2, PTL DEF AllSpec

\* Semaphore behaves as on its own.
LEMMA CountsAlone == AllSpec => Spec
<1>1. AllInit => Init
  BY DEF AllInit
<1>2. [AllNext]_allVars => [Next]_vars
  BY PartMoves
<1> QED BY <1>1, <1>2, PTL DEF AllSpec, Spec

-----------------------------------------------------------------------------
(* The theorems                                                             *)

\* The fields of every object have their types, the nodes of a message queue are
\* in its list, free or in the hands of one call, and the blocks of a pool are
\* free or given, each once, whatever sections of calls, time-outs, resets and
\* deletion come between.
THEOREM FieldsHold == AllSpec => []FieldsAgree
<1>1. PartInv /\ TypeOK => FieldsAgree
  <2> SUFFICES ASSUME PartInv, TypeOK PROVE FieldsAgree
    OBVIOUS
  <2>1. part = "queue" => Queue!TypeOK /\ Queue!NodesPartitioned
    BY QueueSound DEF PartInv, Queued
  <2>2. part = "box" => Box!TypeOK
    BY BoxSound DEF PartInv
  <2>3. part = "flags" => Flags!TypeOK
    BY FlagsSound DEF PartInv
  <2>4. part = "pool" => Area!TypeOK /\ Area!BlocksPartitioned
    BY InstancesAssumption, PoolSound DEF PartInv
  <2>5. part \in {"queue", "box", "count", "flags", "pool"}
    BY DEF PartInv
  <2>6. AllTyped
    BY <2>1, <2>2, <2>3, <2>4, <2>5 DEF AllTyped
  <2> QED BY <2>1, <2>4, <2>6 DEF FieldsAgree
<1>2. SemaphoreAssumption
  BY InstancesAssumption
<1> QED BY <1>1, <1>2, PartHolds, CountsAlone, TypedHolds, PTL

\* No thread is suspended beside what it waits for: every message, mail, free
\* word and free block that is there while somebody waits for one is spoken for
\* by a thread that was woken, and no waiter's bits are set.
THEOREM NobodyStrands == AllSpec => []NobodyStranded
<1>1. PartInv => NobodyStranded
  <2> SUFFICES ASSUME PartInv PROVE NobodyStranded
    OBVIOUS
  <2>1. part = "queue" => Queue!WaitersServed
    BY QueueSound DEF PartInv, Queued
  <2>2. part = "box" => Box!NobodyForgotten
    BY BoxSound DEF PartInv
  <2>3. part = "flags" => Flags!NobodySatisfied
    BY FlagsSound DEF PartInv
  <2>4. part = "pool" => Area!NobodyForgotten
    BY InstancesAssumption, PoolSound DEF PartInv
  <2> QED BY <2>1, <2>2, <2>3, <2>4 DEF NobodyStranded
<1> QED BY <1>1, PartHolds, PTL

\* The deletion of each object wakes all who wait on it, but those who were woken
\* before for something, came too late, and waited again while it was under way.
THEOREM DeletionLeaves == AllSpec => []DeletedLeft
<1>1. PartInv /\ NobodyLeft => DeletedLeft
  <2> SUFFICES ASSUME PartInv, NobodyLeft PROVE DeletedLeft
    OBVIOUS
  <2>1. part = "queue" => Queue!NobodyLeft
    BY QueueSound DEF PartInv, Queued
  <2>2. part = "box" => Box!NobodyLeft
    BY BoxSound DEF PartInv
  <2>3. part = "flags" => Flags!NobodyLeft
    BY FlagsSound DEF PartInv
  <2>4. part = "pool" => Area!NobodyLeft
    BY InstancesAssumption, PoolSound DEF PartInv
  <2> QED BY <2>1, <2>2, <2>3, <2>4 DEF DeletedLeft
<1>2. SemaphoreAssumption
  BY InstancesAssumption
<1> QED BY <1>1, <1>2, PartHolds, CountsAlone, DeletedEmpty, PTL

\* One rt_event_send may satisfy several waiters: each gets bits it asked for, all
\* of them if it asked so, and bits that one clears no other clearing one gets.
THEOREM HandsOut == AllSpec => BitsHandedOut
<1>1. PartInv /\ [AllNext]_allVars => [part = "flags" => Flags!HandedOut]_allVars
  <2> SUFFICES ASSUME PartInv, [AllNext]_allVars, part = "flags"
               PROVE  Flags!HandedOut \/ UNCHANGED allVars
    OBVIOUS
  <2>1. FlagsInv
    BY DEF PartInv
  <2>2. CASE UNCHANGED allVars
    BY <2>2
  <2>3. CASE AllNext
    <3>1. Flags!Next
      BY <2>3 DEF AllNext, QueueStep, BoxStep, CountStep, FlagsStep, PoolStep
    <3> QED BY <2>1, <3>1, FlagsSteps
  <2> QED BY <2>2, <2>3
<1> QED BY <1>1, PartHolds, PTL DEF AllSpec, BitsHandedOut

\* NoUnitLost and InTurn where the other objects are.
LEMMA UnitsHere == AllSpec => []UnitsKept /\ FirstServed
<1>1. SemaphoreAssumption
  BY InstancesAssumption
<1> QED BY <1>1, CountsAlone, NoUnitLost, InTurn, PTL

-----------------------------------------------------------------------------
(* Message queue and mailbox are one channel                                *)

\* Passes on the contents of the object is Channel's next-state relation.
LEMMA FifoPasses ==
    Passes(Contents, Contents', Offered, Offered', Received, Received') => Fifo!Next
BY DEF Passes, Users, Fifo!Next, Fifo!Offer, Fifo!Put, Fifo!PutFirst, Fifo!Refuse, Fifo!Get,
       Fifo!Return, Fifo!Clear

LEMMA BoxPasses ==
    ASSUME BoxProofs!Fifo!Next
    PROVE  Passes(BoxProofs!Mails, BoxProofs!Mails', arg, arg', got, got')
BY DEF Passes, Users, BoxProofs!Procs, BoxProofs!Fifo!Next, BoxProofs!Fifo!Offer,
       BoxProofs!Fifo!Put, BoxProofs!Fifo!PutFirst, BoxProofs!Fifo!Refuse, BoxProofs!Fifo!Get,
       BoxProofs!Fifo!Return, BoxProofs!Fifo!Clear

\* What the channel's variables are in each part.
QueueShown ==
    \A q, f : part = "queue" /\ QueueInv(q, f)
             => Contents = Texts(data, q) /\ Offered = arg /\ Received = Handed
LEMMA ShowsQueue == QueueShown
<1> SUFFICES ASSUME NEW q, NEW f, part = "queue", QueueInv(q, f)
             PROVE  /\ Contents = Texts(data, q) /\ Offered = arg
                    /\ Received = Handed
  BY DEF QueueShown
<1>1. Queue!Chain(head) = q
  BY QueueChains
<1> QED BY <1>1 DEF Contents, Offered, Received, Handed, Hands, Texts, Users

LEMMA ShowsBox ==
    part = "box" => Contents = BoxProofs!Mails /\ Offered = arg /\ Received = got
BY DEF Contents, Offered, Received, BoxProofs!Mails

LEMMA ShowsNothing ==
    part \notin {"queue", "box"}
    => Contents = <<>> /\ Offered = Nothing /\ Received = Nothing
BY DEF Contents, Offered, Received

\* The same after a step.
LEMMA ShowsNext ==
    /\ (\A q, f : part' = "queue" /\ QueueInv(q, f)'
                  => Contents' = Texts(data', q) /\ Offered' = arg' /\ Received' = Handed')
    /\ (part' = "box" => Contents' = BoxProofs!Mails' /\ Offered' = arg' /\ Received' = got')
    /\ (part' \notin {"queue", "box"}
        => Contents' = <<>> /\ Offered' = Nothing' /\ Received' = Nothing')
<1>1. QueueShown'
  BY ShowsQueue, PTL
<1>2. (part = "box" => Contents = BoxProofs!Mails /\ Offered = arg /\ Received = got)'
  BY ShowsBox, PTL
<1>3. (part \notin {"queue", "box"}
       => Contents = <<>> /\ Offered = Nothing /\ Received = Nothing)'
  BY ShowsNothing, PTL
<1> QED BY <1>1, <1>2, <1>3 DEF QueueShown

\* In every step of the queue or the mailbox the channel passes on or stays.
LEMMA FifoSteps ==
    ASSUME PartInv, [AllNext]_allVars
    PROVE  [Fifo!Next]_(Fifo!vars)
<1>1. /\ part' = part
      /\ part = "queue" => Queue!Next \/ UNCHANGED Queue!vars
      /\ part = "box" => Box!Next \/ UNCHANGED Box!vars
  BY PartMoves
<1>2. CASE part = "queue"
  <2>1. PICK q, f : QueueInv(q, f)
    BY <1>2 DEF PartInv, Queued
  <2>2. PICK g, k : QueueInv(g, k)' /\ Passed(q, g)
    BY <1>1, <1>2, <2>1, QueueSteps
  <2>3. Contents = Texts(data, q) /\ Offered = arg /\ Received = Handed
    BY <1>2, <2>1, ShowsQueue DEF QueueShown
  <2>4. Contents' = Texts(data', g) /\ Offered' = arg' /\ Received' = Handed'
    BY <1>1, <1>2, <2>2, ShowsNext
  <2>5. CASE Passes(Texts(data, q), Texts(data', g), arg, arg', Handed, Handed')
    <3>1. Passes(Contents, Contents', Offered, Offered', Received, Received')
      BY <2>3, <2>4, <2>5
    <3> QED BY <3>1, FifoPasses
  <2>6. CASE Texts(data', g) = Texts(data, q) /\ arg' = arg /\ Handed' = Handed
    BY <2>3, <2>4, <2>6 DEF Fifo!vars
  <2> QED BY <2>2, <2>5, <2>6 DEF Passed
<1>3. CASE part = "box"
  <2>1. BoxProofs!Next \/ UNCHANGED BoxProofs!vars
    BY <1>1, <1>3, BoxSteps
  <2>2. BoxProofs!MailboxAssumption /\ BoxProofs!Inv
    BY <1>3, InstancesAssumption, BoxSteps DEF PartInv, BoxInv
  <2>3. BoxProofs!Fifo!Next \/ UNCHANGED BoxProofs!Fifo!vars
    BY <2>1, <2>2, BoxProofs!NextStep
  <2>4. /\ Contents = BoxProofs!Mails /\ Offered = arg /\ Received = got
        /\ Contents' = BoxProofs!Mails' /\ Offered' = arg' /\ Received' = got'
    BY <1>1, <1>3, ShowsBox, ShowsNext
  <2>5. CASE BoxProofs!Fifo!Next
    <3>1. Passes(BoxProofs!Mails, BoxProofs!Mails', arg, arg', got, got')
      BY <2>5, BoxPasses
    <3>2. Passes(Contents, Contents', Offered, Offered', Received, Received')
      BY <2>4, <3>1
    <3> QED BY <3>2, FifoPasses
  <2>6. CASE UNCHANGED BoxProofs!Fifo!vars
    BY <2>4, <2>6 DEF BoxProofs!Fifo!vars, Fifo!vars
  <2> QED BY <2>3, <2>5, <2>6
<1>4. CASE part \notin {"queue", "box"}
  BY <1>1, <1>4, ShowsNothing, ShowsNext DEF Fifo!vars, Nothing
<1> QED BY <1>2, <1>3, <1>4

LEMMA FifoStarts ==
    ASSUME AllInit
    PROVE  Fifo!Init
<1>1. CASE part = "queue"
  <2>1. Queue!Init
    BY <1>1 DEF AllInit
  <2>2. PICK f : QueueInv(<<>>, f)
    BY <2>1, QInit
  <2>3. Contents = Texts(data, <<>>) /\ Offered = arg /\ Received = Handed
    BY <1>1, <2>2, ShowsQueue DEF QueueShown
  <2>4. Texts(data, <<>>) = <<>>
    BY DEF Texts
  <2>5. /\ arg = [p \in Users |-> None] /\ buf = [p \in Users |-> None]
        /\ pc = [p \in Users |-> "idle"]
    BY <2>1 DEF Queue!Init, Queue!Procs, Users
  <2>6. Handed = [p \in Users |-> None]
    BY <2>5 DEF Handed, Hands
  <2> QED BY <2>3, <2>4, <2>5, <2>6 DEF Fifo!Init, Users
<1>2. CASE part = "box"
  <2>1. BoxProofs!Init /\ BoxProofs!MailboxAssumption
    BY <1>2, InstancesAssumption, BoxSteps DEF AllInit
  <2>2. BoxProofs!Fifo!Init
    BY <2>1, BoxProofs!InitStep
  <2> QED BY <1>2, <2>2, ShowsBox DEF BoxProofs!Fifo!Init, Fifo!Init, BoxProofs!Procs
<1>3. CASE part \notin {"queue", "box"}
  BY <1>3, ShowsNothing DEF Fifo!Init, Nothing
<1> QED BY <1>1, <1>2, <1>3

\* A message queue and a mailbox, of any size and with any users, are the same
\* bounded FIFO: what is sent is received once and in its order, urgent messages
\* first, and each receiver is handed the value it took and no other.
THEOREM BothAreFifo == AllSpec => ImplementsFifo
<1>1. AllInit => Fifo!Init
  BY FifoStarts
<1>2. PartInv /\ [AllNext]_allVars => [Fifo!Next]_(Fifo!vars)
  BY FifoSteps
<1> QED BY <1>1, <1>2, PartHolds, PTL DEF AllSpec, ImplementsFifo, Fifo!Spec
=============================================================================
