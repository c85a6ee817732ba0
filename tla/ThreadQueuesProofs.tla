------------------------ MODULE ThreadQueuesProofs ------------------------
(***************************************************************************)
(* Lemmas about the list operations of ThreadQueues: what each one does to *)
(* a sound value of the thread lists.                                      *)
(***************************************************************************)
EXTENDS ThreadQueues, SequenceTheorems, FiniteSetTheorems, WellFoundedInduction, TLAPS

-----------------------------------------------------------------------------
(* One list                                                                 *)

\* rt_list_remove on one list: those behind the thread move up.
LEMMA UnlinkPlace ==
    ASSUME NEW l \in Seq(Threads), NEW t \in Range(l)
    PROVE  /\ IndexOf(l, t) \in 1..Len(l) /\ l[IndexOf(l, t)] = t
           /\ Unlink(l, t) \in Seq(Threads) /\ Len(Unlink(l, t)) = Len(l) - 1
           /\ \A i \in 1..Len(l) - 1 :
                 Unlink(l, t)[i] = IF i < IndexOf(l, t) THEN l[i] ELSE l[i+1]
<1> DEFINE k == IndexOf(l, t)
           r == Unlink(l, t)
<1>1. k \in 1..Len(l) /\ l[k] = t
  <2>1. \E i \in DOMAIN l : l[i] = t
    BY DEF Range
  <2> QED BY <2>1 DEF IndexOf
<1> DEFINE u == SubSeq(l, 1, k-1)
           v == SubSeq(l, k+1, Len(l))
<1>2. r = u \o v
  BY DEF Unlink, RemoveAt
<1> HIDE DEF k, r
<1>3. /\ u \in Seq(Threads) /\ Len(u) = k - 1
      /\ v \in Seq(Threads) /\ Len(v) = Len(l) - k
      /\ \A i \in 1..(k-1) : u[i] = l[i]
      /\ \A i \in 1..(Len(l) - k) : v[i] = l[i+k]
  BY <1>1, SubSeqProperties
<1> HIDE DEF u, v
<1>4. r \in Seq(Threads) /\ Len(r) = Len(l) - 1
  <2>1. r \in Seq(Threads) /\ Len(r) = Len(u) + Len(v)
    BY <1>2, <1>3, ConcatProperties
  <2> QED BY <2>1, <1>1, <1>3
<1>5. \A i \in 1..Len(r) : r[i] = IF i < k THEN l[i] ELSE l[i+1]
  <2> TAKE i \in 1..Len(r)
  <2>1. r[i] = IF i <= Len(u) THEN u[i] ELSE v[i - Len(u)]
    BY <1>2, <1>3, <1>4, ConcatProperties
  <2>2. CASE i < k
    <3>1. i \in 1..(k-1)
      BY <2>2, <1>1, <1>4
    <3> QED BY <2>1, <2>2, <3>1, <1>1, <1>3
  <2>3. CASE ~(i < k)
    <3>1. i - (k-1) \in 1..(Len(l) - k) /\ (i - (k-1)) + k = i + 1
      BY <1>1, <1>4, <2>3
    <3>2. r[i] = v[i - (k-1)]
      BY <2>1, <2>3, <1>1, <1>3, <1>4
    <3> QED BY <3>1, <3>2, <1>3, <2>3
  <2> QED BY <2>2, <2>3
<1> QED BY <1>1, <1>4, <1>5 DEF k, r

\* The thread is gone, the others stay, in order.
LEMMA UnlinkLemma ==
    ASSUME NEW l \in Seq(Threads), NEW t, Distinct(l)
    PROVE  /\ Unlink(l, t) \in Seq(Threads)
           /\ Distinct(Unlink(l, t))
           /\ Range(Unlink(l, t)) = Range(l) \ {t}
<1>1. CASE t \notin Range(l)
  BY <1>1 DEF Unlink
<1>2. CASE t \in Range(l)
  <2> DEFINE k == IndexOf(l, t)
             r == Unlink(l, t)
  <2>1. k \in 1..Len(l) /\ l[k] = t
    BY <1>2, UnlinkPlace
  <2>4. r \in Seq(Threads) /\ Len(r) = Len(l) - 1
    BY <1>2, UnlinkPlace
  <2>5. \A i \in 1..Len(r) : r[i] = IF i < k THEN l[i] ELSE l[i+1]
    BY <1>2, <2>4, UnlinkPlace
  <2> HIDE DEF k, r
  <2>6. Distinct(r)
    <3> SUFFICES ASSUME NEW i \in 1..Len(r), NEW j \in 1..Len(r), r[i] = r[j] PROVE i = j
      BY <2>4 DEF Distinct
    <3> DEFINE a == IF i < k THEN i ELSE i+1
               b == IF j < k THEN j ELSE j+1
    <3>1. a \in DOMAIN l /\ b \in DOMAIN l
      BY <2>1, <2>4
    <3>2. l[a] = l[b]
      BY <2>5
    <3>3. a = b
      BY <3>1, <3>2 DEF Distinct
    <3> QED BY <3>3, <2>1, <2>4
  <2>7. Range(r) = Range(l) \ {t}
    <3>1. ASSUME NEW x \in Range(l) \ {t} PROVE x \in Range(r)
      <4>1. PICK i \in 1..Len(l) : l[i] = x
        BY DEF Range
      <4>2. CASE i < k
        BY <4>1, <4>2, <2>1, <2>4, <2>5 DEF Range
      <4>3. CASE i > k
        <5>1. i-1 \in 1..Len(r) /\ ~(i - 1 < k) /\ (i-1)+1 = i
          BY <4>1, <4>3, <2>1, <2>4
        <5>2. r[i-1] = x
          BY <5>1, <4>1, <2>5
        <5> QED BY <5>1, <5>2, <2>4 DEF Range
      <4> QED BY <4>1, <4>2, <4>3, <2>1
    <3>2. ASSUME NEW x \in Range(r) PROVE x \in Range(l) \ {t}
      <4>1. PICK i \in 1..Len(r) : r[i] = x
        BY <2>4 DEF Range
      <4>2. CASE i < k
        <5>1. i \in 1..Len(l) /\ l[i] = x /\ i # k
          BY <4>1, <4>2, <2>1, <2>4, <2>5
        <5> QED BY <5>1, <2>1 DEF Range, Distinct
      <4>3. CASE ~(i < k)
        <5>1. i+1 \in 1..Len(l) /\ l[i+1] = x /\ i+1 # k
          BY <4>1, <4>3, <2>1, <2>4, <2>5
        <5> QED BY <5>1, <2>1 DEF Range, Distinct
      <4> QED BY <4>2, <4>3
    <3> QED BY <3>1, <3>2
  <2> QED BY <2>4, <2>6, <2>7 DEF r
<1> QED BY <1>1, <1>2

\* rt_list_insert_before the head: the thread is last, and there once if it was
\* on no list.
LEMMA AppendLemma ==
    ASSUME NEW l \in Seq(Threads), NEW t \in Threads, Distinct(l), t \notin Range(l)
    PROVE  /\ Append(l, t) \in Seq(Threads) /\ Append(l, t) # <<>>
           /\ Distinct(Append(l, t))
           /\ Range(Append(l, t)) = Range(l) \union {t}
<1> DEFINE r == Append(l, t)
<1>1. r \in Seq(Threads) /\ Len(r) = Len(l) + 1 /\ r[Len(l) + 1] = t
      /\ \A i \in 1..Len(l) : r[i] = l[i]
  OBVIOUS
<1> HIDE DEF r
<1>2. \A i \in 1..Len(l) : l[i] # t
  BY DEF Range
<1>3. Distinct(r)
  BY <1>1, <1>2 DEF Distinct
<1>4. Range(r) = Range(l) \union {t}
  <2>1. ASSUME NEW x \in Range(r) PROVE x \in Range(l) \union {t}
    <3>1. PICK i \in 1..(Len(l) + 1) : r[i] = x
      BY <1>1 DEF Range
    <3> QED BY <3>1, <1>1 DEF Range
  <2>2. ASSUME NEW x \in Range(l) PROVE x \in Range(r)
    <3>1. PICK i \in 1..Len(l) : l[i] = x
      BY DEF Range
    <3> QED BY <3>1, <1>1 DEF Range
  <2>3. t \in Range(r)
    BY <1>1 DEF Range
  <2> QED BY <2>1, <2>2, <2>3
<1> QED BY <1>1, <1>3, <1>4 DEF r

\* rt_list_insert_after the head.
LEMMA PrependLemma ==
    ASSUME NEW l \in Seq(Threads), NEW t \in Threads, Distinct(l), t \notin Range(l)
    PROVE  /\ <<t>> \o l \in Seq(Threads)
           /\ Distinct(<<t>> \o l)
           /\ Range(<<t>> \o l) = Range(l) \union {t}
<1> DEFINE r == <<t>> \o l
<1>1. r \in Seq(Threads) /\ Len(r) = Len(l) + 1 /\ r[1] = t
      /\ \A i \in 2..(Len(l) + 1) : r[i] = l[i-1]
  OBVIOUS
<1> HIDE DEF r
<1>2. \A i \in 1..Len(l) : l[i] # t
  BY DEF Range
<1>3. Distinct(r)
  <2> SUFFICES ASSUME NEW i \in 1..Len(r), NEW j \in 1..Len(r), r[i] = r[j] PROVE i = j
    BY <1>1 DEF Distinct
  <2>1. CASE i = 1 /\ j # 1
    <3>1. j-1 \in 1..Len(l) /\ l[j-1] = t
      BY <1>1, <2>1
    <3> QED BY <3>1, <1>2
  <2>2. CASE i # 1 /\ j = 1
    <3>1. i-1 \in 1..Len(l) /\ l[i-1] = t
      BY <1>1, <2>2
    <3> QED BY <3>1, <1>2
  <2>3. CASE i # 1 /\ j # 1
    <3>1. i-1 \in DOMAIN l /\ j-1 \in DOMAIN l /\ l[i-1] = l[j-1]
      BY <1>1, <2>3
    <3>2. i-1 = j-1
      BY <3>1 DEF Distinct
    <3> QED BY <3>2, <1>1
  <2> QED BY <2>1, <2>2, <2>3
<1>4. Range(r) = Range(l) \union {t}
  <2>1. ASSUME NEW x \in Range(r) PROVE x \in Range(l) \union {t}
    <3>1. PICK i \in 1..(Len(l) + 1) : r[i] = x
      BY <1>1 DEF Range
    <3>2. CASE i = 1
      BY <3>1, <3>2, <1>1
    <3>3. CASE i # 1
      <4>1. i-1 \in DOMAIN l /\ l[i-1] = x
        BY <3>1, <3>3, <1>1
      <4> QED BY <4>1 DEF Range
    <3> QED BY <3>2, <3>3
  <2>2. ASSUME NEW x \in Range(l) PROVE x \in Range(r)
    <3>1. PICK i \in 1..Len(l) : l[i] = x
      BY DEF Range
    <3>2. i+1 \in 2..(Len(l)+1) /\ (i+1)-1 = i
      OBVIOUS
    <3>3. r[i+1] = x /\ i+1 \in DOMAIN r
      BY <3>1, <3>2, <1>1
    <3> QED BY <3>3 DEF Range
  <2>3. t \in Range(r)
    BY <1>1 DEF Range
  <2> QED BY <2>1, <2>2, <2>3
<1> QED BY <1>1, <1>3, <1>4 DEF r

\* A list is empty when nothing is on it.
LEMMA EmptyLemma ==
    ASSUME NEW l \in Seq(Threads)
    PROVE  /\ l = <<>> <=> Range(l) = {}
           /\ l # <<>> => Head(l) \in Range(l)
           /\ Range(l) \subseteq Threads
<1>1. l # <<>> => Head(l) \in Range(l)
  <2> SUFFICES ASSUME l # <<>> PROVE Head(l) \in Range(l)
    OBVIOUS
  <2>1. 1 \in DOMAIN l /\ Head(l) = l[1]
    OBVIOUS
  <2> QED BY <2>1 DEF Range
<1>2. l = <<>> => Range(l) = {}
  BY DEF Range
<1>3. Range(l) \subseteq Threads
  BY DEF Range
<1> QED BY <1>1, <1>2, <1>3
-----------------------------------------------------------------------------
(* All lists.  Each lemma says what the operation does to the fields and to  *)
(* the sets of threads on the lists; the soundness lemmas below use only     *)
(* that.                                                                     *)

LEMMA QueuesIntro ==
    ASSUME NEW stat \in [Threads -> Stats], NEW prio \in [Threads -> Prios],
           NEW ready \in [Prios -> Seq(Threads)], NEW group \in SUBSET Prios,
           NEW wait \in [Objects -> Seq(Threads)], NEW defunct \in Seq(Threads)
    PROVE  [stat |-> stat, prio |-> prio, ready |-> ready, group |-> group,
            wait |-> wait, defunct |-> defunct] \in Queues
  BY DEF Queues

\* rt_list_remove takes t off every list and touches nothing else.
TakenOff(q, r, t) ==
    /\ r.stat = q.stat /\ r.prio = q.prio /\ r.group = q.group
    /\ \A p \in Prios : /\ Distinct(r.ready[p])
                       /\ Range(r.ready[p]) = Range(q.ready[p]) \ {t}
    /\ \A o \in Objects : /\ Distinct(r.wait[o])
                         /\ Range(r.wait[o]) = Range(q.wait[o]) \ {t}
    /\ Distinct(r.defunct) /\ Range(r.defunct) = Range(q.defunct) \ {t}

LEMMA UnlinkedLemma ==
    ASSUME NEW q \in Queues, ListsSound(q), NEW t \in Threads, NEW r, r = Unlinked(q, t)
    PROVE  r \in Queues /\ TakenOff(q, r, t)
<1>1. r = [stat |-> q.stat, prio |-> q.prio, group |-> q.group,
           ready |-> [p \in Prios |-> Unlink(q.ready[p], t)],
           wait |-> [o \in Objects |-> Unlink(q.wait[o], t)],
           defunct |-> Unlink(q.defunct, t)]
  BY DEF Unlinked, Queues
<1>2. \A p \in Prios : /\ Unlink(q.ready[p], t) \in Seq(Threads)
                      /\ Distinct(Unlink(q.ready[p], t))
                      /\ Range(Unlink(q.ready[p], t)) = Range(q.ready[p]) \ {t}
  <2> TAKE p \in Prios
  <2>1. q.ready[p] \in Seq(Threads) /\ Distinct(q.ready[p])
    BY DEF Queues, ListsSound
  <2> QED BY <2>1, UnlinkLemma
<1>3. \A o \in Objects : /\ Unlink(q.wait[o], t) \in Seq(Threads)
                        /\ Distinct(Unlink(q.wait[o], t))
                        /\ Range(Unlink(q.wait[o], t)) = Range(q.wait[o]) \ {t}
  <2> TAKE o \in Objects
  <2>1. q.wait[o] \in Seq(Threads) /\ Distinct(q.wait[o])
    BY DEF Queues, ListsSound
  <2> QED BY <2>1, UnlinkLemma
<1>4. /\ Unlink(q.defunct, t) \in Seq(Threads)
      /\ Distinct(Unlink(q.defunct, t))
      /\ Range(Unlink(q.defunct, t)) = Range(q.defunct) \ {t}
  <2>1. q.defunct \in Seq(Threads) /\ Distinct(q.defunct)
    BY DEF Queues, ListsSound
  <2> QED BY <2>1, UnlinkLemma
<1>5. /\ q.stat \in [Threads -> Stats] /\ q.prio \in [Threads -> Prios]
      /\ q.group \in SUBSET Prios
  BY DEF Queues
<1>6. r \in Queues
  BY <1>1, <1>2, <1>3, <1>4, <1>5 DEF Queues
<1>7. /\ r.stat = q.stat /\ r.prio = q.prio /\ r.group = q.group
      /\ r.ready = [p \in Prios |-> Unlink(q.ready[p], t)]
      /\ r.wait = [o \in Objects |-> Unlink(q.wait[o], t)]
      /\ r.defunct = Unlink(q.defunct, t)
  BY <1>1
<1>8. \A p \in Prios : /\ Distinct(r.ready[p])
                      /\ Range(r.ready[p]) = Range(q.ready[p]) \ {t}
  BY <1>2, <1>7
<1>9. \A o \in Objects : /\ Distinct(r.wait[o])
                        /\ Range(r.wait[o]) = Range(q.wait[o]) \ {t}
  BY <1>3, <1>7
<1> QED BY <1>4, <1>6, <1>7, <1>8, <1>9 DEF TakenOff

\* t is on no list.
Free(q, t) == /\ \A p \in Prios : t \notin Range(q.ready[p])
              /\ \A o \in Objects : t \notin Range(q.wait[o])
              /\ t \notin Range(q.defunct)

\* Taking a thread off the lists that is on none changes nothing.
LEMMA UnlinkedFree ==
    ASSUME NEW q \in Queues, NEW t \in Threads, Free(q, t)
    PROVE  Unlinked(q, t) = q
<1>1. [p \in Prios |-> Unlink(q.ready[p], t)] = q.ready
  BY DEF Queues, Free, Unlink
<1>2. [o \in Objects |-> Unlink(q.wait[o], t)] = q.wait
  BY DEF Queues, Free, Unlink
<1>3. Unlink(q.defunct, t) = q.defunct
  BY DEF Free, Unlink
<1> QED BY <1>1, <1>2, <1>3 DEF Unlinked, Queues

\* Where the status says a thread cannot be linked.
LEMMA FreeByStatus ==
    ASSUME NEW q \in Queues, QueuesSound(q), NEW t \in Threads
    PROVE  /\ q.stat[t] = "init" => Free(q, t)
           /\ q.stat[t] = "suspend" /\ (\A o \in Objects : t \notin Range(q.wait[o]))
                 => Free(q, t)
           /\ q.stat[t] = "close" /\ t \notin Range(q.defunct) => Free(q, t)
  BY DEF QueuesSound, ListsSound, Free

\* rt_schedule_insert_thread on a thread that is on no list.
LEMMA InsertLemma ==
    ASSUME NEW q \in Queues, QueuesSound(q), NEW t \in Threads, Free(q, t),
           NEW r, r = InsertThread(q, t)
    PROVE  /\ r \in Queues /\ QueuesSound(r)
           /\ r.stat = [q.stat EXCEPT ![t] = "ready"]
           /\ r.prio = q.prio /\ r.wait = q.wait /\ r.defunct = q.defunct
<1> DEFINE p == q.prio[t]
           l == Append(q.ready[p], t)
<1>1. p \in Prios /\ q.ready[p] \in Seq(Threads)
  BY DEF Queues
<1>2. /\ l \in Seq(Threads) /\ l # <<>> /\ Distinct(l)
      /\ Range(l) = Range(q.ready[p]) \union {t}
  BY <1>1, AppendLemma DEF QueuesSound, ListsSound, Free
<1>3. r = [stat |-> [q.stat EXCEPT ![t] = "ready"], prio |-> q.prio,
           group |-> q.group \union {p}, ready |-> [q.ready EXCEPT ![p] = l],
           wait |-> q.wait, defunct |-> q.defunct]
  BY DEF InsertThread, Queues
<1> HIDE DEF l, p
<1>4. r \in Queues
  BY <1>1, <1>2, <1>3 DEF Queues, Stats
<1>5. \A x \in Prios : r.ready[x] = IF x = p THEN l ELSE q.ready[x]
  BY <1>3 DEF Queues
<1>6. \A u \in Threads : r.stat[u] = IF u = t THEN "ready" ELSE q.stat[u]
  BY <1>3 DEF Queues
<1>7. ListsSound(r)
  <2>1. \A x \in Prios : /\ Distinct(r.ready[x])
                        /\ \A u \in Range(r.ready[x]) : r.stat[u] = "ready" /\ r.prio[u] = x
    <3> SUFFICES ASSUME NEW x \in Prios
                 PROVE  /\ Distinct(r.ready[x])
                        /\ \A u \in Range(r.ready[x]) :
                              r.stat[u] = "ready" /\ r.prio[u] = x
      OBVIOUS
    <3>1. Range(q.ready[x]) \subseteq Threads
      BY EmptyLemma DEF Queues
    <3>2. CASE x = p
      BY <1>2, <1>3, <1>5, <1>6, <3>1, <3>2 DEF QueuesSound, ListsSound, p
    <3>3. CASE x # p
      BY <1>3, <1>5, <1>6, <3>1, <3>3 DEF QueuesSound, ListsSound
    <3> QED BY <3>2, <3>3
  <2>2. \A o \in Objects : Range(q.wait[o]) \subseteq Threads
    BY EmptyLemma DEF Queues
  <2>3. Range(q.defunct) \subseteq Threads
    BY EmptyLemma DEF Queues
  <2> QED BY <1>3, <1>6, <2>1, <2>2, <2>3 DEF QueuesSound, ListsSound, Free
<1>8. ReadyLinked(r)
  <2> SUFFICES ASSUME NEW u \in Threads, r.stat[u] = "ready"
               PROVE  u \in Range(r.ready[r.prio[u]])
    BY DEF ReadyLinked
  <2>1. q.prio[u] \in Prios
    BY DEF Queues
  <2>2. CASE u = t
    BY <1>1, <1>2, <1>3, <1>5, <2>2 DEF p
  <2>3. CASE u # t
    BY <1>2, <1>3, <1>5, <1>6, <2>1, <2>3 DEF QueuesSound, ReadyLinked
  <2> QED BY <2>2, <2>3
<1>9. GroupExact(r)
  BY <1>2, <1>3, <1>5 DEF QueuesSound, GroupExact
<1> QED BY <1>3, <1>4, <1>7, <1>8, <1>9 DEF QueuesSound

\* What the routines do to the lists of blocked and of dead threads and to the
\* statuses, as predicates a proof can carry around folded.
Without(q, r, t) ==
    /\ r.stat = q.stat /\ r.prio = q.prio
    /\ \A o \in Objects : Range(r.wait[o]) = Range(q.wait[o]) \ {t}
    /\ Range(r.defunct) = Range(q.defunct) \ {t}
WokenUp(q, r, t) ==
    /\ r.stat = [q.stat EXCEPT ![t] = "ready"] /\ r.prio = q.prio
    /\ \A o \in Objects : Range(r.wait[o]) = Range(q.wait[o]) \ {t}
    /\ Range(r.defunct) = Range(q.defunct)
Queued(q, r, o, t) ==
    /\ r.stat = [q.stat EXCEPT ![t] = "suspend"] /\ r.prio = q.prio
    /\ Range(r.wait[o]) = Range(q.wait[o]) \union {t}
    /\ \A x \in Objects \ {o} : Range(r.wait[x]) = Range(q.wait[x])
    /\ Range(r.defunct) = Range(q.defunct)
Buried(q, r, t) ==
    /\ r.stat = q.stat /\ r.prio = q.prio /\ r.wait = q.wait
    /\ Range(r.defunct) = Range(q.defunct) \union {t}

\* Taking off its lists a thread that is not ready keeps them sound.
LEMMA UnlinkedSound ==
    ASSUME NEW q \in Queues, QueuesSound(q), NEW t \in Threads, q.stat[t] # "ready",
           NEW r, r = Unlinked(q, t)
    PROVE  r \in Queues /\ QueuesSound(r) /\ Free(r, t) /\ Without(q, r, t)
<1>1. /\ r \in Queues
      /\ r.stat = q.stat /\ r.prio = q.prio /\ r.group = q.group
      /\ \A p \in Prios : /\ Distinct(r.ready[p])
                         /\ Range(r.ready[p]) = Range(q.ready[p]) \ {t}
      /\ \A o \in Objects : /\ Distinct(r.wait[o])
                           /\ Range(r.wait[o]) = Range(q.wait[o]) \ {t}
      /\ Distinct(r.defunct) /\ Range(r.defunct) = Range(q.defunct) \ {t}
  <2>1. r \in Queues /\ TakenOff(q, r, t)
    BY UnlinkedLemma DEF QueuesSound
  <2> QED BY <2>1 DEF TakenOff
<1>2. \A p \in Prios : Range(r.ready[p]) = Range(q.ready[p])
  <2> SUFFICES ASSUME NEW p \in Prios PROVE Range(r.ready[p]) = Range(q.ready[p])
    OBVIOUS
  <2>1. t \notin Range(q.ready[p])
    BY DEF QueuesSound, ListsSound
  <2>2. Range(r.ready[p]) = Range(q.ready[p]) \ {t}
    BY <1>1
  <2> QED BY <2>1, <2>2
<1>3. ListsSound(r)
  BY <1>1 DEF QueuesSound, ListsSound
<1>4. ReadyLinked(r)
  <2>1. \A u \in Threads : q.prio[u] \in Prios
    BY DEF Queues
  <2> QED BY <1>1, <1>2, <2>1 DEF QueuesSound, ReadyLinked
<1>5. GroupExact(r)
  <2> SUFFICES ASSUME NEW p \in Prios PROVE p \in r.group <=> r.ready[p] # <<>>
    BY DEF GroupExact
  <2>1. r.ready[p] = <<>> <=> Range(r.ready[p]) = {}
    BY <1>1, EmptyLemma DEF Queues
  <2>2. q.ready[p] = <<>> <=> Range(q.ready[p]) = {}
    BY EmptyLemma DEF Queues
  <2> QED BY <1>1, <1>2, <2>1, <2>2 DEF QueuesSound, GroupExact
<1>6. Free(r, t)
  BY <1>1 DEF Free
<1> QED BY <1>1, <1>3, <1>4, <1>5, <1>6 DEF QueuesSound, Without, Without

\* rt_thread_resume with interrupts off, and rt_thread_timeout: a suspended
\* thread leaves its list and is ready.
LEMMA WakeLemma ==
    ASSUME NEW q \in Queues, QueuesSound(q), NEW t \in Threads, q.stat[t] = "suspend",
           NEW r, r = InsertThread(Unlinked(q, t), t)
    PROVE  r \in Queues /\ QueuesSound(r) /\ WokenUp(q, r, t)
<1> DEFINE m == Unlinked(q, t)
<1>5. q.stat[t] # "ready"
  OBVIOUS
<1>1. m \in Queues /\ QueuesSound(m) /\ Free(m, t) /\ Without(q, m, t)
  BY <1>5, UnlinkedSound
<1> HIDE DEF m
<1>2. r = InsertThread(m, t)
  BY DEF m
<1>3. /\ r \in Queues /\ QueuesSound(r)
      /\ r.stat = [m.stat EXCEPT ![t] = "ready"]
      /\ r.prio = m.prio /\ r.wait = m.wait /\ r.defunct = m.defunct
  BY <1>1, <1>2, InsertLemma
<1>4. t \notin Range(q.defunct)
  BY DEF QueuesSound, ListsSound
<1> QED BY <1>1, <1>3, <1>4 DEF Without, WokenUp

\* The field updates the next lemmas are about, under a name each.
Labelled(q, t, s) == [q EXCEPT !.stat[t] = s]
Waiting(q, o, l) == [q EXCEPT !.wait[o] = l]
Relabelled(q, t, s, p) == [q EXCEPT !.stat[t] = s, !.prio[t] = p]
Dying(q, l) == [q EXCEPT !.defunct = l]

\* rt_schedule_remove_thread on a ready thread, after its status was set to
\* something else: it is off the ready lists and the bitmap follows.
LEMMA RemoveLemma ==
    ASSUME NEW q \in Queues, QueuesSound(q), NEW t \in Threads, q.stat[t] = "ready",
           NEW s \in Stats \ {"ready"},
           NEW r, r = Labelled(RemoveThread(q, t), t, s)
    PROVE  /\ r \in Queues /\ QueuesSound(r) /\ Free(r, t)
           /\ r.stat = [q.stat EXCEPT ![t] = s] /\ r.prio = q.prio
           /\ \A o \in Objects : Range(r.wait[o]) = Range(q.wait[o])
           /\ Range(r.defunct) = Range(q.defunct)
<1> DEFINE m == Unlinked(q, t)
           p == q.prio[t]
           g == IF m.ready[p] = <<>> THEN q.group \ {p} ELSE q.group
<1>1. /\ m \in Queues
      /\ m.stat = q.stat /\ m.prio = q.prio /\ m.group = q.group
      /\ \A x \in Prios : /\ Distinct(m.ready[x])
                         /\ Range(m.ready[x]) = Range(q.ready[x]) \ {t}
      /\ \A o \in Objects : /\ Distinct(m.wait[o])
                           /\ Range(m.wait[o]) = Range(q.wait[o]) \ {t}
      /\ Distinct(m.defunct) /\ Range(m.defunct) = Range(q.defunct) \ {t}
  <2>1. m \in Queues /\ TakenOff(q, m, t)
    BY UnlinkedLemma DEF QueuesSound
  <2> HIDE DEF m
  <2> QED BY <2>1 DEF TakenOff
<1>2. p \in Prios
  BY DEF Queues
<1>3. RemoveThread(q, t) = [m EXCEPT !.group = g]
  BY DEF RemoveThread
<1>4. g \in SUBSET Prios
  BY DEF Queues
<1>5. g = IF m.ready[p] = <<>> THEN q.group \ {p} ELSE q.group
  OBVIOUS
<1>. HIDE DEF m, p, g
<1>13. r = [stat |-> [q.stat EXCEPT ![t] = s], prio |-> q.prio, group |-> g,
            ready |-> m.ready, wait |-> m.wait, defunct |-> m.defunct]
  BY <1>1, <1>3 DEF Queues, Labelled
<1>14. r \in Queues
  <2>1. [q.stat EXCEPT ![t] = s] \in [Threads -> Stats]
    BY DEF Queues
  <2>2. /\ m.ready \in [Prios -> Seq(Threads)] /\ m.wait \in [Objects -> Seq(Threads)]
        /\ m.defunct \in Seq(Threads) /\ q.prio \in [Threads -> Prios]
    BY <1>1 DEF Queues
  <2>3. r = [stat |-> [q.stat EXCEPT ![t] = s], prio |-> q.prio, ready |-> m.ready,
             group |-> g, wait |-> m.wait, defunct |-> m.defunct]
    BY <1>13
  <2>4. [stat |-> [q.stat EXCEPT ![t] = s], prio |-> q.prio, ready |-> m.ready,
             group |-> g, wait |-> m.wait, defunct |-> m.defunct] \in Queues
    BY <1>4, <2>1, <2>2, QueuesIntro
  <2> QED BY <2>3, <2>4
<1>6. \A o \in Objects : t \notin Range(q.wait[o])
  BY DEF QueuesSound, ListsSound
<1>7. t \notin Range(q.defunct)
  BY DEF QueuesSound, ListsSound
<1>8. \A x \in Prios : x # p => Range(m.ready[x]) = Range(q.ready[x])
  <2> SUFFICES ASSUME NEW x \in Prios, x # p PROVE Range(m.ready[x]) = Range(q.ready[x])
    OBVIOUS
  <2>1. t \notin Range(q.ready[x])
    BY DEF QueuesSound, ListsSound, p
  <2>2. Range(m.ready[x]) = Range(q.ready[x]) \ {t}
    BY <1>1
  <2> QED BY <2>1, <2>2
<1>9. ListsSound(r)
  <2>1. \A u \in Threads : r.stat[u] = IF u = t THEN s ELSE q.stat[u]
    BY <1>13 DEF Queues
  <2>2. /\ \A x \in Prios : Range(q.ready[x]) \subseteq Threads
        /\ \A o \in Objects : Range(q.wait[o]) \subseteq Threads
        /\ Range(q.defunct) \subseteq Threads
    BY EmptyLemma DEF Queues
  <2>3. \A x \in Prios : /\ Distinct(r.ready[x])
                        /\ \A u \in Range(r.ready[x]) : r.stat[u] = "ready" /\ r.prio[u] = x
    BY <1>1, <1>13, <2>1, <2>2 DEF QueuesSound, ListsSound
  <2>4. \A o \in Objects : /\ Distinct(r.wait[o])
                          /\ \A u \in Range(r.wait[o]) : r.stat[u] = "suspend"
    BY <1>1, <1>13, <2>1, <2>2 DEF QueuesSound, ListsSound
  <2>5. \A o1, o2 \in Objects :
          o1 # o2 => Range(r.wait[o1]) \intersect Range(r.wait[o2]) = {}
    BY <1>1, <1>13 DEF QueuesSound, ListsSound
  <2>6. Distinct(r.defunct) /\ \A u \in Range(r.defunct) : r.stat[u] = "close"
    BY <1>1, <1>13, <2>1, <2>2 DEF QueuesSound, ListsSound
  <2> QED BY <2>3, <2>4, <2>5, <2>6 DEF ListsSound
<1>10. ReadyLinked(r)
  <2> SUFFICES ASSUME NEW u \in Threads, r.stat[u] = "ready"
               PROVE  u \in Range(r.ready[r.prio[u]])
    BY DEF ReadyLinked
  <2>1. u # t /\ q.stat[u] = "ready" /\ q.prio[u] \in Prios
    BY <1>13 DEF Queues
  <2> QED BY <1>1, <1>13, <2>1 DEF QueuesSound, ReadyLinked
<1>11. GroupExact(r)
  <2> SUFFICES ASSUME NEW x \in Prios PROVE x \in r.group <=> r.ready[x] # <<>>
    BY DEF GroupExact
  <2>1. m.ready[x] = <<>> <=> Range(m.ready[x]) = {}
    BY <1>1, EmptyLemma DEF Queues
  <2>2. q.ready[x] = <<>> <=> Range(q.ready[x]) = {}
    BY EmptyLemma DEF Queues
  <2>3. x \in q.group <=> q.ready[x] # <<>>
    BY DEF QueuesSound, GroupExact
  <2>4. t \in Range(q.ready[p])
    BY DEF QueuesSound, ReadyLinked, p
  <2>5. CASE x = p
    BY <1>1, <1>2, <1>5, <1>13, <2>1, <2>2, <2>3, <2>4, <2>5
  <2>6. CASE x # p
    BY <1>1, <1>5, <1>8, <1>13, <2>1, <2>2, <2>3, <2>6
  <2> QED BY <2>5, <2>6
<1>12. Free(r, t)
  BY <1>1, <1>13 DEF Free
<1>15. \A o \in Objects : Range(r.wait[o]) = Range(q.wait[o])
  <2> SUFFICES ASSUME NEW o \in Objects PROVE Range(r.wait[o]) = Range(q.wait[o])
    OBVIOUS
  <2>1. r.wait[o] = m.wait[o]
    BY <1>13
  <2>2. Range(m.wait[o]) = Range(q.wait[o]) \ {t} /\ t \notin Range(q.wait[o])
    BY <1>1, <1>6
  <2> QED BY <2>1, <2>2
<1>16. Range(r.defunct) = Range(q.defunct)
  BY <1>1, <1>7, <1>13
<1>17. r.stat = [q.stat EXCEPT ![t] = s] /\ r.prio = q.prio
  BY <1>13
<1> QED BY <1>14, <1>9, <1>10, <1>11, <1>12, <1>15, <1>16, <1>17 DEF QueuesSound

\* The section of rt_thread_suspend on a ready thread.
LEMMA SuspendLemma ==
    ASSUME NEW q \in Queues, QueuesSound(q), NEW t \in Threads, q.stat[t] = "ready",
           NEW r, r = Suspended(q, t)
    PROVE  /\ r \in Queues /\ QueuesSound(r) /\ Free(r, t)
           /\ r.stat = [q.stat EXCEPT ![t] = "suspend"] /\ r.prio = q.prio
           /\ \A o \in Objects : Range(r.wait[o]) = Range(q.wait[o])
           /\ Range(r.defunct) = Range(q.defunct)
<1>1. r = Labelled(RemoveThread(q, t), t, "suspend")
  BY DEF Suspended, RemoveThread, Unlinked, Queues, Labelled
<1>2. "suspend" \in Stats \ {"ready"}
  BY DEF Stats
<1> HIDE DEF Suspended
<1> QED BY <1>1, <1>2, RemoveLemma

\* Putting a suspended thread that is on no list somewhere on a wait list.
LEMMA WaitListLemma ==
    ASSUME NEW q \in Queues, QueuesSound(q), NEW t \in Threads, q.stat[t] = "suspend",
           Free(q, t), NEW o \in Objects,
           NEW l \in Seq(Threads), Distinct(l), Range(l) = Range(q.wait[o]) \union {t},
           NEW r, r = Waiting(q, o, l)
    PROVE  /\ r \in Queues /\ QueuesSound(r)
           /\ r.stat = q.stat /\ r.prio = q.prio /\ r.defunct = q.defunct
           /\ \A x \in Objects : r.wait[x] = IF x = o THEN l ELSE q.wait[x]
<1>2. l \in Seq(Threads) /\ Distinct(l) /\ Range(l) = Range(q.wait[o]) \union {t}
  OBVIOUS
<1>3. r = [stat |-> q.stat, prio |-> q.prio, ready |-> q.ready, group |-> q.group,
           wait |-> [q.wait EXCEPT ![o] = l], defunct |-> q.defunct]
  BY DEF Queues, Waiting
<1>4. r \in Queues
  <2>1. /\ q.stat \in [Threads -> Stats] /\ q.prio \in [Threads -> Prios]
        /\ q.ready \in [Prios -> Seq(Threads)] /\ q.group \in SUBSET Prios
        /\ [q.wait EXCEPT ![o] = l] \in [Objects -> Seq(Threads)]
        /\ q.defunct \in Seq(Threads)
    BY <1>2 DEF Queues
  <2>2. [stat |-> q.stat, prio |-> q.prio, ready |-> q.ready, group |-> q.group,
         wait |-> [q.wait EXCEPT ![o] = l], defunct |-> q.defunct] \in Queues
    BY <2>1, QueuesIntro
  <2> QED BY <1>3, <2>2
<1>5. \A x \in Objects : r.wait[x] = IF x = o THEN l ELSE q.wait[x]
  <2>1. r.wait = [q.wait EXCEPT ![o] = l]
    BY <1>3
  <2>2. q.wait \in [Objects -> Seq(Threads)]
    BY DEF Queues
  <2> QED BY <2>1, <2>2
<1>6. ListsSound(r)
  <2>1. \A x \in Objects : /\ Distinct(r.wait[x])
                          /\ \A u \in Range(r.wait[x]) : r.stat[u] = "suspend"
    BY <1>2, <1>3, <1>5 DEF QueuesSound, ListsSound
  <2>2. \A x, y \in Objects :
          x # y => Range(r.wait[x]) \intersect Range(r.wait[y]) = {}
    BY <1>2, <1>5 DEF QueuesSound, ListsSound, Free
  <2> QED BY <1>3, <2>1, <2>2 DEF QueuesSound, ListsSound
<1>7. ReadyLinked(r) /\ GroupExact(r)
  BY <1>3 DEF QueuesSound, ReadyLinked, GroupExact
<1> QED BY <1>3, <1>4, <1>5, <1>6, <1>7 DEF QueuesSound

\* rt_ipc_list_suspend with RT_IPC_FLAG_FIFO on a ready thread.
LEMMA WaitFifoLemma ==
    ASSUME NEW q \in Queues, QueuesSound(q), NEW t \in Threads, q.stat[t] = "ready",
           NEW o \in Objects, NEW r, r = WaitFifo(q, o, t)
    PROVE  r \in Queues /\ QueuesSound(r) /\ Queued(q, r, o, t)
<1> DEFINE s == Suspended(q, t)
<1>1. /\ s \in Queues /\ QueuesSound(s) /\ Free(s, t)
      /\ s.stat = [q.stat EXCEPT ![t] = "suspend"] /\ s.prio = q.prio
      /\ \A x \in Objects : Range(s.wait[x]) = Range(q.wait[x])
      /\ Range(s.defunct) = Range(q.defunct)
  BY SuspendLemma
<1>2. r = Waiting(s, o, Append(s.wait[o], t))
  BY DEF WaitFifo, Waiting
<1> HIDE DEF s
<1>3. s.stat[t] = "suspend"
  BY <1>1 DEF Queues
<1> DEFINE l == Append(s.wait[o], t)
<1>5. l \in Seq(Threads) /\ Distinct(l) /\ Range(l) = Range(s.wait[o]) \union {t}
  <2>1. s.wait[o] \in Seq(Threads) /\ Distinct(s.wait[o]) /\ t \notin Range(s.wait[o])
    BY <1>1 DEF Queues, QueuesSound, ListsSound, Free
  <2> QED BY <2>1, AppendLemma
<1> HIDE DEF l
<1>4. /\ r \in Queues /\ QueuesSound(r)
      /\ r.stat = s.stat /\ r.prio = s.prio /\ r.defunct = s.defunct
      /\ \A x \in Objects : r.wait[x] = IF x = o THEN l ELSE s.wait[x]
  <2>1. r = Waiting(s, o, l)
    BY <1>2 DEF l
  <2>2. s \in Queues /\ QueuesSound(s) /\ Free(s, t)
    BY <1>1
  <2> QED BY <1>3, <1>5, <2>1, <2>2, WaitListLemma
<1> QED BY <1>1, <1>4, <1>5 DEF Queued

\* Putting a closed thread that is on no list on the defunct list.
LEMMA DefunctLemma ==
    ASSUME NEW q \in Queues, QueuesSound(q), NEW t \in Threads, q.stat[t] = "close",
           Free(q, t), NEW r, r = Dying(q, <<t>> \o q.defunct)
    PROVE  r \in Queues /\ QueuesSound(r) /\ Buried(q, r, t)
<1> DEFINE l == <<t>> \o q.defunct
<1>1. q.defunct \in Seq(Threads) /\ Distinct(q.defunct) /\ t \notin Range(q.defunct)
  BY DEF Queues, QueuesSound, ListsSound, Free
<1>2. l \in Seq(Threads) /\ Distinct(l) /\ Range(l) = Range(q.defunct) \union {t}
  BY <1>1, PrependLemma
<1>3. r = [stat |-> q.stat, prio |-> q.prio, ready |-> q.ready, group |-> q.group,
           wait |-> q.wait, defunct |-> l]
  BY DEF Queues, Dying
<1> HIDE DEF l
<1>4. r \in Queues
  <2>1. /\ q.stat \in [Threads -> Stats] /\ q.prio \in [Threads -> Prios]
        /\ q.ready \in [Prios -> Seq(Threads)] /\ q.group \in SUBSET Prios
        /\ q.wait \in [Objects -> Seq(Threads)]
    BY DEF Queues
  <2>2. [stat |-> q.stat, prio |-> q.prio, ready |-> q.ready, group |-> q.group,
         wait |-> q.wait, defunct |-> l] \in Queues
    BY <1>2, <2>1, QueuesIntro
  <2> QED BY <1>3, <2>2
<1>5. /\ r.stat = q.stat /\ r.prio = q.prio /\ r.ready = q.ready
      /\ r.group = q.group /\ r.wait = q.wait /\ r.defunct = l
  BY <1>3
<1>6. ListsSound(r)
  <2>5. \A u \in Range(l) : u = t \/ u \in Range(q.defunct)
    BY <1>2
  <2>6. \A u \in Range(q.defunct) : q.stat[u] = "close"
    BY DEF QueuesSound, ListsSound
  <2>1. Distinct(r.defunct) /\ \A u \in Range(r.defunct) : r.stat[u] = "close"
    BY <1>2, <1>5, <2>5, <2>6
  <2>2. \A p \in Prios : /\ Distinct(r.ready[p])
                        /\ \A u \in Range(r.ready[p]) : r.stat[u] = "ready" /\ r.prio[u] = p
    BY <1>5 DEF QueuesSound, ListsSound
  <2>3. \A o \in Objects : /\ Distinct(r.wait[o])
                          /\ \A u \in Range(r.wait[o]) : r.stat[u] = "suspend"
    BY <1>5 DEF QueuesSound, ListsSound
  <2>4. \A o1, o2 \in Objects :
          o1 # o2 => Range(r.wait[o1]) \intersect Range(r.wait[o2]) = {}
    BY <1>5 DEF QueuesSound, ListsSound
  <2> QED BY <2>1, <2>2, <2>3, <2>4 DEF ListsSound
<1>7. ReadyLinked(r) /\ GroupExact(r)
  BY <1>5 DEF QueuesSound, ReadyLinked, GroupExact
<1> QED BY <1>2, <1>4, <1>5, <1>6, <1>7 DEF QueuesSound, Buried

\* A thread on no list may change status and priority, except to ready.
LEMMA RelabelLemma ==
    ASSUME NEW q \in Queues, QueuesSound(q), NEW t \in Threads, Free(q, t),
           NEW s \in Stats \ {"ready"}, NEW p \in Prios,
           NEW r, r = Relabelled(q, t, s, p)
    PROVE  /\ r \in Queues /\ QueuesSound(r)
           /\ r.stat = [q.stat EXCEPT ![t] = s]
           /\ r.ready = q.ready /\ r.group = q.group
           /\ r.wait = q.wait /\ r.defunct = q.defunct
<1>1. r = [stat |-> [q.stat EXCEPT ![t] = s], prio |-> [q.prio EXCEPT ![t] = p],
           ready |-> q.ready, group |-> q.group, wait |-> q.wait, defunct |-> q.defunct]
  BY DEF Queues, Relabelled
<1>2. r \in Queues
  <2>1. /\ [q.stat EXCEPT ![t] = s] \in [Threads -> Stats]
        /\ [q.prio EXCEPT ![t] = p] \in [Threads -> Prios]
        /\ q.ready \in [Prios -> Seq(Threads)] /\ q.group \in SUBSET Prios
        /\ q.wait \in [Objects -> Seq(Threads)] /\ q.defunct \in Seq(Threads)
    BY DEF Queues
  <2>2. [stat |-> [q.stat EXCEPT ![t] = s], prio |-> [q.prio EXCEPT ![t] = p],
         ready |-> q.ready, group |-> q.group, wait |-> q.wait,
         defunct |-> q.defunct] \in Queues
    BY <2>1, QueuesIntro
  <2> QED BY <1>1, <2>2
<1>3. \A u \in Threads : /\ r.stat[u] = IF u = t THEN s ELSE q.stat[u]
                        /\ r.prio[u] = IF u = t THEN p ELSE q.prio[u]
  BY <1>1 DEF Queues
<1>4. /\ \A x \in Prios : Range(q.ready[x]) \subseteq Threads
      /\ \A o \in Objects : Range(q.wait[o]) \subseteq Threads
      /\ Range(q.defunct) \subseteq Threads
  BY EmptyLemma DEF Queues
<1>5. /\ r.ready = q.ready /\ r.group = q.group /\ r.wait = q.wait
      /\ r.defunct = q.defunct
  BY <1>1
<1>6. ListsSound(r)
  <2>1. \A x \in Prios : /\ Distinct(r.ready[x])
                        /\ \A u \in Range(r.ready[x]) : r.stat[u] = "ready" /\ r.prio[u] = x
    BY <1>3, <1>4, <1>5 DEF QueuesSound, ListsSound, Free
  <2>2. \A o \in Objects : /\ Distinct(r.wait[o])
                          /\ \A u \in Range(r.wait[o]) : r.stat[u] = "suspend"
    BY <1>3, <1>4, <1>5 DEF QueuesSound, ListsSound, Free
  <2>3. \A o1, o2 \in Objects :
          o1 # o2 => Range(r.wait[o1]) \intersect Range(r.wait[o2]) = {}
    BY <1>5 DEF QueuesSound, ListsSound
  <2>4. Distinct(r.defunct) /\ \A u \in Range(r.defunct) : r.stat[u] = "close"
    BY <1>3, <1>4, <1>5 DEF QueuesSound, ListsSound, Free
  <2> QED BY <2>1, <2>2, <2>3, <2>4 DEF ListsSound
<1>7. ReadyLinked(r)
  BY <1>3, <1>5 DEF QueuesSound, ReadyLinked
<1>8. GroupExact(r)
  BY <1>5 DEF QueuesSound, GroupExact
<1> QED BY <1>1, <1>2, <1>5, <1>6, <1>7, <1>8 DEF QueuesSound
-----------------------------------------------------------------------------
(* The thread rt_schedule picks                                             *)

\* The bitmap search finds the most urgent priority.
LEMMA HighestLemma ==
    ASSUME NEW q \in Queues, q.group # {}
    PROVE  Highest(q) \in q.group /\ \A p \in q.group : Highest(q) =< p
<1>1. q.group \subseteq Nat
  BY QueueAssumption DEF Queues, Prios
<1> DEFINE R == {ss \in Nat \X Nat : ss[1] < ss[2]}
<1>4. IsWellFoundedOn(R, Nat)
  BY NatLessThanWellFounded DEF OpToRel
<1>5. \A m, n \in Nat : m < n => <<m, n>> \in R
  OBVIOUS
<1> HIDE DEF R
<1>2. PICK p \in q.group : \A r \in q.group : <<r, p>> \notin R
  BY <1>1, <1>4, WFMin
<1>3. ASSUME NEW r \in q.group PROVE p =< r
  <2>1. r \in Nat /\ p \in Nat
    BY <1>1
  <2>2. ~ (r < p)
    BY <1>2, <1>5, <2>1
  <2> QED BY <2>1, <2>2
<1> QED BY <1>3 DEF Highest

\* On sound lists it picks a ready thread whenever there is one, and nothing
\* more urgent is ready.
LEMMA NextLemma ==
    ASSUME NEW q \in Queues, QueuesSound(q), NEW t \in Threads, q.stat[t] = "ready"
    PROVE  /\ NextThread(q) \in Threads /\ q.stat[NextThread(q)] = "ready"
           /\ q.prio[NextThread(q)] =< q.prio[t]
<1> DEFINE p == q.prio[t]
           h == Highest(q)
<1>1. p \in Prios /\ t \in Range(q.ready[p])
  BY DEF Queues, QueuesSound, ReadyLinked
<1>2. p \in q.group
  <2>1. q.ready[p] # <<>>
    BY <1>1, EmptyLemma DEF Queues
  <2> QED BY <1>1, <2>1 DEF QueuesSound, GroupExact
<1>3. h \in q.group /\ h =< p /\ h \in Prios
  BY <1>2, HighestLemma DEF Queues
<1> HIDE DEF p, h
<1>4. q.ready[h] # <<>> /\ q.ready[h] \in Seq(Threads)
  BY <1>3 DEF QueuesSound, GroupExact, Queues
<1>5. Head(q.ready[h]) \in Range(q.ready[h]) /\ Head(q.ready[h]) \in Threads
  BY <1>4, EmptyLemma
<1>6. q.stat[Head(q.ready[h])] = "ready" /\ q.prio[Head(q.ready[h])] = h
  BY <1>3, <1>5 DEF QueuesSound, ListsSound
<1>7. NextThread(q) = Head(q.ready[h])
  BY <1>2, <1>4 DEF NextThread, h
<1> QED BY <1>3, <1>5, <1>6, <1>7 DEF p

\* It only looks at the ready lists and the bitmap.
LEMMA NextSame ==
    ASSUME NEW q, NEW r, r.ready = q.ready, r.group = q.group
    PROVE  NextThread(r) = NextThread(q)
  BY DEF NextThread, Highest

-----------------------------------------------------------------------------
(* Lists of which nothing is known but their type.  A timer that expires    *)
(* for a thread that does not wait may leave such lists.                    *)

\* rt_list_remove on one list, whatever is on it: nobody joins it, and nobody
\* but t may leave it.
LEMMA UnlinkOnly ==
    ASSUME NEW l \in Seq(Threads), NEW t
    PROVE  /\ Unlink(l, t) \in Seq(Threads)
           /\ Range(l) \ {t} \subseteq Range(Unlink(l, t))
           /\ Range(Unlink(l, t)) \subseteq Range(l)
<1>1. CASE t \notin Range(l)
  BY <1>1 DEF Unlink
<1>2. CASE t \in Range(l)
  <2> DEFINE k == IndexOf(l, t)
             r == Unlink(l, t)
  <2>1. k \in 1..Len(l) /\ l[k] = t
    <3>1. \E i \in DOMAIN l : l[i] = t
      BY <1>2 DEF Range
    <3> QED BY <3>1 DEF IndexOf
  <2> DEFINE u == SubSeq(l, 1, k-1)
             v == SubSeq(l, k+1, Len(l))
  <2>2. r = u \o v
    BY <1>2 DEF Unlink, RemoveAt
  <2> HIDE DEF k, r
  <2>3. /\ u \in Seq(Threads) /\ Len(u) = k - 1
        /\ v \in Seq(Threads) /\ Len(v) = Len(l) - k
        /\ \A i \in 1..(k-1) : u[i] = l[i]
        /\ \A i \in 1..(Len(l) - k) : v[i] = l[i+k]
    BY <2>1, SubSeqProperties
  <2> HIDE DEF u, v
  <2>4. r \in Seq(Threads)
    BY <2>2, <2>3, ConcatProperties
  <2>5. Range(r) = Range(u) \union Range(v)
    BY <2>2, <2>3, RangeConcatenation
  <2>6. Range(u) \union Range(v) \subseteq Range(l)
    <3>1. ASSUME NEW i \in 1..(k-1) PROVE u[i] \in Range(l)
      <4>1. i \in DOMAIN l /\ u[i] = l[i]
        BY <2>1, <2>3
      <4> QED BY <4>1 DEF Range
    <3>2. ASSUME NEW i \in 1..(Len(l) - k) PROVE v[i] \in Range(l)
      <4>1. i + k \in 1..Len(l) /\ v[i] = l[i+k]
        BY <2>1, <2>3
      <4>2. i + k \in DOMAIN l
        BY <4>1
      <4> QED BY <4>1, <4>2 DEF Range
    <3>3. DOMAIN u = 1..(k-1) /\ DOMAIN v = 1..(Len(l) - k)
      BY <2>1, <2>3
    <3> QED BY <3>1, <3>2, <3>3 DEF Range
  <2>7. ASSUME NEW x \in Range(l), x # t PROVE x \in Range(u) \union Range(v)
    <3>1. PICK i \in 1..Len(l) : l[i] = x
      BY DEF Range
    <3>2. CASE i < k
      <4>1. i \in 1..(k-1) /\ u[i] = x
        BY <2>1, <2>3, <3>1, <3>2
      <4> QED BY <2>3, <4>1 DEF Range
    <3>3. CASE i > k
      <4>1. i - k \in 1..(Len(l) - k) /\ (i - k) + k = i
        BY <2>1, <3>3
      <4>2. v[i-k] = x
        BY <2>3, <3>1, <4>1
      <4> QED BY <2>3, <4>1, <4>2 DEF Range
    <3> QED BY <2>1, <2>7, <3>1, <3>2, <3>3
  <2> QED BY <2>4, <2>5, <2>6, <2>7 DEF r
<1> QED BY <1>1, <1>2

\* Every other thread keeps its place on the suspend lists, and nobody joins
\* them.
Leaves(q, r, S) ==
    \A o \in Objects : /\ Range(q.wait[o]) \ S \subseteq Range(r.wait[o])
                       /\ Range(r.wait[o]) \subseteq Range(q.wait[o])

\* rt_list_remove
LEMMA UnlinkedOnly ==
    ASSUME NEW q \in Queues, NEW t, NEW r, r = Unlinked(q, t)
    PROVE  /\ r \in Queues /\ Leaves(q, r, {t})
           /\ r.stat = q.stat /\ r.prio = q.prio /\ r.group = q.group
<1>1. r = [stat |-> q.stat, prio |-> q.prio, group |-> q.group,
           ready |-> [p \in Prios |-> Unlink(q.ready[p], t)],
           wait |-> [o \in Objects |-> Unlink(q.wait[o], t)],
           defunct |-> Unlink(q.defunct, t)]
  BY DEF Unlinked, Queues
<1>2. \A p \in Prios : Unlink(q.ready[p], t) \in Seq(Threads)
  <2> TAKE p \in Prios
  <2>1. q.ready[p] \in Seq(Threads)
    BY DEF Queues
  <2> QED BY <2>1, UnlinkOnly
<1>3. \A o \in Objects : /\ Unlink(q.wait[o], t) \in Seq(Threads)
                         /\ Range(q.wait[o]) \ {t} \subseteq Range(Unlink(q.wait[o], t))
                         /\ Range(Unlink(q.wait[o], t)) \subseteq Range(q.wait[o])
  <2> TAKE o \in Objects
  <2>1. q.wait[o] \in Seq(Threads)
    BY DEF Queues
  <2> QED BY <2>1, UnlinkOnly
<1>4. Unlink(q.defunct, t) \in Seq(Threads)
  BY UnlinkOnly DEF Queues
<1>5. r \in Queues
  BY <1>1, <1>2, <1>3, <1>4, QueuesIntro DEF Queues
<1>6. \A o \in Objects : r.wait[o] = Unlink(q.wait[o], t)
  BY <1>1
<1>7. Leaves(q, r, {t})
  BY <1>3, <1>6 DEF Leaves
<1>8. r.stat = q.stat /\ r.prio = q.prio /\ r.group = q.group
  BY <1>1
<1> QED BY <1>5, <1>7, <1>8

\* rt_schedule_insert_thread
LEMMA InsertOnly ==
    ASSUME NEW q \in Queues, NEW t \in Threads, NEW r, r = InsertThread(q, t)
    PROVE  r \in Queues /\ r.wait = q.wait /\ r.prio = q.prio
<1> DEFINE p == q.prio[t]
           l == Append(q.ready[p], t)
<1>1. p \in Prios /\ l \in Seq(Threads)
  BY DEF Queues
<1>2. r = [stat |-> [q.stat EXCEPT ![t] = "ready"], prio |-> q.prio,
           group |-> q.group \union {p}, ready |-> [q.ready EXCEPT ![p] = l],
           wait |-> q.wait, defunct |-> q.defunct]
  BY DEF InsertThread, Queues
<1> HIDE DEF p, l
<1>3. /\ [q.stat EXCEPT ![t] = "ready"] \in [Threads -> Stats]
      /\ [q.ready EXCEPT ![p] = l] \in [Prios -> Seq(Threads)]
      /\ q.group \union {p} \in SUBSET Prios
  BY <1>1 DEF Queues, Stats
<1>4. r \in Queues
  BY <1>2, <1>3, QueuesIntro DEF Queues
<1> QED BY <1>2, <1>4

\* rt_schedule_remove_thread
LEMMA RemoveOnly ==
    ASSUME NEW q \in Queues, NEW t \in Threads, NEW r, r = RemoveThread(q, t)
    PROVE  r \in Queues /\ Leaves(q, r, {t}) /\ r.prio = q.prio
<1> DEFINE m == Unlinked(q, t)
           p == q.prio[t]
           g == IF m.ready[p] = <<>> THEN q.group \ {p} ELSE q.group
<1>1. m \in Queues /\ Leaves(q, m, {t}) /\ m.prio = q.prio
  BY UnlinkedOnly
<1> HIDE DEF m
<1>2. r = [stat |-> m.stat, prio |-> m.prio, ready |-> m.ready, group |-> g,
           wait |-> m.wait, defunct |-> m.defunct]
  BY <1>1 DEF RemoveThread, Queues, m
<1>3. g \in SUBSET Prios
  BY DEF Queues
<1> HIDE DEF g
<1>4. r \in Queues
  BY <1>1, <1>2, <1>3, QueuesIntro DEF Queues
<1> QED BY <1>1, <1>2, <1>4 DEF Leaves

\* A change of status is one of that field.
LEMMA LabelledFields ==
    ASSUME NEW q \in Queues, NEW t \in Threads, NEW s \in Stats, NEW r, r = Labelled(q, t, s)
    PROVE  r = [stat |-> [q.stat EXCEPT ![t] = s], prio |-> q.prio, ready |-> q.ready,
                group |-> q.group, wait |-> q.wait, defunct |-> q.defunct]
  BY DEF Labelled, Queues

\* The section of rt_thread_suspend
LEMMA SuspendOnly ==
    ASSUME NEW q \in Queues, NEW t \in Threads, NEW r, r = Suspended(q, t)
    PROVE  r \in Queues /\ Leaves(q, r, {t}) /\ r.prio = q.prio
<1> DEFINE m == Labelled(q, t, "suspend")
<1>1. m = [stat |-> [q.stat EXCEPT ![t] = "suspend"], prio |-> q.prio,
           ready |-> q.ready, group |-> q.group, wait |-> q.wait, defunct |-> q.defunct]
  <2>1. "suspend" \in Stats
    BY DEF Stats
  <2> QED BY <2>1, LabelledFields
<1>2. [q.stat EXCEPT ![t] = "suspend"] \in [Threads -> Stats]
  BY DEF Queues, Stats
<1>3. m \in Queues
  BY <1>1, <1>2, QueuesIntro DEF Queues
<1>4. r = RemoveThread(m, t)
  BY DEF Suspended, Labelled
<1>5. m.wait = q.wait /\ m.prio = q.prio
  BY <1>1
<1> HIDE DEF m
<1>6. r \in Queues /\ Leaves(m, r, {t}) /\ r.prio = m.prio
  BY <1>3, <1>4, RemoveOnly
<1> QED BY <1>5, <1>6 DEF Leaves

\* The section of rt_thread_resume, rt_thread_timeout
LEMMA ResumeOnly ==
    ASSUME NEW q \in Queues, NEW t \in Threads,
           NEW r, r = Resumed(q, t) \/ r = InsertThread(Unlinked(q, t), t)
    PROVE  r \in Queues /\ Leaves(q, r, {t}) /\ r.prio = q.prio
<1> DEFINE m == Unlinked(q, t)
<1>1. m \in Queues /\ Leaves(q, m, {t}) /\ m.prio = q.prio
  BY UnlinkedOnly
<1>2. r = q \/ r = InsertThread(m, t)
  BY DEF Resumed
<1> HIDE DEF m
<1>3. CASE r = InsertThread(m, t)
  <2>1. r \in Queues /\ r.wait = m.wait /\ r.prio = m.prio
    BY <1>1, <1>3, InsertOnly
  <2> QED BY <1>1, <2>1 DEF Leaves
<1>4. CASE r = q
  BY <1>4 DEF Leaves
<1> QED BY <1>2, <1>3, <1>4

\* A change of priority is one of that field.
Renamed(q, t, p) == [q EXCEPT !.prio[t] = p]

LEMMA RenamedFields ==
    ASSUME NEW q \in Queues, NEW t \in Threads, NEW p \in Prios, NEW r, r = Renamed(q, t, p)
    PROVE  /\ r = [stat |-> q.stat, prio |-> [q.prio EXCEPT ![t] = p], ready |-> q.ready,
                   group |-> q.group, wait |-> q.wait, defunct |-> q.defunct]
           /\ r \in Queues
<1>1. r = [stat |-> q.stat, prio |-> [q.prio EXCEPT ![t] = p], ready |-> q.ready,
           group |-> q.group, wait |-> q.wait, defunct |-> q.defunct]
  BY DEF Renamed, Queues
<1>2. [q.prio EXCEPT ![t] = p] \in [Threads -> Prios]
  BY DEF Queues
<1>3. r \in Queues
  BY <1>1, <1>2, QueuesIntro DEF Queues
<1> QED BY <1>1, <1>3

\* A change of priority; nothing else than the thread itself may leave a list.
LEMMA ReprioritisedOnly ==
    ASSUME NEW q \in Queues, NEW t \in Threads, NEW p \in Prios,
           NEW r, r = Reprioritised(q, t, p)
    PROVE  r \in Queues /\ Leaves(q, r, {t})
<1>2. CASE q.stat[t] = "ready"
  <2> DEFINE m == RemoveThread(q, t)
             n == Renamed(m, t, p)
  <2>1. m \in Queues /\ Leaves(q, m, {t}) /\ m.prio = q.prio
    BY RemoveOnly
  <2>2. r = InsertThread(n, t)
    BY <1>2 DEF Reprioritised, Renamed
  <2> HIDE DEF m
  <2>5. /\ n = [stat |-> m.stat, prio |-> [m.prio EXCEPT ![t] = p], ready |-> m.ready,
                group |-> m.group, wait |-> m.wait, defunct |-> m.defunct]
        /\ n \in Queues
    BY <2>1, RenamedFields
  <2>3. n \in Queues /\ n.wait = m.wait
    BY <2>5
  <2> HIDE DEF n
  <2>4. r \in Queues /\ r.wait = n.wait /\ r.prio = n.prio
    BY <2>2, <2>3, InsertOnly
  <2> QED BY <1>2, <2>1, <2>3, <2>4 DEF Leaves
<1>3. CASE q.stat[t] # "ready"
  <2>1. r = Renamed(q, t, p)
    BY <1>3 DEF Reprioritised, Renamed
  <2>2. r \in Queues /\ r.wait = q.wait
    BY <2>1, RenamedFields
  <2> QED BY <2>2 DEF Leaves
<1> QED BY <1>2, <1>3

\* t joins the suspend list of o; every other thread stays where it is.
Joins(q, r, o, t) ==
    /\ t \in Range(r.wait[o])
    /\ \A x \in Objects : /\ Range(q.wait[x]) \ {t} \subseteq Range(r.wait[x])
                          /\ Range(r.wait[x]) \subseteq
                                Range(q.wait[x]) \union (IF x = o THEN {t} ELSE {})

\* Two lists one after the other.
LEMMA ConcatLemma ==
    ASSUME NEW l \in Seq(Threads), NEW m \in Seq(Threads)
    PROVE  l \o m \in Seq(Threads) /\ Range(l \o m) = Range(l) \union Range(m)
<1>1. l \o m \in Seq(Threads)
  BY ConcatProperties
<1>2. Range(l \o m) = Range(l) \union Range(m)
  BY RangeConcatenation
<1> QED BY <1>1, <1>2

\* Putting a thread anywhere in a list.
LEMMA InsertAtLemma ==
    ASSUME NEW l \in Seq(Threads), NEW t \in Threads, NEW i \in 1..Len(l) + 1
    PROVE  /\ InsertAt(l, i, t) \in Seq(Threads)
           /\ Range(InsertAt(l, i, t)) = Range(l) \union {t}
<1> DEFINE u == SubSeq(l, 1, i-1)
           v == SubSeq(l, i, Len(l))
<1>1. /\ u \in Seq(Threads) /\ Len(u) = i - 1
      /\ v \in Seq(Threads) /\ Len(v) = Len(l) - i + 1
      /\ \A j \in 1..(i-1) : u[j] = l[j]
      /\ \A j \in 1..(Len(l) - i + 1) : v[j] = l[j+i-1]
  BY SubSeqProperties
<1>2. InsertAt(l, i, t) = (u \o <<t>>) \o v
  BY DEF InsertAt
<1> HIDE DEF u, v
<1>3. <<t>> \in Seq(Threads) /\ Range(<<t>>) = {t}
  BY DEF Range
<1>4. u \o <<t>> \in Seq(Threads) /\ Range(u \o <<t>>) = Range(u) \union {t}
  BY <1>1, <1>3, ConcatLemma
<1>5. /\ (u \o <<t>>) \o v \in Seq(Threads)
      /\ Range((u \o <<t>>) \o v) = Range(u) \union {t} \union Range(v)
  BY <1>1, <1>4, ConcatLemma
<1>6. Range(u) \union Range(v) = Range(l)
  <2>1. DOMAIN u = 1..(i-1) /\ DOMAIN v = 1..(Len(l) - i + 1) /\ DOMAIN l = 1..Len(l)
    BY <1>1
  <2>2. ASSUME NEW j \in 1..(i-1) PROVE u[j] \in Range(l)
    <3>1. j \in DOMAIN l /\ u[j] = l[j]
      BY <1>1, <2>1
    <3> QED BY <3>1 DEF Range
  <2>3. ASSUME NEW j \in 1..(Len(l) - i + 1) PROVE v[j] \in Range(l)
    <3>1. j + i - 1 \in DOMAIN l
      BY <2>1
    <3>2. v[j] = l[j+i-1]
      BY <1>1
    <3> QED BY <3>1, <3>2 DEF Range
  <2>4. ASSUME NEW j \in 1..Len(l) PROVE l[j] \in Range(u) \union Range(v)
    <3>1. CASE j < i
      <4>1. j \in 1..(i-1)
        BY <3>1
      <4> QED BY <1>1, <2>1, <4>1 DEF Range
    <3>2. CASE ~(j < i)
      <4>1. j - i + 1 \in 1..(Len(l) - i + 1) /\ (j - i + 1) + i - 1 = j
        BY <3>2
      <4>2. v[j-i+1] = l[j]
        BY <1>1, <4>1
      <4> QED BY <2>1, <4>1, <4>2 DEF Range
    <3> QED BY <3>1, <3>2
  <2> QED BY <2>1, <2>2, <2>3, <2>4 DEF Range
<1> QED BY <1>2, <1>5, <1>6

\* A set of positions has a first one.
LEMMA MinLemma ==
    ASSUME NEW S \in SUBSET Nat, S # {}
    PROVE  Min(S) \in S /\ \A y \in S : Min(S) =< y
<1> DEFINE R == {ss \in Nat \X Nat : ss[1] < ss[2]}
<1>1. IsWellFoundedOn(R, Nat)
  BY NatLessThanWellFounded DEF OpToRel
<1>2. \A m, n \in Nat : m < n => <<m, n>> \in R
  OBVIOUS
<1> HIDE DEF R
<1>3. PICK x \in S : \A y \in S : <<y, x>> \notin R
  BY <1>1, WFMin
<1>4. ASSUME NEW y \in S PROVE x =< y
  <2>1. x \in Nat /\ y \in Nat
    OBVIOUS
  <2>2. ~(y < x)
    BY <1>2, <1>3, <2>1
  <2> QED BY <2>1, <2>2
<1> QED BY <1>3, <1>4 DEF Min

\* rt_ipc_list_suspend, for either flag
LEMMA WaitOnly ==
    ASSUME NEW q \in Queues, NEW t \in Threads, NEW o \in Objects,
           NEW r, r = WaitFifo(q, o, t) \/ r = WaitPrio(q, o, t)
    PROVE  r \in Queues /\ Joins(q, r, o, t) /\ r.prio = q.prio
<1> DEFINE s == IF q.stat[t] = "ready" THEN Suspended(q, t) ELSE q
           l == s.wait[o]
           less == {i \in DOMAIN l : s.prio[t] < s.prio[l[i]]}
           at == IF less = {} THEN Len(l) + 1 ELSE Min(less)
           With(m) == [stat |-> s.stat, prio |-> s.prio, ready |-> s.ready,
                       group |-> s.group, wait |-> [s.wait EXCEPT ![o] = m],
                       defunct |-> s.defunct]
<1>1. s \in Queues /\ Leaves(q, s, {t}) /\ s.prio = q.prio
  <2>1. Leaves(q, q, {t})
    BY DEF Leaves
  <2> QED BY <2>1, SuspendOnly
<1>2. /\ WaitFifo(q, o, t) = [s EXCEPT !.wait[o] = Append(l, t)]
      /\ WaitPrio(q, o, t) = [s EXCEPT !.wait[o] = InsertAt(l, at, t)]
  BY DEF WaitFifo, WaitPrio
<1> HIDE DEF s
<1>3. l \in Seq(Threads)
  BY <1>1 DEF Queues
<1>4. PICK m \in Seq(Threads) : /\ Range(m) = Range(l) \union {t}
                               /\ r = [s EXCEPT !.wait[o] = m]
  <2>1. at \in 1..Len(l) + 1
    <3>1. less \subseteq 1..Len(l) /\ Len(l) \in Nat
      BY <1>3
    <3>2. less = {} => at = Len(l) + 1
      OBVIOUS
    <3>3. less # {} => at = Min(less)
      OBVIOUS
    <3> HIDE DEF less, at, l
    <3>4. less # {} => Min(less) \in less
      <4>1. less \in SUBSET Nat
        BY <3>1
      <4> QED BY <4>1, MinLemma
    <3>5. CASE less = {}
      BY <3>1, <3>2, <3>5
    <3>6. CASE less # {}
      <4>1. at \in 1..Len(l)
        BY <3>1, <3>3, <3>4, <3>6
      <4> QED BY <3>1, <4>1
    <3> QED BY <3>5, <3>6
  <2> HIDE DEF less, at, l
  <2>2. /\ InsertAt(l, at, t) \in Seq(Threads)
        /\ Range(InsertAt(l, at, t)) = Range(l) \union {t}
    BY <1>3, <2>1, InsertAtLemma
  <2>3. /\ Append(l, t) \in Seq(Threads)
        /\ Range(Append(l, t)) = Range(l) \union {t}
    <3>1. Append(l, t) = l \o <<t>> /\ <<t>> \in Seq(Threads)
      BY <1>3
    <3>2. Range(<<t>>) = {t}
      BY DEF Range
    <3>3. /\ l \o <<t>> \in Seq(Threads)
          /\ Range(l \o <<t>>) = Range(l) \union Range(<<t>>)
      BY <1>3, <3>1, ConcatLemma
    <3> QED BY <3>1, <3>2, <3>3
  <2> QED BY <1>2, <2>2, <2>3
<1>5. r = With(m)
  BY <1>1, <1>4 DEF Queues
<1>6. [s.wait EXCEPT ![o] = m] \in [Objects -> Seq(Threads)]
  BY <1>1 DEF Queues
<1>7. r \in Queues
  BY <1>1, <1>5, <1>6, QueuesIntro DEF Queues
<1>8. r.prio = s.prio /\ \A x \in Objects : r.wait[x] = IF x = o THEN m ELSE s.wait[x]
  BY <1>1, <1>5 DEF Queues
<1>9. Joins(q, r, o, t)
  <2>1. t \in Range(r.wait[o])
    BY <1>4, <1>8
  <2>2. ASSUME NEW x \in Objects
        PROVE  /\ Range(q.wait[x]) \ {t} \subseteq Range(r.wait[x])
               /\ Range(r.wait[x]) \subseteq
                     Range(q.wait[x]) \union (IF x = o THEN {t} ELSE {})
    <3>1. /\ Range(q.wait[x]) \ {t} \subseteq Range(s.wait[x])
          /\ Range(s.wait[x]) \subseteq Range(q.wait[x])
      BY <1>1 DEF Leaves
    <3> QED BY <1>4, <1>8, <3>1
  <2> QED BY <2>1, <2>2 DEF Joins
<1> QED BY <1>1, <1>7, <1>8, <1>9

\* The thread rt_schedule picks is on a ready list.
LEMMA NextOnly ==
    ASSUME NEW q \in Queues, NextThread(q) # NoThread
    PROVE  /\ NextThread(q) \in Threads
           /\ \E p \in Prios : NextThread(q) \in Range(q.ready[p])
<1> DEFINE h == Highest(q)
<1>1. q.group # {} /\ q.ready[h] # <<>> /\ NextThread(q) = Head(q.ready[h])
  BY DEF NextThread
<1>2. h \in Prios
  BY <1>1, HighestLemma DEF Queues
<1> HIDE DEF h
<1>3. q.ready[h] \in Seq(Threads)
  BY <1>2 DEF Queues
<1> QED BY <1>1, <1>2, <1>3, EmptyLemma

-----------------------------------------------------------------------------
(* Sound lists: priorities that change, and the order of the waiters.       *)

\* A thread that is not suspended is on no suspend list, so none changes.
LEMMA WaitKept ==
    ASSUME NEW q \in Queues, QueuesSound(q), NEW t \in Threads, q.stat[t] # "suspend"
    PROVE  Unlinked(q, t).wait = q.wait /\ Suspended(q, t).wait = q.wait
<1>1. \A o \in Objects : t \notin Range(q.wait[o])
  BY DEF QueuesSound, ListsSound
<1>2. [o \in Objects |-> Unlink(q.wait[o], t)] = q.wait
  BY <1>1 DEF Unlink, Queues
<1>3. Unlinked(q, t).wait = [o \in Objects |-> Unlink(q.wait[o], t)]
  BY DEF Unlinked, Queues
<1>4. Suspended(q, t).wait = [o \in Objects |-> Unlink(q.wait[o], t)]
  <2> DEFINE m == Labelled(q, t, "suspend")
  <2>1. "suspend" \in Stats
    BY DEF Stats
  <2>2. /\ m = [stat |-> [q.stat EXCEPT ![t] = "suspend"], prio |-> q.prio,
                ready |-> q.ready, group |-> q.group, wait |-> q.wait,
                defunct |-> q.defunct]
    BY <2>1, LabelledFields
  <2>3. Suspended(q, t) = RemoveThread(m, t)
    BY DEF Suspended, Labelled
  <2> HIDE DEF m
  <2>4. RemoveThread(m, t).wait = Unlinked(m, t).wait
    BY <2>2 DEF RemoveThread, Unlinked
  <2>5. Unlinked(m, t).wait = [o \in Objects |-> Unlink(m.wait[o], t)]
    BY <2>2 DEF Unlinked
  <2> QED BY <2>2, <2>3, <2>4, <2>5
<1> QED BY <1>2, <1>3, <1>4

\* rt_thread_control with RT_THREAD_CTRL_CHANGE_PRIORITY: a ready thread moves
\* to the end of another ready list, a suspended one keeps its place.
LEMMA ReprioritisedLemma ==
    ASSUME NEW q \in Queues, QueuesSound(q), NEW t \in Threads,
           NEW p \in Prios, NEW r, r = Reprioritised(q, t, p)
    PROVE  /\ r \in Queues /\ QueuesSound(r)
           /\ r.stat = q.stat /\ r.prio = [q.prio EXCEPT ![t] = p]
           /\ r.wait = q.wait
<1>1. CASE q.stat[t] # "ready"
  <2>1. r = Renamed(q, t, p)
    BY <1>1 DEF Reprioritised, Renamed
  <2>2. /\ r = [stat |-> q.stat, prio |-> [q.prio EXCEPT ![t] = p], ready |-> q.ready,
                group |-> q.group, wait |-> q.wait, defunct |-> q.defunct]
        /\ r \in Queues
    BY <2>1, RenamedFields
  <2>3. /\ r.stat = q.stat /\ r.prio = [q.prio EXCEPT ![t] = p] /\ r.ready = q.ready
        /\ r.group = q.group /\ r.wait = q.wait /\ r.defunct = q.defunct
    BY <2>2
  <2>4. \A u \in Threads : q.stat[u] = "ready" => r.prio[u] = q.prio[u]
    BY <1>1, <2>3 DEF Queues
  <2>5. \A x \in Prios : Range(q.ready[x]) \subseteq Threads
    BY EmptyLemma DEF Queues
  <2>6. QueuesSound(r)
    BY <2>3, <2>4, <2>5 DEF QueuesSound, ListsSound, ReadyLinked, GroupExact
  <2> QED BY <2>2, <2>3, <2>6
<1>2. CASE q.stat[t] = "ready"
  <2> DEFINE m == RemoveThread(q, t)
             n == Renamed(m, t, p)
             a == Labelled(m, t, "init")
             b == Relabelled(a, t, "init", p)
  <2>1. m \in Queues /\ m.wait = q.wait /\ m.stat = q.stat /\ m.prio = q.prio
    <3>1. m \in Queues /\ m.prio = q.prio
      BY RemoveOnly
    <3>2. m.wait = Unlinked(q, t).wait /\ m.stat = q.stat
      BY DEF RemoveThread, Unlinked, Queues
    <3>3. Unlinked(q, t).wait = q.wait
      BY <1>2, WaitKept
    <3> QED BY <3>1, <3>2, <3>3
  <2>2. "init" \in Stats \ {"ready"}
    BY DEF Stats
  <2>3. /\ a \in Queues /\ QueuesSound(a) /\ Free(a, t)
        /\ a.stat = [q.stat EXCEPT ![t] = "init"] /\ a.prio = q.prio
    BY <1>2, <2>2, RemoveLemma
  <2>4. r = InsertThread(n, t)
    BY <1>2 DEF Reprioritised, Renamed
  <2> HIDE DEF m
  <2>5. a = [stat |-> [m.stat EXCEPT ![t] = "init"], prio |-> m.prio, ready |-> m.ready,
             group |-> m.group, wait |-> m.wait, defunct |-> m.defunct]
    BY <2>1, <2>2, LabelledFields
  <2>6. /\ n = [stat |-> m.stat, prio |-> [m.prio EXCEPT ![t] = p], ready |-> m.ready,
                group |-> m.group, wait |-> m.wait, defunct |-> m.defunct]
        /\ n \in Queues
    BY <2>1, RenamedFields
  <2> HIDE DEF a, n
  <2>7. /\ b \in Queues /\ QueuesSound(b)
        /\ b.stat = [a.stat EXCEPT ![t] = "init"] /\ b.ready = a.ready
        /\ b.group = a.group /\ b.wait = a.wait /\ b.defunct = a.defunct
    BY <2>2, <2>3, RelabelLemma
  <2>8. b.prio = [a.prio EXCEPT ![t] = p]
    BY <2>3 DEF Relabelled, Queues
  <2> HIDE DEF b
  <2>9. Free(b, t)
    BY <2>3, <2>7 DEF Free
  <2> DEFINE c == InsertThread(b, t)
  <2>10. /\ c \in Queues /\ QueuesSound(c)
         /\ c.stat = [b.stat EXCEPT ![t] = "ready"]
         /\ c.prio = b.prio /\ c.wait = b.wait
    BY <2>7, <2>9, InsertLemma
  <2>11. r = [stat |-> [m.stat EXCEPT ![t] = "ready"], prio |-> n.prio,
              ready |-> [m.ready EXCEPT ![n.prio[t]] = Append(m.ready[n.prio[t]], t)],
              group |-> m.group \union {n.prio[t]}, wait |-> m.wait,
              defunct |-> m.defunct]
    <3>1. /\ n.stat = m.stat /\ n.ready = m.ready /\ n.group = m.group
          /\ n.wait = m.wait /\ n.defunct = m.defunct
      BY <2>6
    <3> QED BY <2>4, <2>6, <3>1 DEF InsertThread, Queues
  <2>12. c = [stat |-> [b.stat EXCEPT ![t] = "ready"], prio |-> b.prio,
              ready |-> [m.ready EXCEPT ![b.prio[t]] = Append(m.ready[b.prio[t]], t)],
              group |-> m.group \union {b.prio[t]}, wait |-> m.wait,
              defunct |-> m.defunct]
    BY <2>5, <2>7 DEF InsertThread, Queues
  <2> HIDE DEF c
  <2>13. b.prio = n.prio
    BY <2>5, <2>6, <2>8
  <2>14. b.prio = [q.prio EXCEPT ![t] = p]
    BY <2>3, <2>8
  <2>15. [b.stat EXCEPT ![t] = "ready"] = q.stat /\ [m.stat EXCEPT ![t] = "ready"] = q.stat
    <3>1. q.stat \in [Threads -> Stats]
      BY DEF Queues
    <3> DEFINE f == q.stat
    <3>2. b.stat = [[f EXCEPT ![t] = "init"] EXCEPT ![t] = "init"] /\ m.stat = f
      BY <2>1, <2>3, <2>7
    <3>3. f \in [Threads -> Stats] /\ f[t] = "ready"
      BY <1>2, <3>1
    <3> HIDE DEF f
    <3>4. [b.stat EXCEPT ![t] = "ready"] = f /\ [m.stat EXCEPT ![t] = "ready"] = f
      BY <3>2, <3>3
    <3> QED BY <3>4 DEF f
  <2>16. r = c
    BY <2>11, <2>12, <2>13, <2>15
  <2> QED BY <2>1, <2>10, <2>12, <2>14, <2>15, <2>16
<1> QED BY <1>1, <1>2

\* Putting a thread at place i: those from i on move down.
LEMMA InsertAtPlace ==
    ASSUME NEW l \in Seq(Threads), NEW t \in Threads, NEW i \in 1..Len(l) + 1
    PROVE  /\ InsertAt(l, i, t) \in Seq(Threads)
           /\ Len(InsertAt(l, i, t)) = Len(l) + 1
           /\ \A j \in 1..Len(l) + 1 :
                 InsertAt(l, i, t)[j] = IF j < i THEN l[j] ELSE IF j = i THEN t ELSE l[j-1]
<1> DEFINE u == SubSeq(l, 1, i-1)
           v == SubSeq(l, i, Len(l))
           w == u \o <<t>>
           r == InsertAt(l, i, t)
<1>1. /\ u \in Seq(Threads) /\ Len(u) = i - 1
      /\ v \in Seq(Threads) /\ Len(v) = Len(l) - i + 1
      /\ \A j \in 1..(i-1) : u[j] = l[j]
      /\ \A j \in 1..(Len(l) - i + 1) : v[j] = l[j+i-1]
  BY SubSeqProperties
<1>2. r = w \o v
  BY DEF InsertAt
<1> HIDE DEF u, v, r
<1>3. w = Append(u, t)
  BY <1>1
<1> HIDE DEF w
<1>4. w \in Seq(Threads) /\ Len(w) = i
  BY <1>1, <1>3
<1>5. \A j \in 1..i : w[j] = IF j < i THEN l[j] ELSE t
  <2> SUFFICES ASSUME NEW j \in 1..i PROVE w[j] = IF j < i THEN l[j] ELSE t
    OBVIOUS
  <2>1. w[j] = IF j < i THEN u[j] ELSE t
    BY <1>1, <1>3
  <2>2. j < i => u[j] = l[j]
    BY <1>1
  <2> QED BY <2>1, <2>2
<1>6. /\ r \in Seq(Threads) /\ Len(r) = Len(l) + 1
      /\ \A j \in 1..Len(l) + 1 : r[j] = IF j =< i THEN w[j] ELSE v[j - i]
  <2>1. w \in Seq(Threads) /\ v \in Seq(Threads) /\ Len(w) = i /\ Len(v) = Len(l) - i + 1
    BY <1>1, <1>4
  <2>2. /\ r \in Seq(Threads) /\ Len(r) = Len(w) + Len(v)
        /\ \A j \in 1..Len(w) + Len(v) : r[j] = IF j =< Len(w) THEN w[j] ELSE v[j - Len(w)]
    BY <1>2, <2>1, ConcatProperties
  <2>3. Len(w) + Len(v) = Len(l) + 1
    BY <2>1
  <2> QED BY <2>1, <2>2, <2>3
<1>7. \A j \in 1..Len(l) + 1 : r[j] = IF j < i THEN l[j] ELSE IF j = i THEN t ELSE l[j-1]
  <2> SUFFICES ASSUME NEW j \in 1..Len(l) + 1
               PROVE  r[j] = IF j < i THEN l[j] ELSE IF j = i THEN t ELSE l[j-1]
    OBVIOUS
  <2>1. r[j] = IF j =< i THEN w[j] ELSE v[j - i]
    BY <1>6
  <2>2. CASE j =< i
    <3>1. j \in 1..i
      BY <2>2
    <3> QED BY <1>5, <2>1, <2>2, <3>1
  <2>3. CASE j > i
    <3>1. j - i \in 1..(Len(l) - i + 1) /\ (j - i) + i - 1 = j - 1
      BY <2>3
    <3>2. v[j - i] = l[j - 1]
      BY <1>1, <3>1
    <3> QED BY <2>1, <2>3, <3>2
  <2> QED BY <2>2, <2>3
<1> QED BY <1>6, <1>7 DEF r

\* The list stays free of repetitions.
LEMMA InsertAtDistinct ==
    ASSUME NEW l \in Seq(Threads), Distinct(l), NEW t \in Threads, t \notin Range(l),
           NEW i \in 1..Len(l) + 1
    PROVE  Distinct(InsertAt(l, i, t))
<1> DEFINE r == InsertAt(l, i, t)
<1>1. /\ r \in Seq(Threads) /\ Len(r) = Len(l) + 1
      /\ \A j \in 1..Len(l) + 1 : r[j] = IF j < i THEN l[j] ELSE IF j = i THEN t ELSE l[j-1]
  BY InsertAtPlace
<1> HIDE DEF r
<1> DEFINE From(j) == IF j < i THEN j ELSE j - 1
<1>2. ASSUME NEW j \in 1..Len(l) + 1, j # i
      PROVE  From(j) \in 1..Len(l) /\ r[j] = l[From(j)] /\ r[j] # t
  <2>1. From(j) \in 1..Len(l)
    BY <1>2
  <2>2. r[j] = l[From(j)]
    BY <1>1, <1>2
  <2>3. l[From(j)] \in Range(l)
    BY <2>1 DEF Range
  <2> QED BY <2>1, <2>2, <2>3
<1>3. r[i] = t
  BY <1>1
<1> SUFFICES ASSUME NEW j \in 1..Len(l) + 1, NEW k \in 1..Len(l) + 1, r[j] = r[k]
             PROVE  j = k
  BY <1>1 DEF Distinct, r
<1>4. CASE j # i /\ k # i
  <2>1. PICK a \in DOMAIN l : a = From(j) /\ r[j] = l[a]
    BY <1>2, <1>4
  <2>2. PICK b \in DOMAIN l : b = From(k) /\ r[k] = l[b]
    BY <1>2, <1>4
  <2>3. a = b
    BY <2>1, <2>2 DEF Distinct
  <2> QED BY <1>4, <2>1, <2>2, <2>3
<1>5. CASE j = i \/ k = i
  BY <1>2, <1>3, <1>5
<1> QED BY <1>4, <1>5

\* A place among waiters that are as urgent as t or more, up to it, and the first
\* of which behind it is less urgent.
PlaceFor(q, l, t, i) ==
    /\ i \in 1..Len(l) + 1
    /\ \A j \in 1..Len(l) : j < i => q.prio[l[j]] =< q.prio[t]
    /\ i =< Len(l) => q.prio[t] < q.prio[l[i]]

\* rt_ipc_list_suspend with RT_IPC_FLAG_PRIO on a ready thread.
LEMMA WaitPrioLemma ==
    ASSUME NEW q \in Queues, QueuesSound(q), NEW t \in Threads, q.stat[t] = "ready",
           NEW o \in Objects, NEW r, r = WaitPrio(q, o, t)
    PROVE  /\ r \in Queues /\ QueuesSound(r) /\ Queued(q, r, o, t)
           /\ \E i : /\ PlaceFor(q, q.wait[o], t, i)
                     /\ \A x \in Objects :
                           r.wait[x] = IF x = o THEN InsertAt(q.wait[o], i, t) ELSE q.wait[x]
<1> DEFINE s == Suspended(q, t)
           l == q.wait[o]
           less == {i \in DOMAIN l : q.prio[t] < q.prio[l[i]]}
           at == IF less = {} THEN Len(l) + 1 ELSE Min(less)
<1>1. /\ s \in Queues /\ QueuesSound(s) /\ Free(s, t)
      /\ s.stat = [q.stat EXCEPT ![t] = "suspend"] /\ s.prio = q.prio
      /\ Range(s.defunct) = Range(q.defunct)
  BY SuspendLemma
<1>2. s.wait = q.wait
  BY WaitKept
<1>3. r = Waiting(s, o, InsertAt(l, at, t))
  <2>1. r = LET sl   == s.wait[o]
                lss == {i \in DOMAIN sl : s.prio[t] < s.prio[sl[i]]}
                a   == IF lss = {} THEN Len(sl) + 1 ELSE Min(lss)
            IN  Waiting(s, o, InsertAt(sl, a, t))
    BY DEF WaitPrio, Waiting
  <2> HIDE DEF s
  <2> QED BY <1>1, <1>2, <2>1
<1> HIDE DEF s
<1>4. s.stat[t] = "suspend"
  BY <1>1 DEF Queues
<1>5. l \in Seq(Threads) /\ Distinct(l) /\ t \notin Range(l)
  BY <1>1, <1>2 DEF Queues, QueuesSound, ListsSound, Free
<1>6. \A x \in Threads : q.prio[x] \in Nat
  BY QueueAssumption DEF Queues, Prios
<1> HIDE DEF l
<1>7. \A j \in 1..Len(l) : l[j] \in Threads /\ q.prio[l[j]] \in Nat
  BY <1>5, <1>6
<1>8. PlaceFor(q, l, t, at)
  <2>1. less \subseteq 1..Len(l) /\ \A j \in 1..Len(l) : j \in less <=> q.prio[t] < q.prio[l[j]]
    BY <1>5
  <2>2. less = {} => at = Len(l) + 1
    OBVIOUS
  <2>3. less # {} => at = Min(less)
    OBVIOUS
  <2> HIDE DEF less, at
  <2>4. CASE less = {}
    BY <1>5, <1>6, <1>7, <2>1, <2>2, <2>4 DEF PlaceFor
  <2>5. CASE less # {}
    <3>1. less \in SUBSET Nat
      BY <2>1
    <3>2. at \in less /\ \A y \in less : at =< y
      BY <2>3, <2>5, <3>1, MinLemma
    <3>3. at \in 1..Len(l) /\ q.prio[t] < q.prio[l[at]]
      BY <2>1, <3>2
    <3>4. ASSUME NEW j \in 1..Len(l), j < at PROVE q.prio[l[j]] =< q.prio[t]
      <4>1. j \notin less
        BY <3>2, <3>3, <3>4
      <4> QED BY <1>6, <1>7, <2>1, <4>1
    <3> QED BY <1>5, <3>3, <3>4 DEF PlaceFor
  <2> QED BY <2>4, <2>5
<1> DEFINE n == InsertAt(l, at, t)
<1>9. n \in Seq(Threads) /\ Distinct(n) /\ Range(n) = Range(l) \union {t}
  <2> HIDE DEF at
  <2>1. at \in 1..Len(l) + 1
    BY <1>8 DEF PlaceFor
  <2> QED BY <1>5, <2>1, InsertAtLemma, InsertAtDistinct
<1>10. l = s.wait[o] /\ l = q.wait[o]
  BY <1>2 DEF l
<1> HIDE DEF at, n
<1>11. r = Waiting(s, o, n)
  BY <1>3 DEF n
<1>12. /\ r \in Queues /\ QueuesSound(r)
       /\ r.stat = s.stat /\ r.prio = s.prio /\ r.defunct = s.defunct
       /\ \A x \in Objects : r.wait[x] = IF x = o THEN n ELSE s.wait[x]
  <2>1. Range(n) = Range(s.wait[o]) \union {t} /\ n \in Seq(Threads) /\ Distinct(n)
    BY <1>9, <1>10
  <2>2. s \in Queues /\ QueuesSound(s) /\ Free(s, t)
    BY <1>1
  <2> QED BY <1>4, <1>11, <2>1, <2>2, WaitListLemma
<1>13. Queued(q, r, o, t)
  BY <1>1, <1>2, <1>9, <1>10, <1>12 DEF Queued
<1> QED BY <1>2, <1>8, <1>10, <1>12, <1>13 DEF n

\* The waiters are in the order of their priorities.
InOrder(l, f) == \A i, j \in DOMAIN l : i < j => f[l[i]] =< f[l[j]]

\* The first one is as urgent as any, ...
LEMMA OrderHead ==
    ASSUME NEW l \in Seq(Threads), l # <<>>, NEW f \in [Threads -> Nat], InOrder(l, f)
    PROVE  Head(l) \in Threads /\ \A x \in Range(l) : f[Head(l)] =< f[x]
<1>1. /\ Head(l) = l[1] /\ DOMAIN l = 1..Len(l) /\ 1 \in DOMAIN l
      /\ \A i \in DOMAIN l : l[i] \in Threads
  OBVIOUS
<1>2. ASSUME NEW x \in Range(l) PROVE f[Head(l)] =< f[x]
  <2>1. PICK i \in DOMAIN l : l[i] = x
    BY DEF Range
  <2>2. f[l[i]] \in Nat
    BY <1>1
  <2>3. i = 1 \/ 1 < i
    BY <1>1
  <2> QED BY <1>1, <2>1, <2>2, <2>3 DEF InOrder
<1> QED BY <1>1, <1>2

\* ... only their own priorities matter, ...
LEMMA OrderSame ==
    ASSUME NEW l \in Seq(Threads), NEW f, InOrder(l, f),
           NEW g, \A x \in Range(l) : g[x] = f[x]
    PROVE  InOrder(l, g)
<1>1. \A i \in DOMAIN l : g[l[i]] = f[l[i]]
  BY DEF Range
<1> QED BY <1>1 DEF InOrder

\* ... who leaves does not disturb the order, ...
LEMMA UnlinkInOrder ==
    ASSUME NEW l \in Seq(Threads), NEW t, NEW f, InOrder(l, f)
    PROVE  InOrder(Unlink(l, t), f)
<1>1. CASE t \notin Range(l)
  BY <1>1 DEF Unlink
<1>2. CASE t \in Range(l)
  <2> DEFINE k == IndexOf(l, t)
             r == Unlink(l, t)
  <2>1. /\ k \in 1..Len(l) /\ r \in Seq(Threads) /\ Len(r) = Len(l) - 1
        /\ \A i \in 1..Len(l) - 1 : r[i] = IF i < k THEN l[i] ELSE l[i+1]
    BY <1>2, UnlinkPlace
  <2> HIDE DEF k, r
  <2>2. SUFFICES ASSUME NEW i \in 1..Len(l) - 1, NEW j \in 1..Len(l) - 1, i < j
                 PROVE  f[r[i]] =< f[r[j]]
    BY <2>1 DEF InOrder, r
  <2>3. PICK a \in DOMAIN l : r[i] = l[a] /\ a = IF i < k THEN i ELSE i + 1
    BY <2>1
  <2>4. PICK b \in DOMAIN l : r[j] = l[b] /\ b = IF j < k THEN j ELSE j + 1
    BY <2>1
  <2>5. a < b
    BY <2>1, <2>2, <2>3, <2>4
  <2> QED BY <2>3, <2>4, <2>5 DEF InOrder
<1> QED BY <1>1, <1>2

\* ... and rt_ipc_list_suspend keeps it.
LEMMA InsertInOrder ==
    ASSUME NEW q \in Queues, NEW l \in Seq(Threads), NEW t \in Threads,
           InOrder(l, q.prio), NEW i, PlaceFor(q, l, t, i)
    PROVE  InOrder(InsertAt(l, i, t), q.prio)
<1> DEFINE f == q.prio
           r == InsertAt(l, i, t)
<1>1. /\ i \in 1..Len(l) + 1
      /\ \A j \in 1..Len(l) : j < i => f[l[j]] =< f[t]
      /\ i =< Len(l) => f[t] < f[l[i]]
  BY DEF PlaceFor
<1>2. /\ r \in Seq(Threads) /\ Len(r) = Len(l) + 1
      /\ \A j \in 1..Len(l) + 1 : r[j] = IF j < i THEN l[j] ELSE IF j = i THEN t ELSE l[j-1]
  BY <1>1, InsertAtPlace
<1>3. f[t] \in Nat /\ \A j \in 1..Len(l) : f[l[j]] \in Nat
  BY QueueAssumption DEF Queues, Prios
<1>4. \A a, b \in 1..Len(l) : a < b => f[l[a]] =< f[l[b]]
  BY DEF InOrder
<1> HIDE DEF f, r
<1>5. ASSUME NEW j \in 1..Len(l), i =< j PROVE f[t] =< f[l[j]]
  <2>1. i \in 1..Len(l) /\ f[t] < f[l[i]] /\ f[l[i]] \in Nat /\ f[l[j]] \in Nat
    BY <1>1, <1>3, <1>5
  <2>2. i = j \/ i < j
    BY <1>1, <1>5
  <2>3. i < j => f[l[i]] =< f[l[j]]
    BY <1>4, <2>1
  <2> QED BY <1>3, <2>1, <2>2, <2>3
<1>6. SUFFICES ASSUME NEW a \in 1..Len(l) + 1, NEW b \in 1..Len(l) + 1, a < b
               PROVE  f[r[a]] =< f[r[b]]
  BY <1>2 DEF InOrder, f, r
<1>7. CASE a < i
  <2>1. a \in 1..Len(l) /\ r[a] = l[a]
    BY <1>1, <1>2, <1>6, <1>7
  <2>2. CASE b < i
    <3>1. b \in 1..Len(l) /\ r[b] = l[b]
      BY <1>1, <1>2, <2>2
    <3> QED BY <1>4, <1>6, <2>1, <3>1
  <2>3. CASE b = i
    <3>1. r[b] = t
      BY <1>2, <2>3
    <3> QED BY <1>1, <1>7, <2>1, <3>1
  <2>4. CASE b > i
    <3>1. b - 1 \in 1..Len(l) /\ r[b] = l[b-1] /\ a < b - 1
      BY <1>1, <1>2, <1>7, <2>4
    <3> QED BY <1>4, <2>1, <3>1
  <2> QED BY <1>1, <2>2, <2>3, <2>4
<1>8. CASE a = i
  <2>1. r[a] = t /\ b - 1 \in 1..Len(l) /\ r[b] = l[b-1] /\ i =< b - 1
    BY <1>1, <1>2, <1>6, <1>8
  <2> QED BY <1>5, <2>1
<1>9. CASE a > i
  <2>1. /\ a - 1 \in 1..Len(l) /\ r[a] = l[a-1] /\ b - 1 \in 1..Len(l) /\ r[b] = l[b-1]
        /\ a - 1 < b - 1
    BY <1>1, <1>2, <1>6, <1>9
  <2> QED BY <1>4, <2>1
<1> QED BY <1>1, <1>7, <1>8, <1>9

-----------------------------------------------------------------------------
(* The end of a slice, and the lists threads start on.                      *)

\* rt_thread_yield moves a ready thread to the end of its list.
BackOfLine(q, t) ==
    [q EXCEPT !.ready[q.prio[t]] = Append(Unlink(q.ready[q.prio[t]], t), t)]

LEMMA BackOfLineLemma ==
    ASSUME NEW r \in Queues, QueuesSound(r), NEW t \in Threads, r.stat[t] = "ready",
           NEW s, s = BackOfLine(r, t)
    PROVE  /\ s \in Queues /\ QueuesSound(s)
           /\ s.stat = r.stat /\ s.prio = r.prio /\ s.wait = r.wait
           /\ s.defunct = r.defunct
<1> DEFINE p == r.prio[t]
           l == Append(Unlink(r.ready[p], t), t)
<1>1. p \in Prios /\ r.ready[p] \in Seq(Threads) /\ Distinct(r.ready[p])
      /\ t \in Range(r.ready[p])
  BY DEF Queues, QueuesSound, ListsSound, ReadyLinked
<1>2. l \in Seq(Threads) /\ l # <<>> /\ Distinct(l) /\ Range(l) = Range(r.ready[p])
  <2> DEFINE k == Unlink(r.ready[p], t)
  <2>1. k \in Seq(Threads) /\ Distinct(k) /\ Range(k) = Range(r.ready[p]) \ {t}
    BY <1>1, UnlinkLemma
  <2>2. l = Append(k, t)
    OBVIOUS
  <2> HIDE DEF k, l
  <2>3. l \in Seq(Threads) /\ l # <<>> /\ Distinct(l) /\ Range(l) = Range(k) \union {t}
    BY <2>1, <2>2, AppendLemma
  <2> QED BY <1>1, <2>1, <2>3
<1>3. s = [stat |-> r.stat, prio |-> r.prio, ready |-> [r.ready EXCEPT ![p] = l],
           group |-> r.group, wait |-> r.wait, defunct |-> r.defunct]
  BY DEF BackOfLine, Queues
<1> HIDE DEF l, p
<1>4. s \in Queues
  <2>1. /\ r.stat \in [Threads -> Stats] /\ r.prio \in [Threads -> Prios]
        /\ [r.ready EXCEPT ![p] = l] \in [Prios -> Seq(Threads)]
        /\ r.group \in SUBSET Prios /\ r.wait \in [Objects -> Seq(Threads)]
        /\ r.defunct \in Seq(Threads)
    BY <1>1, <1>2 DEF Queues
  <2>2. [stat |-> r.stat, prio |-> r.prio, ready |-> [r.ready EXCEPT ![p] = l],
         group |-> r.group, wait |-> r.wait, defunct |-> r.defunct] \in Queues
    BY <2>1, QueuesIntro
  <2> QED BY <1>3, <2>2
<1>5. /\ s.stat = r.stat /\ s.prio = r.prio /\ s.group = r.group
      /\ s.wait = r.wait /\ s.defunct = r.defunct /\ s.ready = [r.ready EXCEPT ![p] = l]
  BY <1>3
<1>6. \A x \in Prios : s.ready[x] = IF x = p THEN l ELSE r.ready[x]
  <2>1. r.ready \in [Prios -> Seq(Threads)]
    BY DEF Queues
  <2> QED BY <1>5, <2>1
<1>7. \A x \in Prios : Distinct(s.ready[x]) /\ Range(s.ready[x]) = Range(r.ready[x])
  BY <1>2, <1>6 DEF QueuesSound, ListsSound
<1>8. ListsSound(s)
  BY <1>5, <1>7 DEF QueuesSound, ListsSound
<1>9. ReadyLinked(s)
  <2>1. \A x \in Threads : r.prio[x] \in Prios
    BY DEF Queues
  <2> QED BY <1>5, <1>7, <2>1 DEF QueuesSound, ReadyLinked
<1>10. GroupExact(s)
  <2>1. r.ready[p] # <<>>
    BY <1>1, EmptyLemma
  <2>2. \A x \in Prios : s.ready[x] # <<>> <=> r.ready[x] # <<>>
    BY <1>2, <1>6, <2>1
  <2> QED BY <1>5, <2>2 DEF QueuesSound, GroupExact
<1> QED BY <1>4, <1>5, <1>8, <1>9, <1>10 DEF QueuesSound

\* The enumeration of a finite set has each of its members once.
LEMMA SetToSeqLemma ==
    ASSUME NEW S, IsFiniteSet(S)
    PROVE  /\ SetToSeq(S) \in Seq(S) /\ Range(SetToSeq(S)) = S
           /\ \A i, j \in DOMAIN SetToSeq(S) : SetToSeq(S)[i] = SetToSeq(S)[j] => i = j
<1>1. Cardinality(S) \in Nat /\ ExistsBijection(1..Cardinality(S), S)
  BY FS_CardinalityType
<1> DEFINE n == Cardinality(S)
           s == SetToSeq(S)
<1>2. PICK g \in Bijection(1..n, S) : TRUE
  BY <1>1 DEF ExistsBijection
<1>3. g \in [1..n -> S] /\ IsInjective(g)
  BY <1>2 DEF Bijection, Injection
<1>4. s \in [1..n -> S] /\ IsInjective(s)
  BY <1>3 DEF SetToSeq
<1>5. s \in Injection(1..n, S)
  BY <1>4 DEF Injection
<1>6. IsFiniteSet(1..n) /\ Cardinality(1..n) = n
  BY <1>1, FS_Interval
<1> HIDE DEF s
<1>7. s \in Surjection(1..n, S)
  BY <1>5, <1>6, FS_Injection
<1>8. Range(s) = S
  BY <1>4, <1>7 DEF Surjection, Range
<1>9. s \in Seq(S)
  BY <1>1, <1>4
<1>10. \A i, j \in DOMAIN s : s[i] = s[j] => i = j
  BY <1>4 DEF IsInjective
<1> QED BY <1>8, <1>9, <1>10 DEF s
=============================================================================
