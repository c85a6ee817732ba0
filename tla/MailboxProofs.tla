--------------------------- MODULE MailboxProofs ---------------------------
(***************************************************************************)
(* Theorems about Mailbox: for any threads, size and values, the mailbox   *)
(* is a bounded FIFO, no wake-up is lost on either of its suspend lists,   *)
(* and a deletion leaves nobody but who came back while it was under way.  *)
(***************************************************************************)
EXTENDS Mailbox, SequenceTheorems, FiniteSetTheorems, TLAPS

-----------------------------------------------------------------------------
(* The suspend lists                                                        *)

\* A list without repetitions.
Line(l) == l \in Seq(Threads) /\ \A i, j \in DOMAIN l : l[i] = l[j] => i = j

\* r is l without entry k: those behind it moved up.
Shorter(r, l, k) ==
    /\ r \in Seq(Threads) /\ Len(r) = Len(l) - 1 /\ k \in 1..Len(l)
    /\ \A i \in 1..Len(l) - 1 : r[i] = IF i < k THEN l[i] ELSE l[i+1]

LEMMA ShorterLine ==
    ASSUME NEW l, Line(l), NEW k, NEW r, Shorter(r, l, k)
    PROVE  Line(r) /\ Range(r) = Range(l) \ {l[k]}
<1>0. /\ r \in Seq(Threads) /\ Len(r) = Len(l) - 1 /\ k \in 1..Len(l)
      /\ \A i \in 1..Len(l) - 1 : r[i] = IF i < k THEN l[i] ELSE l[i+1]
  BY DEF Shorter
<1> DEFINE From(i) == IF i < k THEN i ELSE i + 1
<1>1. l \in Seq(Threads)
  BY DEF Line
<1>2. \A i \in 1..Len(l) - 1 : From(i) \in DOMAIN l \ {k} /\ r[i] = l[From(i)]
  BY <1>0, <1>1
<1>3. \A i, j \in 1..Len(l) - 1 : From(i) = From(j) => i = j
  BY <1>0, <1>1
<1>4. \A x \in DOMAIN l \ {k} : \E i \in 1..Len(l) - 1 : From(i) = x
  <2> TAKE x \in DOMAIN l \ {k}
  <2>1. CASE x < k
    BY <1>0, <1>1, <2>1
  <2>2. CASE x > k
    <3>1. x - 1 \in 1..Len(l) - 1 /\ From(x - 1) = x
      BY <1>0, <1>1, <2>2
    <3> QED BY <3>1
  <2> QED BY <1>0, <1>1, <2>1, <2>2
<1> HIDE DEF From
<1>5. DOMAIN r = 1..Len(l) - 1
  BY <1>0
<1>6. Line(r)
  BY <1>0, <1>2, <1>3, <1>5 DEF Line
<1>7. Range(r) = Range(l) \ {l[k]}
  <2>1. \A x \in DOMAIN l : l[x] = l[k] => x = k
    BY <1>0, <1>1 DEF Line
  <2>2. \A x \in Range(r) : x \in Range(l) /\ x # l[k]
    BY <1>2, <1>5, <2>1 DEF Range
  <2>3. ASSUME NEW x \in Range(l), x # l[k] PROVE x \in Range(r)
    <3>1. PICK y \in DOMAIN l \ {k} : l[y] = x
      BY <2>3 DEF Range
    <3>2. PICK i \in DOMAIN r : From(i) = y
      BY <1>4, <1>5
    <3> QED BY <1>2, <1>5, <3>1, <3>2 DEF Range
  <2> QED BY <2>2, <2>3
<1> QED BY <1>6, <1>7

\* The first waiter goes.
LEMMA TailLemma ==
    ASSUME NEW l, Line(l), l # <<>>
    PROVE  /\ Line(Tail(l)) /\ Range(Tail(l)) = Range(l) \ {Head(l)}
           /\ Head(l) \in Range(l)
<1>1. /\ l \in Seq(Threads) /\ Head(l) = l[1] /\ 1 \in 1..Len(l) /\ DOMAIN l = 1..Len(l)
  BY DEF Line
<1>2. Shorter(Tail(l), l, 1)
  BY <1>1 DEF Shorter
<1>3. Line(Tail(l)) /\ Range(Tail(l)) = Range(l) \ {Head(l)}
  BY <1>1, <1>2, ShorterLine
<1> QED BY <1>1, <1>3 DEF Range

\* rt_list_remove of a waiter.
LEMMA WithoutLemma ==
    ASSUME NEW l, Line(l), NEW t \in Range(l)
    PROVE  Line(Without(l, t)) /\ Range(Without(l, t)) = Range(l) \ {t}
<1>1. l \in Seq(Threads)
  BY DEF Line
<1>2. PICK k \in 1..Len(l) : l[k] = t /\ Without(l, t) = RemoveAt(l, k)
  <2> DEFINE k == CHOOSE i \in DOMAIN l : l[i] = t
  <2>1. \E i \in DOMAIN l : l[i] = t
    BY DEF Range
  <2>2. k \in DOMAIN l /\ l[k] = t /\ DOMAIN l = 1..Len(l)
    BY <1>1, <2>1
  <2>3. Without(l, t) = RemoveAt(l, k)
    BY DEF Without
  <2> HIDE DEF k
  <2> QED BY <2>2, <2>3
<1> DEFINE u == SubSeq(l, 1, k-1)
           v == SubSeq(l, k+1, Len(l))
<1>3. Without(l, t) = u \o v
  BY <1>2 DEF RemoveAt
<1>4. /\ u \in Seq(Threads) /\ Len(u) = k - 1
      /\ v \in Seq(Threads) /\ Len(v) = Len(l) - k
      /\ \A i \in 1..(k-1) : u[i] = l[i]
      /\ \A i \in 1..(Len(l) - k) : v[i] = l[i+k]
  BY <1>1, SubSeqProperties
<1> HIDE DEF u, v
<1> DEFINE r == u \o v
<1>5. /\ r \in Seq(Threads) /\ Len(r) = Len(l) - 1
      /\ \A i \in 1..Len(l) - 1 : r[i] = IF i <= Len(u) THEN u[i] ELSE v[i - Len(u)]
  <2>1. /\ r \in Seq(Threads) /\ Len(r) = Len(u) + Len(v)
        /\ \A i \in 1..Len(u) + Len(v) : r[i] = IF i <= Len(u) THEN u[i] ELSE v[i - Len(u)]
    BY <1>4, ConcatProperties
  <2>2. Len(u) + Len(v) = Len(l) - 1
    BY <1>1, <1>4
  <2> QED BY <2>1, <2>2
<1> HIDE DEF r
<1>6. \A i \in 1..Len(l) - 1 : r[i] = IF i < k THEN l[i] ELSE l[i+1]
  <2> TAKE i \in 1..Len(l) - 1
  <2>1. CASE i < k
    <3>1. i \in 1..(k-1)
      BY <1>1, <2>1
    <3> QED BY <1>4, <1>5, <2>1, <3>1
  <2>2. CASE ~(i < k)
    <3>1. i - (k-1) \in 1..(Len(l) - k) /\ (i - (k-1)) + k = i + 1
      BY <1>1, <2>2
    <3> QED BY <1>4, <1>5, <2>2, <3>1
  <2> QED BY <2>1, <2>2
<1>7. Without(l, t) = r /\ Shorter(r, l, k)
  BY <1>3, <1>5, <1>6 DEF r, Shorter
<1> QED BY <1>2, <1>7, ShorterLine

\* rt_ipc_list_suspend appends.
LEMMA AppendLemma ==
    ASSUME NEW l, Line(l), NEW t \in Threads, t \notin Range(l)
    PROVE  Line(Append(l, t)) /\ Range(Append(l, t)) = Range(l) \union {t}
<1> DEFINE r == Append(l, t)
<1>1. l \in Seq(Threads) /\ DOMAIN l = 1..Len(l)
  BY DEF Line
<1>2. /\ r \in Seq(Threads) /\ DOMAIN r = 1..Len(l) + 1
      /\ \A i \in 1..Len(l) : r[i] = l[i]
      /\ r[Len(l) + 1] = t
  BY <1>1, AppendProperties
<1> HIDE DEF r
<1>3. \A i \in DOMAIN l : l[i] # t
  BY DEF Range
<1>4. \A i \in DOMAIN r : i \in DOMAIN l \/ i = Len(l) + 1
  BY <1>1, <1>2
<1>5. \A i \in DOMAIN l : i \in DOMAIN r
  BY <1>1, <1>2
<1>6. Len(l) + 1 \in DOMAIN r
  BY <1>1, <1>2
<1>7. Line(r)
  BY <1>1, <1>2, <1>3, <1>4 DEF Line
<1>8. Range(r) = Range(l) \union {t}
  BY <1>1, <1>2, <1>4, <1>5, <1>6 DEF Range
<1> QED BY <1>7, <1>8 DEF r

-----------------------------------------------------------------------------
(* The inductive invariant                                                  *)

Labels == {"idle", "send", "send_waits", "recv_waits", "return"}

\* A process sends a value while it is in rt_mb_send_wait and has received one
\* only between the section that took it and its return; no handler waits.
Calling ==
    /\ pc \in [Procs -> Labels] /\ pc[Isr] \notin {"send_waits", "recv_waits"}
    /\ arg \in [Procs -> Values \union {None}]
    /\ \A p \in Procs : arg[p] # None <=> pc[p] \in {"send", "send_waits"}
    /\ got \in [Procs -> Values \union {None}]
    /\ \A p \in Procs : got[p] # None <=> pc[p] = "return"

\* The word that holds mail k + 1.
Word(k) == (outOffset + k) % Size

\* The offsets and the count delimit one range of words, and mails are in it.
Ring ==
    /\ pool \in [0..Size - 1 -> Values \union {None}]
    /\ outOffset \in 0..Size - 1 /\ entry \in 0..Size
    /\ inOffset = Word(entry)
    /\ \A k \in 0..entry - 1 : pool[Word(k)] \in Values

\* Who is on a suspend list is in that call and was told nothing yet.
Suspends ==
    /\ list \in [Sides -> Seq(Threads)]
    /\ armed \subseteq Range(list["send"]) \union Range(list["recv"])
    /\ err \in [Threads -> {"ok", "timeout", "error"}]
    /\ \A s \in Sides :
          Line(list[s]) /\ \A t \in Range(list[s]) : pc[t] = Waiting[s] /\ err[t] = "ok"

\* What a side waits for: mails, or free words.
There(s) == IF s = "recv" THEN entry ELSE Size - entry

\* NobodyForgotten, for both sides alike.
Forgotten == \A s \in Sides : list[s] # <<>> => There(s) =< Cardinality(Woken(s))

\* A deletion that is done with a side left nobody there who was not woken before.
Swept ==
    /\ phase \in {"send", "send_take", "free", "gone"} => Range(list["recv"]) \subseteq again
    /\ phase \in {"free", "gone"} => Range(list["send"]) \subseteq again

Inv == Calling /\ Ring /\ Suspends /\ Forgotten /\ Swept

LEMMA Labelled ==
    /\ Sides = {"send", "recv"} /\ "send" # "recv"
    /\ Waiting["send"] = "send_waits" /\ Waiting["recv"] = "recv_waits"
    /\ Taking["send"] = "send_take" /\ Taking["recv"] = "recv_take"
BY DEF Sides, Waiting, Taking

LEMMA WokenLemma ==
    ASSUME MailboxAssumption, NEW s \in Sides
    PROVE  IsFiniteSet(Woken(s)) /\ Cardinality(Woken(s)) \in Nat
<1>1. Woken(s) \subseteq Threads
  BY DEF Woken
<1> QED BY <1>1, FS_Subset, FS_CardinalityType DEF MailboxAssumption

\* Who runs is on no list.
LEMMA RunsLemma ==
    ASSUME MailboxAssumption, Suspends, NEW p \in Procs, Runs(p), NEW s \in Sides
    PROVE  p \notin Range(list[s])
<1>1. CASE p = Isr
  BY <1>1 DEF Suspends, Line, Range, MailboxAssumption
<1>2. CASE p # Isr
  BY <1>2 DEF Runs, Suspended
<1> QED BY <1>1, <1>2

\* Who looks at mb->entry is in its call and on no list.
LEMMA LooksLemma ==
    ASSUME MailboxAssumption, Calling, Suspends, NEW p \in Procs, NEW s \in Sides,
           NEW first \in {"idle", "send"}, NEW m, Looks(p, s, first, m)
    PROVE  /\ \A x \in Sides : p \notin Range(list[x])
           /\ pc[p] \in {first, Waiting[s]}
           /\ m # "no" => p \in Threads
<1>1. Runs(p) /\ pc[p] \in {first, Waiting[s]}
  BY DEF Looks
<1>2. \A x \in Sides : p \notin Range(list[x])
  BY <1>1, RunsLemma
<1>3. ASSUME p = Isr, m # "no" PROVE FALSE
  <2>1. pc[p] \notin {"send_waits", "recv_waits"} /\ Waiting[s] \in {"send_waits", "recv_waits"}
    BY <1>3, Labelled DEF Calling
  <2> QED BY <1>3, <2>1 DEF Looks
<1> QED BY <1>1, <1>2, <1>3 DEF Procs

-----------------------------------------------------------------------------
(* The steps as the suspend lists see them                                  *)

\* Process p, on no list, goes on to label l and is not woken for anything.
Leaves(p, l) ==
    /\ \A s \in Sides : p \notin Range(list[s])
    /\ l \in Labels \ {"send_waits", "recv_waits"}
    /\ pc' = [pc EXCEPT ![p] = l]

\* ... and nothing else changes for those who wait.
LEMMA LeaveStep ==
    ASSUME MailboxAssumption, Inv, NEW p \in Procs, NEW l, Leaves(p, l),
           UNCHANGED <<list, armed, entry>>,
           err' = err \/ (p \in Threads /\ err[p] # "ok" /\ err' = [err EXCEPT ![p] = "ok"]),
           \A s \in Sides : pc[p] = Waiting[s] => There(s) = 0 \/ (p \in Threads /\ err[p] # "ok")
    PROVE  Suspends' /\ Forgotten'
<1>1. /\ \A s \in Sides : p \notin Range(list[s])
      /\ l \notin {"send_waits", "recv_waits"}
      /\ pc \in [Procs -> Labels] /\ pc' = [pc EXCEPT ![p] = l]
  BY DEF Leaves, Inv, Calling
<1>2. \A t \in Threads \ {p} : pc'[t] = pc[t] /\ err'[t] = err[t]
  BY <1>1 DEF Procs, Inv, Suspends
<1>3. Suspends'
  <2>1. err' \in [Threads -> {"ok", "timeout", "error"}]
    BY DEF Inv, Suspends
  <2>2. \A s \in Sides : \A t \in Range(list[s]) : t \in Threads \ {p}
    BY <1>1 DEF Inv, Suspends, Range
  <2>3. \A s \in Sides : Line(list[s]) /\ \A t \in Range(list[s]) : pc[t] = Waiting[s] /\ err[t] = "ok"
    BY DEF Inv, Suspends
  <2> QED BY <1>2, <2>1, <2>2, <2>3 DEF Inv, Suspends, Line
<1>4. ASSUME NEW s \in Sides, list'[s] # <<>> PROVE There(s)' =< Cardinality(Woken(s)')
  <2>1. list[s] # <<>> /\ There(s)' = There(s) /\ There(s) =< Cardinality(Woken(s))
    BY <1>4 DEF There, Inv, Forgotten
  <2>2. Woken(s)' = Woken(s) \ {p}
    <3>1. pc'[p] # Waiting[s]
      BY <1>1, Labelled
    <3> QED BY <1>1, <1>2, <3>1 DEF Woken
  <2>3. CASE pc[p] = Waiting[s] /\ There(s) = 0
    <3>1. Cardinality(Woken(s)') \in Nat
      BY <2>2, WokenLemma, FS_RemoveElement, FS_CardinalityType
    <3> QED BY <2>1, <2>3, <3>1
  <2>4. CASE p \notin Woken(s)
    <3>1. Woken(s)' = Woken(s)
      BY <2>2, <2>4
    <3> QED BY <2>1, <3>1
  <2>5. p \in Woken(s) => pc[p] = Waiting[s] /\ err[p] = "ok"
    BY DEF Woken
  <2> QED BY <2>3, <2>4, <2>5
<1> QED BY <1>3, <1>4 DEF Forgotten

\* A call that found a mail or room takes it and wakes the first on the other
\* side o; one fewer is there on its own, one more on the other.
LEMMA PassStep ==
    ASSUME MailboxAssumption, Inv, NEW p \in Procs, NEW l, Leaves(p, l),
           NEW s \in Sides, NEW o \in Sides \ {s}, Wake(o), pc[p] # Waiting[o],
           There(s)' = There(s) - 1, There(o)' = There(o) + 1
    PROVE  Suspends' /\ Forgotten'
<1>1. /\ \A x \in Sides : p \notin Range(list[x])
      /\ l \notin {"send_waits", "recv_waits"}
      /\ pc \in [Procs -> Labels] /\ pc' = [pc EXCEPT ![p] = l] /\ err' = err
  BY DEF Leaves, Inv, Calling, Wake
<1>2. \A t \in Threads \ {p} : pc'[t] = pc[t]
  BY <1>1 DEF Procs
<1>3. \A x \in Sides : /\ Line(list[x])
                      /\ \A t \in Range(list[x]) : /\ t \in Threads \ {p}
                                                    /\ pc[t] = Waiting[x] /\ err[t] = "ok"
  BY <1>1 DEF Inv, Suspends, Line, Range
<1>4. entry \in Nat /\ Size \in Nat /\ There(s) \in Int /\ There(o) \in Int
  BY DEF Inv, Ring, MailboxAssumption, There
<1>5. /\ list' \in [Sides -> Seq(Threads)] /\ list'[s] = list[s] /\ Line(list'[o])
      /\ Range(list'[o]) \subseteq Range(list[o])
      /\ armed' \subseteq Range(list'["send"]) \union Range(list'["recv"])
      /\ \/ list[o] = <<>> /\ list'[o] = <<>>
         \/ \E h \in Range(list[o]) : Range(list'[o]) = Range(list[o]) \ {h}
  <2>1. CASE list[o] = <<>>
    BY <1>3, <2>1 DEF Wake, Inv, Suspends
  <2>2. CASE list[o] # <<>>
    <3>1. list' = [list EXCEPT ![o] = Tail(@)] /\ armed' = armed \ {Head(list[o])}
      BY <2>2 DEF Wake
    <3>2. PICK h : h = Head(list[o])
      OBVIOUS
    <3>3. Line(Tail(list[o])) /\ Range(Tail(list[o])) = Range(list[o]) \ {h} /\ h \in Range(list[o])
      BY <1>3, <2>2, <3>2, TailLemma
    <3>4. list \in [Sides -> Seq(Threads)] /\ Tail(list[o]) \in Seq(Threads)
      BY <3>3 DEF Inv, Suspends, Line
    <3>5. list' \in [Sides -> Seq(Threads)] /\ list'[s] = list[s] /\ list'[o] = Tail(list[o])
      BY <3>1, <3>4
    <3>6. armed' \subseteq Range(list'["send"]) \union Range(list'["recv"])
      BY <3>1, <3>2, <3>3, <3>5, Labelled DEF Inv, Suspends
    <3> QED BY <3>3, <3>5, <3>6
  <2> QED BY <2>1, <2>2
<1>6. Sides = {s, o}
  BY Labelled
<1>7. Suspends'
  <2>1. ASSUME NEW x \in Sides
        PROVE  Line(list'[x]) /\ \A t \in Range(list'[x]) : pc'[t] = Waiting[x] /\ err'[t] = "ok"
    BY <1>1, <1>2, <1>3, <1>5, <1>6
  <2>2. err' \in [Threads -> {"ok", "timeout", "error"}]
    BY <1>1 DEF Inv, Suspends
  <2> QED BY <1>5, <2>1, <2>2 DEF Suspends, Line
<1>8. list'[s] # <<>> => There(s)' =< Cardinality(Woken(s)')
  <2> SUFFICES ASSUME list[s] # <<>> PROVE There(s) - 1 =< Cardinality(Woken(s)')
    BY <1>5
  <2>1. pc'[p] # Waiting[s]
    BY <1>1, Labelled
  <2>2. Woken(s)' = Woken(s) \ {p}
    BY <1>1, <1>2, <1>5, <2>1 DEF Woken
  <2>3. There(s) =< Cardinality(Woken(s))
    BY DEF Inv, Forgotten
  <2>4. Cardinality(Woken(s)') >= Cardinality(Woken(s)) - 1
    <3>1. Cardinality(Woken(s) \ {p}) = IF p \in Woken(s) THEN Cardinality(Woken(s)) - 1
                                                           ELSE Cardinality(Woken(s))
      BY WokenLemma, FS_RemoveElement
    <3> QED BY <2>2, <3>1, WokenLemma
  <2>5. Cardinality(Woken(s)') \in Nat /\ Cardinality(Woken(s)) \in Nat
    BY <2>2, WokenLemma, FS_RemoveElement, FS_CardinalityType
  <2> QED BY <1>4, <2>3, <2>4, <2>5
<1>9. list'[o] # <<>> => There(o)' =< Cardinality(Woken(o)')
  <2> SUFFICES ASSUME list'[o] # <<>> PROVE There(o) + 1 =< Cardinality(Woken(o)')
    OBVIOUS
  <2>1. PICK h \in Range(list[o]) : Range(list'[o]) = Range(list[o]) \ {h}
    BY <1>5
  <2>2. h \in Threads \ {p} /\ pc[h] = Waiting[o] /\ err[h] = "ok"
    BY <1>3
  <2>3. pc'[p] # Waiting[o]
    BY <1>1, Labelled
  <2>4. h \notin Woken(o) /\ Woken(o)' = Woken(o) \union {h}
    BY <1>1, <1>2, <2>1, <2>2, <2>3 DEF Woken
  <2>5. Cardinality(Woken(o)') = Cardinality(Woken(o)) + 1
    BY <2>4, WokenLemma, FS_AddElement
  <2>6. list[o] # <<>>
    BY DEF Range
  <2>7. There(o) =< Cardinality(Woken(o))
    BY <2>6 DEF Inv, Forgotten
  <2> QED BY <1>4, <2>5, <2>7, WokenLemma
<1> QED BY <1>6, <1>7, <1>8, <1>9 DEF Forgotten

\* rt_ipc_list_suspend: a thread waits for what is not there.
LEMMA SuspendStep ==
    ASSUME MailboxAssumption, Inv, NEW t \in Threads, NEW s \in Sides, NEW m,
           \A x \in Sides : t \notin Range(list[x]),
           Wait(t, s, m), There(s) = 0, \A x \in Sides \ {s} : pc[t] # Waiting[x],
           UNCHANGED entry
    PROVE  Suspends' /\ Forgotten'
<1>1. /\ list' = [list EXCEPT ![s] = Append(@, t)]
      /\ armed' \subseteq armed \union {t}
      /\ err' = [err EXCEPT ![t] = "ok"] /\ pc' = [pc EXCEPT ![t] = Waiting[s]]
  BY DEF Wait, Goto
<1>2. /\ list \in [Sides -> Seq(Threads)] /\ err \in [Threads -> {"ok", "timeout", "error"}]
      /\ pc \in [Procs -> Labels] /\ t \in Procs
      /\ armed \subseteq Range(list["send"]) \union Range(list["recv"])
  BY DEF Inv, Suspends, Calling, Procs
<1>3. \A x \in Sides : Line(list[x]) /\ \A u \in Range(list[x]) : pc[u] = Waiting[x] /\ err[u] = "ok"
  BY DEF Inv, Suspends
<1>4. /\ Line(Append(list[s], t)) /\ Range(Append(list[s], t)) = Range(list[s]) \union {t}
  BY <1>3, AppendLemma
<1>5. /\ list' \in [Sides -> Seq(Threads)] /\ list'[s] = Append(list[s], t)
      /\ \A x \in Sides \ {s} : list'[x] = list[x]
  BY <1>1, <1>2, <1>4 DEF Line
<1>6. /\ pc'[t] = Waiting[s] /\ err'[t] = "ok" /\ err' \in [Threads -> {"ok", "timeout", "error"}]
      /\ \A u \in Threads \ {t} : pc'[u] = pc[u] /\ err'[u] = err[u]
  BY <1>1, <1>2 DEF Procs
<1>7. \A x \in Sides : Range(list[x]) \subseteq Threads
  BY <1>3 DEF Line, Range
<1>8. Suspends'
  <2>1. armed' \subseteq Range(list'["send"]) \union Range(list'["recv"])
    <3>1. \A x \in Sides : Range(list[x]) \subseteq Range(list'[x])
      BY <1>4, <1>5
    <3> QED BY <1>1, <1>2, <1>4, <1>5, <3>1, Labelled
  <2>2. ASSUME NEW x \in Sides
        PROVE  Line(list'[x]) /\ \A u \in Range(list'[x]) : pc'[u] = Waiting[x] /\ err'[u] = "ok"
    <3>1. CASE x = s
      BY <1>3, <1>4, <1>5, <1>6, <1>7, <3>1
    <3>2. CASE x # s
      <4>1. list'[x] = list[x] /\ \A u \in Range(list[x]) : u \in Threads \ {t}
        BY <1>5, <1>7, <3>2
      <4> QED BY <1>3, <1>6, <4>1
    <3> QED BY <3>1, <3>2
  <2> QED BY <1>5, <1>6, <2>1, <2>2 DEF Suspends, Line
<1>9. ASSUME NEW x \in Sides, list'[x] # <<>> PROVE There(x)' =< Cardinality(Woken(x)')
  <2>1. There(x)' = There(x)
    BY DEF There
  <2>2. CASE x = s
    <3>1. Woken(s)' \subseteq Threads
      BY DEF Woken
    <3>2. Cardinality(Woken(s)') \in Nat
      BY <3>1, FS_Subset, FS_CardinalityType DEF MailboxAssumption
    <3> QED BY <2>1, <2>2, <3>2
  <2>3. CASE x # s
    <3>1. pc'[t] # Waiting[x] /\ pc[t] # Waiting[x]
      BY <1>6, <2>3, Labelled
    <3>2. Woken(x)' = Woken(x)
      BY <1>5, <1>6, <2>3, <3>1 DEF Woken
    <3> QED BY <1>5, <1>9, <2>1, <2>3, <3>2 DEF Inv, Forgotten
  <2> QED BY <2>2, <2>3
<1> QED BY <1>8, <1>9 DEF Forgotten

\* A waiter is taken off its list and told an error.
LEMMA DismissStep ==
    ASSUME MailboxAssumption, Inv, NEW s \in Sides, NEW t \in Range(list[s]),
           NEW e \in {"timeout", "error"}, err' = [err EXCEPT ![t] = e],
           list' \in [Sides -> Seq(Threads)],
           Line(list'[s]), Range(list'[s]) = Range(list[s]) \ {t},
           \A x \in Sides \ {s} : list'[x] = list[x],
           armed' = armed \ {t}, UNCHANGED <<entry, pc>>
    PROVE  Suspends' /\ Forgotten'
<1>1. \A x \in Sides : Line(list[x]) /\ \A u \in Range(list[x]) : pc[u] = Waiting[x] /\ err[u] = "ok"
  BY DEF Inv, Suspends
<1>2. \A x \in Sides : Range(list[x]) \subseteq Threads
  BY <1>1 DEF Line, Range
<1>3. t \in Threads /\ \A x \in Sides \ {s} : t \notin Range(list[x])
  BY <1>1, <1>2, Labelled
<1>4. /\ err' \in [Threads -> {"ok", "timeout", "error"}] /\ err'[t] # "ok"
      /\ \A u \in Threads \ {t} : err'[u] = err[u]
  BY <1>3 DEF Inv, Suspends
<1>5. Suspends'
  <2>1. armed' \subseteq Range(list'["send"]) \union Range(list'["recv"])
    <3>1. armed \subseteq Range(list["send"]) \union Range(list["recv"])
      BY DEF Inv, Suspends
    <3>2. \A x \in Sides : Range(list[x]) \ {t} \subseteq Range(list'[x])
      OBVIOUS
    <3> QED BY <3>1, <3>2, Labelled
  <2>2. \A x \in Sides : Line(list'[x]) /\ \A u \in Range(list'[x]) : pc'[u] = Waiting[x] /\ err'[u] = "ok"
    BY <1>1, <1>2, <1>3, <1>4
  <2> QED BY <1>4, <2>1, <2>2 DEF Suspends, Line
<1>6. ASSUME NEW x \in Sides, list'[x] # <<>> PROVE There(x)' =< Cardinality(Woken(x)')
  <2>1. There(x)' = There(x)
    BY DEF There
  <2>2. list[x] # <<>>
    BY <1>6 DEF Range
  <2>3. Woken(x)' = Woken(x)
    <3>1. t \notin Woken(x) /\ t \notin Woken(x)'
      BY <1>1, <1>3, <1>4, Labelled DEF Woken
    <3>2. \A u \in Threads \ {t} : u \in Range(list'[x]) <=> u \in Range(list[x])
      OBVIOUS
    <3> QED BY <1>4, <3>1, <3>2 DEF Woken
  <2> QED BY <2>1, <2>2, <2>3 DEF Inv, Forgotten
<1> QED BY <1>5, <1>6 DEF Forgotten

\* Nobody waits after a reset.
LEMMA ResetWaits ==
    ASSUME MailboxAssumption, Inv, NEW t \in Threads, Reset(t)
    PROVE  Suspends' /\ Forgotten'
<1>1. /\ list' = [s \in Sides |-> <<>>] /\ armed' = {}
      /\ err' = [u \in Threads |-> IF Suspended(u) THEN "error" ELSE err[u]]
  BY DEF Reset
<1>2. Line(<<>>) /\ Range(<<>>) = {} /\ <<>> \in Seq(Threads)
  BY DEF Line, Range
<1>3. err' \in [Threads -> {"ok", "timeout", "error"}]
  BY <1>1 DEF Inv, Suspends
<1> QED BY <1>1, <1>2, <1>3 DEF Suspends, Forgotten

\* Nothing changes for those who wait.
LEMMA QuietStep ==
    ASSUME MailboxAssumption, Inv, UNCHANGED <<waits, pc, entry>>
    PROVE  Suspends' /\ Forgotten'
<1>1. list' = list /\ armed' = armed /\ err' = err
  BY DEF waits
<1>2. \A s \in Sides : Woken(s)' = Woken(s) /\ There(s)' = There(s)
  BY <1>1 DEF Woken, There
<1> QED BY <1>1, <1>2 DEF Inv, Suspends, Forgotten, Line

-----------------------------------------------------------------------------
(* The ring                                                                 *)

LEMMA WordLemma ==
    ASSUME MailboxAssumption, NEW x \in 0..Size - 1, NEW k \in 0..Size
    PROVE  /\ (x + k) % Size = IF x + k < Size THEN x + k ELSE x + k - Size
           /\ (x + k) % Size \in 0..Size - 1
<1>1. Size \in Nat \ {0}
  BY DEF MailboxAssumption
<1>2. CASE x + k < Size
  <2>1. (x + k) % Size = x + k
    BY <1>1, <1>2
  <2> QED BY <1>1, <1>2, <2>1
<1>3. CASE x + k >= Size
  <2> DEFINE r == x + k - Size
  <2>1. r \in 0..Size - 1 /\ x + k = r + 1 * Size
    BY <1>1, <1>3
  <2> HIDE DEF r
  <2>2. (r + 1 * Size) % Size = r
    BY <1>1, <2>1
  <2> QED BY <1>1, <1>3, <2>1, <2>2 DEF r
<1> QED BY <1>1, <1>2, <1>3

\* in_offset and out_offset wrap as the words do.
LEMMA AdvancedLemma ==
    ASSUME MailboxAssumption, NEW x \in 0..Size - 1
    PROVE  /\ Advanced(x) \in 0..Size - 1 /\ Advanced(x) = (x + 1) % Size
           /\ \A k \in 0..Size - 1 : /\ (Advanced(x) + k) % Size = (x + (k + 1)) % Size
                                     /\ Advanced((x + k) % Size) = (x + (k + 1)) % Size
<1>1. Size \in Nat \ {0}
  BY DEF MailboxAssumption
<1>2. Advanced(x) \in 0..Size - 1 /\ Advanced(x) = (x + 1) % Size
  <2>1. 1 \in 0..Size
    BY <1>1
  <2>2. (x + 1) % Size = IF x + 1 < Size THEN x + 1 ELSE x + 1 - Size
    BY <2>1, WordLemma
  <2> QED BY <1>1, <2>2 DEF Advanced
<1>3. ASSUME NEW k \in 0..Size - 1
      PROVE  /\ (Advanced(x) + k) % Size = (x + (k + 1)) % Size
             /\ Advanced((x + k) % Size) = (x + (k + 1)) % Size
  <2>1. k \in 0..Size /\ k + 1 \in 0..Size
    BY <1>1
  <2>2. (x + k) % Size = IF x + k < Size THEN x + k ELSE x + k - Size
    BY <2>1, WordLemma
  <2>3. (x + (k + 1)) % Size = IF x + (k + 1) < Size THEN x + (k + 1) ELSE x + (k + 1) - Size
    BY <2>1, WordLemma
  <2>4. (Advanced(x) + k) % Size = IF Advanced(x) + k < Size THEN Advanced(x) + k
                                                             ELSE Advanced(x) + k - Size
    BY <1>2, <2>1, WordLemma
  <2>5. (Advanced(x) + k) % Size = (x + (k + 1)) % Size
    BY <1>1, <2>3, <2>4 DEF Advanced
  <2>6. Advanced((x + k) % Size) = (x + (k + 1)) % Size
    BY <1>1, <2>2, <2>3 DEF Advanced
  <2> QED BY <2>5, <2>6
<1> QED BY <1>2, <1>3

\* Different mails are in different words, and the next free word holds none.
LEMMA WordsDiffer ==
    ASSUME MailboxAssumption, NEW x \in 0..Size - 1, NEW j \in 0..Size - 1, NEW k \in 0..Size - 1,
           j # k
    PROVE  (x + j) % Size # (x + k) % Size
<1>1. Size \in Nat \ {0} /\ j \in 0..Size /\ k \in 0..Size
  BY DEF MailboxAssumption
<1>2. /\ (x + j) % Size = IF x + j < Size THEN x + j ELSE x + j - Size
      /\ (x + k) % Size = IF x + k < Size THEN x + k ELSE x + k - Size
  BY <1>1, WordLemma
<1> QED BY <1>1, <1>2

\* Mail i is in word i - 1.
MailsInWords ==
    /\ Mails \in Seq(Values) /\ Len(Mails) = entry
    /\ \A i \in 1..entry : Mails[i] = pool[Word(i - 1)]

LEMMA MailsLemma == ASSUME MailboxAssumption, Ring PROVE MailsInWords
<1>1. outOffset \in Int /\ entry \in Nat
  BY DEF Ring, MailboxAssumption
<1>2. \A i \in 1..entry : (outOffset + i - 1) % Size = Word(i - 1) /\ i - 1 \in 0..entry - 1
  <2> TAKE i \in 1..entry
  <2>1. outOffset + i - 1 = outOffset + (i - 1)
    BY <1>1
  <2> QED BY <1>1, <2>1 DEF Word
<1>3. \A i \in 1..entry : Mails[i] = pool[Word(i - 1)] /\ Mails[i] \in Values
  BY <1>2 DEF Mails, Ring
<1>4. Mails \in [1..entry -> Values]
  BY <1>3 DEF Mails
<1>5. Mails \in Seq(Values)
  BY <1>1, <1>4
<1> QED BY <1>1, <1>3, <1>5 DEF Mails, MailsInWords

LEMMA MailsNext == ASSUME MailboxAssumption PROVE Ring' => MailsInWords'
<1>1. Ring => MailsInWords
  BY MailsLemma
<1> QED BY <1>1, PTL

\* rt_mb_send_wait writes behind the last mail.
LEMMA PutRing ==
    ASSUME MailboxAssumption, Ring, NEW v \in Values, entry # Size,
           pool' = [pool EXCEPT ![inOffset] = v], inOffset' = Advanced(inOffset),
           entry' = entry + 1, UNCHANGED outOffset
    PROVE  Ring' /\ Mails' = Append(Mails, v)
<1>1. /\ Size \in Nat \ {0} /\ outOffset \in 0..Size - 1 /\ entry \in 0..Size - 1
      /\ inOffset = Word(entry)
  BY DEF Ring, MailboxAssumption
<1>2. \A k \in 0..Size - 1 : Word(k) \in 0..Size - 1 /\ Word(k)' = Word(k)
  BY <1>1, WordLemma DEF Word
<1>3. pool' \in [0..Size - 1 -> Values \union {None}] /\ pool'[Word(entry)] = v
  BY <1>1, <1>2 DEF Ring
<1>4. \A k \in 0..entry - 1 : pool'[Word(k)] = pool[Word(k)]
  <2> TAKE k \in 0..entry - 1
  <2>1. k \in 0..Size - 1 /\ k # entry
    BY <1>1
  <2>2. Word(k) # Word(entry)
    BY <1>1, <2>1, WordsDiffer DEF Word
  <2> QED BY <1>1, <1>2, <2>1, <2>2 DEF Ring
<1>5. Ring'
  <2>1. inOffset' = Word(entry + 1)
    BY <1>1, AdvancedLemma DEF Word
  <2>2. Word(entry)' = Word(entry + 1)
    BY DEF Word
  <2>3. \A k \in 0..entry' - 1 : pool'[Word(k)'] \in Values
    <3> TAKE k \in 0..entry' - 1
    <3>1. k \in 0..Size - 1 /\ (k = entry \/ k \in 0..entry - 1)
      BY <1>1
    <3> QED BY <1>2, <1>3, <1>4, <3>1 DEF Ring
  <2>4. outOffset' \in 0..Size - 1 /\ entry' \in 0..Size
    BY <1>1
  <2> QED BY <1>3, <2>1, <2>2, <2>3, <2>4 DEF Ring
<1>6. /\ Mails \in Seq(Values) /\ Len(Mails) = entry
      /\ \A i \in 1..entry : Mails[i] = pool[Word(i - 1)]
  BY MailsLemma DEF MailsInWords
<1>7. /\ Mails' \in Seq(Values) /\ Len(Mails') = entry + 1
      /\ \A i \in 1..entry + 1 : Mails'[i] = pool'[Word(i - 1)']
  BY <1>5, MailsNext DEF MailsInWords
<1>8. \A i \in 1..entry + 1 : Mails'[i] = Append(Mails, v)[i]
  <2> TAKE i \in 1..entry + 1
  <2>1. i - 1 \in 0..Size - 1
    BY <1>1
  <2>2. CASE i \in 1..entry
    <3>1. i - 1 \in 0..entry - 1
      BY <1>1, <2>2
    <3>2. Append(Mails, v)[i] = Mails[i]
      BY <1>6, <2>2, AppendProperties
    <3> QED BY <1>2, <1>4, <1>6, <1>7, <2>1, <2>2, <3>1, <3>2
  <2>3. CASE i = entry + 1
    <3>1. Append(Mails, v)[i] = v /\ i - 1 = entry
      BY <1>1, <1>6, <2>3, AppendProperties
    <3> QED BY <1>2, <1>3, <1>7, <2>1, <3>1
  <2>4. i \in 1..entry \/ i = entry + 1
    BY <1>1
  <2> QED BY <2>2, <2>3, <2>4
<1>9. Append(Mails, v) \in Seq(Values) /\ Len(Append(Mails, v)) = entry + 1
  BY <1>6, AppendProperties
<1>10. Mails' = Append(Mails, v)
  BY <1>7, <1>8, <1>9, SeqEqual
<1> QED BY <1>5, <1>10

\* rt_mb_recv reads the first mail.
LEMMA GetRing ==
    ASSUME MailboxAssumption, Ring, entry # 0,
           outOffset' = Advanced(outOffset), entry' = entry - 1, UNCHANGED <<pool, inOffset>>
    PROVE  /\ Ring' /\ Mails' = Tail(Mails)
           /\ Mails # <<>> /\ Head(Mails) = pool[outOffset] /\ pool[outOffset] \in Values
<1>1. /\ Size \in Nat \ {0} /\ outOffset \in 0..Size - 1 /\ entry \in 1..Size
      /\ inOffset = Word(entry) /\ outOffset' \in 0..Size - 1
  BY AdvancedLemma DEF Ring, MailboxAssumption
<1>2. \A k \in 0..Size - 1 : Word(k)' = Word(k + 1)
  BY <1>1, AdvancedLemma DEF Word
<1>3. Ring'
  <2>1. inOffset' = Word(entry)'
    <3>1. entry - 1 \in 0..Size - 1 /\ (entry - 1) + 1 = entry
      BY <1>1
    <3>2. (outOffset' + (entry - 1)) % Size = (outOffset + entry) % Size
      BY <1>2, <3>1 DEF Word
    <3> QED BY <1>1, <3>2 DEF Word
  <2>2. \A k \in 0..entry' - 1 : pool'[Word(k)'] \in Values
    <3> TAKE k \in 0..entry' - 1
    <3>1. k \in 0..Size - 1 /\ k + 1 \in 0..entry - 1
      BY <1>1
    <3> QED BY <1>2, <3>1 DEF Ring
  <2>3. entry' \in 0..Size
    BY <1>1
  <2> QED BY <1>1, <2>1, <2>2, <2>3 DEF Ring
<1>4. /\ Mails \in Seq(Values) /\ Len(Mails) = entry
      /\ \A i \in 1..entry : Mails[i] = pool[Word(i - 1)]
  BY MailsLemma DEF MailsInWords
<1>5. /\ Mails' \in Seq(Values) /\ Len(Mails') = entry - 1
      /\ \A i \in 1..entry - 1 : Mails'[i] = pool'[Word(i - 1)']
  BY <1>3, MailsNext DEF MailsInWords
<1>6. Mails # <<>>
  BY <1>1, <1>4
<1>7. /\ Tail(Mails) \in Seq(Values) /\ Len(Tail(Mails)) = entry - 1
      /\ Head(Mails) = Mails[1] /\ \A i \in 1..entry - 1 : Tail(Mails)[i] = Mails[i + 1]
  BY <1>1, <1>4, <1>6
<1>8. \A i \in 1..entry - 1 : Mails'[i] = Tail(Mails)[i]
  <2> TAKE i \in 1..entry - 1
  <2>1. i - 1 \in 0..Size - 1 /\ i + 1 \in 1..entry /\ (i - 1) + 1 = (i + 1) - 1
    BY <1>1
  <2> QED BY <1>2, <1>4, <1>5, <1>7, <2>1
<1>9. Mails' = Tail(Mails)
  BY <1>5, <1>7, <1>8, SeqEqual
<1>10. Head(Mails) = pool[outOffset] /\ pool[outOffset] \in Values
  <2>1. Word(0) = outOffset
    <3>1. 0 \in 0..Size /\ outOffset + 0 = outOffset /\ outOffset < Size
      BY <1>1
    <3> QED BY <1>1, <3>1, WordLemma DEF Word
  <2>2. Mails[1] = pool[Word(1 - 1)] /\ 1 - 1 = 0 /\ 0 \in 0..entry - 1
    BY <1>1, <1>4
  <2> QED BY <1>7, <2>1, <2>2 DEF Ring
<1> QED BY <1>3, <1>6, <1>9, <1>10

\* A reset empties the ring; the words keep what they held.
LEMMA ResetRing ==
    ASSUME MailboxAssumption, Ring, entry' = 0, inOffset' = 0, outOffset' = 0, UNCHANGED pool
    PROVE  Ring' /\ Mails' = <<>>
<1>1. Size \in Nat \ {0}
  BY DEF MailboxAssumption
<1>2. Ring'
  <2>1. 0 \in 0..Size /\ 0 \in 0..Size - 1
    BY <1>1
  <2>2. (0 + 0) % Size = 0
    BY <1>1
  <2> QED BY <1>1, <2>1, <2>2 DEF Ring, Word
<1>3. Len(Mails') = 0 /\ Mails' \in Seq(Values)
  BY <1>2, MailsNext DEF MailsInWords
<1> QED BY <1>2, <1>3

-----------------------------------------------------------------------------
(* The actions                                                              *)

\* Swept holds on while a list only shrinks, or grows by who waits again.
LEMMA SweptLemma ==
    ASSUME Swept, again \subseteq again', phase' = phase,
           \A s \in Sides : Range(list'[s]) \subseteq Range(list[s]) \union (again' \ again)
    PROVE  Swept'
BY Labelled DEF Swept

\* No step changes more of a call than one process's label and value.
LEMMA CallingLemma ==
    ASSUME MailboxAssumption, Calling, NEW p \in Procs, NEW l \in Labels,
           p = Isr => l \notin {"send_waits", "recv_waits"},
           pc' = [pc EXCEPT ![p] = l],
           NEW v \in Values \union {None}, v # None <=> l \in {"send", "send_waits"},
           arg' = [arg EXCEPT ![p] = v],
           NEW w \in Values \union {None}, w # None <=> l = "return",
           got' = [got EXCEPT ![p] = w]
    PROVE  Calling'
<1>1. /\ pc \in [Procs -> Labels] /\ arg \in [Procs -> Values \union {None}]
      /\ got \in [Procs -> Values \union {None}]
  BY DEF Calling
<1>2. /\ pc' \in [Procs -> Labels] /\ arg' \in [Procs -> Values \union {None}]
      /\ got' \in [Procs -> Values \union {None}]
      /\ pc'[p] = l /\ arg'[p] = v /\ got'[p] = w
      /\ \A q \in Procs \ {p} : pc'[q] = pc[q] /\ arg'[q] = arg[q] /\ got'[q] = got[q]
  BY <1>1
<1>3. Isr \in Procs
  BY DEF Procs
<1> QED BY <1>2, <1>3 DEF Calling

LEMMA IdleLemma ==
    ASSUME MailboxAssumption, Calling, NEW p \in Procs, pc' = [pc EXCEPT ![p] = "idle"],
           arg' = [arg EXCEPT ![p] = None], got' = [got EXCEPT ![p] = None]
    PROVE  Calling'
<1>1. "idle" \in Labels /\ "idle" \notin {"send", "send_waits", "recv_waits", "return"}
  BY DEF Labels
<1>2. None \in Values \union {None}
  OBVIOUS
<1> QED BY <1>1, <1>2, CallingLemma

\* What an action leaves of the abstract channel alone.
LEMMA SameMails ==
    ASSUME UNCHANGED ring
    PROVE  Mails' = Mails
BY DEF ring, Mails

LEMMA SameRing ==
    ASSUME Ring, UNCHANGED ring
    PROVE  Ring'
BY DEF Ring, ring, Word

\* A step of the mailbox is one of the channel, and keeps the invariant.
Good == Inv' /\ [Fifo!Next]_(Fifo!vars)

LEMMA SendCallStep ==
    ASSUME MailboxAssumption, Inv, NEW p \in Procs, NEW v \in Values, SendCall(p, v)
    PROVE  Good
<1>1. /\ Runs(p) /\ pc[p] = "idle" /\ arg' = [arg EXCEPT ![p] = v] /\ pc' = [pc EXCEPT ![p] = "send"]
      /\ UNCHANGED <<ring, got, phase, again, list, armed, err, entry>>
  BY DEF SendCall, Goto, waits, deletion, ring
<1>2. arg[p] = None /\ got[p] = None /\ got \in [Procs -> Values \union {None}] /\ v # None
  BY <1>1 DEF Inv, Calling, MailboxAssumption
<1>3. Calling'
  <2>1. got' = [got EXCEPT ![p] = None]
    BY <1>1, <1>2
  <2>2. "send" \in Labels
    BY DEF Labels
  <2> QED BY <1>1, <1>2, <2>1, <2>2, CallingLemma DEF Inv
<1>4. Suspends' /\ Forgotten'
  <2>1. Leaves(p, "send")
    BY <1>1, RunsLemma DEF Leaves, Labels, Inv
  <2>2. \A s \in Sides : pc[p] # Waiting[s]
    BY <1>1, Labelled
  <2> QED BY <1>1, <2>1, <2>2, LeaveStep
<1>5. Ring' /\ Mails' = Mails
  BY <1>1, SameRing, SameMails DEF Inv
<1>6. Swept'
  BY <1>1, SweptLemma DEF Inv
<1>7. Fifo!Offer(p, v)
  BY <1>1, <1>2, <1>5 DEF Fifo!Offer
<1> QED BY <1>3, <1>4, <1>5, <1>6, <1>7 DEF Inv, Good, Fifo!Next

LEMMA SendFullStep ==
    ASSUME MailboxAssumption, Inv, NEW p \in Procs, SendFull(p)
    PROVE  Good
<1>1. /\ Looks(p, "send", "send", "no") /\ entry = Size
      /\ arg' = [arg EXCEPT ![p] = None] /\ pc' = [pc EXCEPT ![p] = "idle"]
      /\ UNCHANGED <<ring, got, phase, again, list, armed, err, entry>>
  BY DEF SendFull, Goto, waits, deletion, ring
<1>2. (\A x \in Sides : p \notin Range(list[x])) /\ pc[p] \in {"send", "send_waits"}
  BY <1>1, LooksLemma, Labelled DEF Inv
<1>3. arg[p] # None /\ got[p] = None /\ got \in [Procs -> Values \union {None}]
  BY <1>2 DEF Inv, Calling
<1>4. Calling'
  <2>1. got' = [got EXCEPT ![p] = None]
    BY <1>1, <1>3
  <2> QED BY <1>1, <2>1, IdleLemma DEF Inv
<1>5. Suspends' /\ Forgotten'
  <2>1. Leaves(p, "idle")
    BY <1>1, <1>2 DEF Leaves, Labels
  <2>2. Size \in Nat /\ There("send") = 0
    BY <1>1 DEF There, MailboxAssumption
  <2>3. \A s \in Sides : pc[p] = Waiting[s] => There(s) = 0
    BY <1>2, <2>2, Labelled
  <2> QED BY <1>1, <2>1, <2>3, LeaveStep
<1>6. Ring' /\ Mails' = Mails
  BY <1>1, SameRing, SameMails DEF Inv
<1>7. Swept'
  BY <1>1, SweptLemma DEF Inv
<1>8. Fifo!Refuse(p)
  BY <1>1, <1>3, <1>6 DEF Fifo!Refuse
<1> QED BY <1>4, <1>5, <1>6, <1>7, <1>8 DEF Inv, Good, Fifo!Next

LEMMA RecvEmptyStep ==
    ASSUME MailboxAssumption, Inv, NEW p \in Procs, RecvEmpty(p)
    PROVE  Good
<1>1. /\ pc[p] = "recv_waits" /\ Looks(p, "recv", "idle", "no") /\ entry = 0
      /\ pc' = [pc EXCEPT ![p] = "idle"]
      /\ UNCHANGED <<ring, arg, got, phase, again, list, armed, err, entry>>
  BY DEF RecvEmpty, Goto, waits, deletion, ring
<1>2. \A x \in Sides : p \notin Range(list[x])
  BY <1>1, LooksLemma, Labelled DEF Inv
<1>3. /\ arg[p] = None /\ got[p] = None
      /\ got \in [Procs -> Values \union {None}] /\ arg \in [Procs -> Values \union {None}]
  BY <1>1 DEF Inv, Calling
<1>4. Calling'
  <2>1. got' = [got EXCEPT ![p] = None] /\ arg' = [arg EXCEPT ![p] = None]
    BY <1>1, <1>3
  <2> QED BY <1>1, <2>1, IdleLemma DEF Inv
<1>5. Suspends' /\ Forgotten'
  <2>1. Leaves(p, "idle")
    BY <1>1, <1>2 DEF Leaves, Labels
  <2>2. \A s \in Sides : pc[p] = Waiting[s] => There(s) = 0
    BY <1>1, Labelled DEF There
  <2> QED BY <1>1, <2>1, <2>2, LeaveStep
<1>6. Ring' /\ Mails' = Mails
  BY <1>1, SameRing, SameMails DEF Inv
<1>7. Swept'
  BY <1>1, SweptLemma DEF Inv
<1> QED BY <1>1, <1>4, <1>5, <1>6, <1>7 DEF Inv, Good, Fifo!vars

LEMMA GetReturnStep ==
    ASSUME MailboxAssumption, Inv, NEW p \in Procs, GetReturn(p)
    PROVE  Good
<1>1. /\ Runs(p) /\ pc[p] = "return"
      /\ got' = [got EXCEPT ![p] = None] /\ pc' = [pc EXCEPT ![p] = "idle"]
      /\ UNCHANGED <<ring, arg, phase, again, list, armed, err, entry>>
  BY DEF GetReturn, Goto, waits, deletion, ring
<1>2. arg[p] = None /\ got[p] # None /\ arg \in [Procs -> Values \union {None}]
  BY <1>1 DEF Inv, Calling
<1>3. Calling'
  <2>1. arg' = [arg EXCEPT ![p] = None]
    BY <1>1, <1>2
  <2> QED BY <1>1, <2>1, IdleLemma DEF Inv
<1>4. Suspends' /\ Forgotten'
  <2>1. Leaves(p, "idle")
    BY <1>1, RunsLemma DEF Leaves, Labels, Inv
  <2>2. \A s \in Sides : pc[p] # Waiting[s]
    BY <1>1, Labelled
  <2> QED BY <1>1, <2>1, <2>2, LeaveStep
<1>5. Ring' /\ Mails' = Mails
  BY <1>1, SameRing, SameMails DEF Inv
<1>6. Swept'
  BY <1>1, SweptLemma DEF Inv
<1>7. Fifo!Return(p)
  BY <1>1, <1>2, <1>5 DEF Fifo!Return
<1> QED BY <1>3, <1>4, <1>5, <1>6, <1>7 DEF Inv, Good, Fifo!Next

\* Wake takes the lists one waiter back at most.
LEMMA WakeShrinks ==
    ASSUME Suspends, NEW o \in Sides, Wake(o)
    PROVE  \A x \in Sides : Range(list'[x]) \subseteq Range(list[x])
<1>1. CASE list[o] = <<>>
  BY <1>1 DEF Wake
<1>2. CASE list[o] # <<>>
  <2>1. list' = [list EXCEPT ![o] = Tail(@)] /\ list \in [Sides -> Seq(Threads)]
    BY <1>2 DEF Wake, Suspends
  <2>2. Range(Tail(list[o])) \subseteq Range(list[o])
    BY <1>2, TailLemma DEF Suspends
  <2> QED BY <2>1, <2>2
<1> QED BY <1>1, <1>2

LEMMA PutStep ==
    ASSUME MailboxAssumption, Inv, NEW p \in Procs, NEW m, Put(p, m)
    PROVE  Good
<1>1. /\ Looks(p, "send", "send", m) /\ entry # Size
      /\ pool' = [pool EXCEPT ![inOffset] = arg[p]] /\ inOffset' = Advanced(inOffset)
      /\ entry' = entry + 1 /\ Wake("recv")
      /\ arg' = [arg EXCEPT ![p] = None] /\ pc' = [pc EXCEPT ![p] = "idle"]
      /\ UNCHANGED <<outOffset, got, phase, again>>
  BY DEF Put, Goto, deletion
<1>2. (\A x \in Sides : p \notin Range(list[x])) /\ pc[p] \in {"send", "send_waits"}
  BY <1>1, LooksLemma, Labelled DEF Inv
<1>3. arg[p] # None /\ arg[p] \in Values /\ got[p] = None /\ got \in [Procs -> Values \union {None}]
  BY <1>2 DEF Inv, Calling
<1>4. Calling'
  <2>1. got' = [got EXCEPT ![p] = None]
    BY <1>1, <1>3
  <2> QED BY <1>1, <2>1, IdleLemma DEF Inv
<1>5. Suspends' /\ Forgotten'
  <2>1. Leaves(p, "idle")
    BY <1>1, <1>2 DEF Leaves, Labels
  <2>2. entry \in Nat /\ Size \in Nat
    BY DEF Inv, Ring, MailboxAssumption
  <2>3. There("send")' = There("send") - 1 /\ There("recv")' = There("recv") + 1
    BY <1>1, <2>2 DEF There
  <2>4. pc[p] # Waiting["recv"] /\ "send" \in Sides /\ "recv" \in Sides \ {"send"}
    BY <1>2, Labelled
  <2> QED BY <1>1, <2>1, <2>3, <2>4, PassStep
<1>6. Ring' /\ Mails' = Append(Mails, arg[p])
  BY <1>1, <1>3, PutRing DEF Inv
<1>7. Swept'
  <2>1. \A x \in Sides : Range(list'[x]) \subseteq Range(list[x])
    BY <1>1, WakeShrinks, Labelled DEF Inv
  <2> QED BY <1>1, <2>1, SweptLemma DEF Inv
<1>8. Fifo!Put(p)
  <2>1. Len(Mails) < Size
    BY <1>1, MailsLemma DEF MailsInWords, Inv, Ring, MailboxAssumption
  <2> QED BY <1>1, <1>3, <1>6, <2>1 DEF Fifo!Put
<1> QED BY <1>4, <1>5, <1>6, <1>7, <1>8 DEF Inv, Good, Fifo!Next

LEMMA GetStep ==
    ASSUME MailboxAssumption, Inv, NEW p \in Procs, NEW m, Get(p, m)
    PROVE  Good
<1>1. /\ Looks(p, "recv", "idle", m) /\ entry # 0
      /\ got' = [got EXCEPT ![p] = pool[outOffset]] /\ outOffset' = Advanced(outOffset)
      /\ entry' = entry - 1 /\ Wake("send") /\ pc' = [pc EXCEPT ![p] = "return"]
      /\ UNCHANGED <<pool, inOffset, arg, phase, again>>
  BY DEF Get, Goto, deletion
<1>2. (\A x \in Sides : p \notin Range(list[x])) /\ pc[p] \in {"idle", "recv_waits"}
  BY <1>1, LooksLemma, Labelled DEF Inv
<1>3. arg[p] = None /\ got[p] = None /\ arg \in [Procs -> Values \union {None}]
  BY <1>2 DEF Inv, Calling
<1>4. /\ Ring' /\ Mails' = Tail(Mails) /\ Mails # <<>> /\ Head(Mails) = pool[outOffset]
      /\ pool[outOffset] \in Values /\ pool[outOffset] # None
  BY <1>1, GetRing DEF Inv, MailboxAssumption
<1>5. Calling'
  <2>1. arg' = [arg EXCEPT ![p] = None] /\ "return" \in Labels
    BY <1>1, <1>3 DEF Labels
  <2> QED BY <1>1, <1>4, <2>1, CallingLemma DEF Inv
<1>6. Suspends' /\ Forgotten'
  <2>1. Leaves(p, "return")
    BY <1>1, <1>2 DEF Leaves, Labels
  <2>2. entry \in Nat /\ Size \in Nat
    BY DEF Inv, Ring, MailboxAssumption
  <2>3. There("recv")' = There("recv") - 1 /\ There("send")' = There("send") + 1
    BY <1>1, <2>2 DEF There
  <2>4. pc[p] # Waiting["send"] /\ "recv" \in Sides /\ "send" \in Sides \ {"recv"}
    BY <1>2, Labelled
  <2> QED BY <1>1, <2>1, <2>3, <2>4, PassStep
<1>7. Swept'
  <2>1. \A x \in Sides : Range(list'[x]) \subseteq Range(list[x])
    BY <1>1, WakeShrinks, Labelled DEF Inv
  <2> QED BY <1>1, <2>1, SweptLemma DEF Inv
<1>8. Fifo!Get(p)
  BY <1>1, <1>3, <1>4 DEF Fifo!Get
<1> QED BY <1>4, <1>5, <1>6, <1>7, <1>8 DEF Inv, Good, Fifo!Next

LEMMA WaitStep ==
    ASSUME MailboxAssumption, Inv, NEW p \in Procs, NEW m, SendWait(p, m) \/ RecvWait(p, m)
    PROVE  Good
<1>1. PICK s \in Sides : /\ m # "no" /\ There(s) = 0 /\ Wait(p, s, m) /\ UNCHANGED <<ring, arg, got>>
                         /\ p \in Threads /\ \A x \in Sides : p \notin Range(list[x])
                         /\ arg[p] # None <=> s = "send"
                         /\ got[p] = None /\ Usable
                         /\ \A x \in Sides \ {s} : pc[p] # Waiting[x]
  <2>0. Size \in Nat /\ pc \in [Procs -> Labels]
    BY DEF MailboxAssumption, Inv, Calling
  <2>1. CASE SendWait(p, m)
    <3>1. /\ Looks(p, "send", "send", m) /\ entry = Size /\ m # "no"
          /\ Wait(p, "send", m) /\ UNCHANGED <<ring, arg, got>>
      BY <2>1 DEF SendWait
    <3>2. /\ p \in Threads /\ pc[p] \in {"send", "send_waits"}
          /\ \A x \in Sides : p \notin Range(list[x])
      BY <3>1, LooksLemma, Labelled DEF Inv
    <3>3. There("send") = 0 /\ arg[p] # None /\ got[p] = None /\ Usable
      BY <2>0, <3>1, <3>2 DEF There, Inv, Calling, Looks, Runs
    <3> QED BY <3>1, <3>2, <3>3, Labelled
  <2>2. CASE RecvWait(p, m)
    <3>1. /\ Looks(p, "recv", "idle", m) /\ entry = 0 /\ m # "no"
          /\ Wait(p, "recv", m) /\ UNCHANGED <<ring, arg, got>>
      BY <2>2 DEF RecvWait
    <3>2. /\ p \in Threads /\ pc[p] \in {"idle", "recv_waits"}
          /\ \A x \in Sides : p \notin Range(list[x])
      BY <3>1, LooksLemma, Labelled DEF Inv
    <3>3. There("recv") = 0 /\ arg[p] = None /\ got[p] = None /\ Usable
      BY <2>0, <3>1, <3>2 DEF There, Inv, Calling, Looks, Runs
    <3> QED BY <3>1, <3>2, <3>3, Labelled
  <2> QED BY <2>1, <2>2
<1>2. /\ list' = [list EXCEPT ![s] = Append(@, p)] /\ pc' = [pc EXCEPT ![p] = Waiting[s]]
      /\ again' = (IF phase = "live" THEN again ELSE again \union {p}) /\ phase' = phase
      /\ entry' = entry
  BY <1>1 DEF Wait, Goto, ring
<1>3. Calling'
  <2>1. /\ arg' = [arg EXCEPT ![p] = arg[p]] /\ arg[p] \in Values \union {None}
        /\ got' = [got EXCEPT ![p] = None] /\ None \in Values \union {None}
    BY <1>1 DEF Inv, Calling
  <2>2. /\ Waiting[s] \in Labels /\ Waiting[s] # "return"
        /\ Waiting[s] \in {"send", "send_waits"} <=> s = "send"
    BY Labelled DEF Labels
  <2>3. p # Isr
    BY <1>1 DEF MailboxAssumption
  <2> QED BY <1>1, <1>2, <2>1, <2>2, <2>3, CallingLemma DEF Inv
<1>4. Suspends' /\ Forgotten'
  BY <1>1, <1>2, SuspendStep
<1>5. Ring' /\ Mails' = Mails
  BY <1>1, SameRing, SameMails DEF Inv
<1>6. Swept'
  <2>1. CASE phase = "live"
    BY <1>2, <2>1 DEF Swept
  <2>2. CASE phase # "live"
    <3>1. list \in [Sides -> Seq(Threads)] /\ Line(list[s])
      BY DEF Inv, Suspends
    <3>2. Range(Append(list[s], p)) = Range(list[s]) \union {p}
      BY <1>1, <3>1, AppendLemma
    <3>3. \A x \in Sides : Range(list'[x]) \subseteq Range(list[x]) \union {p}
      BY <1>2, <3>1, <3>2
    <3> QED BY <1>2, <2>2, <3>3, Labelled DEF Inv, Swept
  <2> QED BY <2>1, <2>2
<1> QED BY <1>1, <1>3, <1>4, <1>5, <1>6 DEF Inv, Good, Fifo!vars

LEMMA FailsStep ==
    ASSUME MailboxAssumption, Inv, NEW t \in Threads, Fails(t)
    PROVE  Good
<1>1. /\ Runs(t) /\ pc[t] \in {"send_waits", "recv_waits"} /\ err[t] # "ok"
      /\ arg' = [arg EXCEPT ![t] = None] /\ pc' = [pc EXCEPT ![t] = "idle"]
      /\ err' = [err EXCEPT ![t] = "ok"]
      /\ UNCHANGED <<ring, list, armed, got, phase, again, entry>>
  BY DEF Fails, Goto, deletion, ring
<1>2. t \in Procs /\ got[t] = None /\ got \in [Procs -> Values \union {None}]
  BY <1>1 DEF Inv, Calling, Procs
<1>3. Calling'
  <2>1. got' = [got EXCEPT ![t] = None]
    BY <1>1, <1>2
  <2> QED BY <1>1, <1>2, <2>1, IdleLemma DEF Inv
<1>4. Suspends' /\ Forgotten'
  <2>1. Leaves(t, "idle")
    BY <1>1, <1>2, RunsLemma DEF Leaves, Labels, Inv
  <2> QED BY <1>1, <1>2, <2>1, LeaveStep
<1>5. Ring' /\ Mails' = Mails
  BY <1>1, SameRing, SameMails DEF Inv
<1>6. Swept'
  BY <1>1, SweptLemma DEF Inv
<1>7. Fifo!Refuse(t) \/ UNCHANGED Fifo!vars
  <2>1. CASE arg[t] # None
    BY <1>1, <1>5, <2>1 DEF Fifo!Refuse
  <2>2. CASE arg[t] = None
    <3>1. arg' = arg
      BY <1>1, <1>2, <2>2 DEF Inv, Calling
    <3> QED BY <1>1, <1>5, <3>1 DEF Fifo!vars
  <2> QED BY <2>1, <2>2
<1> QED BY <1>2, <1>3, <1>4, <1>5, <1>6, <1>7 DEF Inv, Good, Fifo!Next

\* The mailbox is not touched: the steps of its waiters and of its deletion.
LEMMA QuietChannel ==
    ASSUME Inv, UNCHANGED <<ring, pc, arg, got>>
    PROVE  Calling' /\ Ring' /\ UNCHANGED Fifo!vars
<1>1. Mails' = Mails /\ Ring'
  BY SameMails, SameRing DEF Inv
<1> QED BY <1>1 DEF Inv, Calling, Fifo!vars

LEMMA TimeoutStep ==
    ASSUME MailboxAssumption, Inv, NEW t \in Threads, Timeout(t)
    PROVE  Good
<1>1. /\ t \in armed /\ armed' = armed \ {t} /\ err' = [err EXCEPT ![t] = "timeout"]
      /\ list' = [s \in Sides |-> IF t \in Range(list[s]) THEN Without(list[s], t) ELSE list[s]]
      /\ UNCHANGED <<ring, pc, arg, got, phase, again, entry>>
  BY DEF Timeout, deletion, ring
<1>2. \A s \in Sides : Line(list[s]) /\ \A u \in Range(list[s]) : pc[u] = Waiting[s]
  BY DEF Inv, Suspends
<1>3. PICK s \in Sides : t \in Range(list[s])
  BY <1>1, Labelled DEF Inv, Suspends
<1>4. \A x \in Sides \ {s} : t \notin Range(list[x])
  BY <1>2, <1>3, Labelled
<1>5. Line(Without(list[s], t)) /\ Range(Without(list[s], t)) = Range(list[s]) \ {t}
  BY <1>2, <1>3, WithoutLemma
<1>6. /\ list'[s] = Without(list[s], t) /\ \A x \in Sides \ {s} : list'[x] = list[x]
      /\ list' \in [Sides -> Seq(Threads)]
  BY <1>1, <1>2, <1>3, <1>4, <1>5 DEF Line
<1>7. Suspends' /\ Forgotten'
  BY <1>1, <1>3, <1>5, <1>6, DismissStep
<1>8. Swept'
  BY <1>1, <1>5, <1>6, SweptLemma DEF Inv
<1>9. Calling' /\ Ring' /\ UNCHANGED Fifo!vars
  BY <1>1, QuietChannel
<1> QED BY <1>7, <1>8, <1>9 DEF Inv, Good

LEMMA ResetStep ==
    ASSUME MailboxAssumption, Inv, NEW t \in Threads, Reset(t)
    PROVE  Good
<1>1. /\ phase = "live" /\ UNCHANGED <<pool, pc, arg, got, phase>>
      /\ entry' = 0 /\ inOffset' = 0 /\ outOffset' = 0
  BY DEF Reset, deletion
<1>2. Suspends' /\ Forgotten'
  BY ResetWaits
<1>3. Ring' /\ Mails' = <<>>
  BY <1>1, ResetRing DEF Inv
<1>4. Calling' /\ Swept'
  BY <1>1 DEF Inv, Calling, Swept
<1>5. Fifo!Clear
  BY <1>1, <1>3 DEF Fifo!Clear
<1> QED BY <1>2, <1>3, <1>4, <1>5 DEF Inv, Good, Fifo!Next

LEMMA DeleteStep ==
    ASSUME MailboxAssumption, Inv, DeleteCheck \/ Delete \/ \E s \in Sides : DeleteTake(s)
    PROVE  Good
<1>1. UNCHANGED <<ring, pc, arg, got, again, entry>>
  BY DEF DeleteCheck, Delete, DeleteTake, ring
<1>2. Calling' /\ Ring' /\ UNCHANGED Fifo!vars
  BY <1>1, QuietChannel
<1>3. CASE DeleteCheck \/ Delete
  <2>1. UNCHANGED waits
    BY <1>3 DEF DeleteCheck, Delete
  <2>2. Suspends' /\ Forgotten'
    BY <1>1, <2>1, QuietStep
  <2>3. Range(<<>>) = {}
    BY DEF Range
  <2>4. Swept'
    BY <1>1, <1>3, <2>1, <2>3 DEF DeleteCheck, Delete, waits, Inv, Swept
  <2> QED BY <1>2, <2>2, <2>4 DEF Inv, Good
<1>4. ASSUME NEW s \in Sides, DeleteTake(s) PROVE Good
  <2>1. phase = Taking[s]
    BY <1>4 DEF DeleteTake
  <2>2. CASE list[s] = <<>>
    <3>1. phase' = "wild" /\ UNCHANGED waits
      BY <1>4, <2>2 DEF DeleteTake
    <3>2. Suspends' /\ Forgotten'
      BY <1>1, <3>1, QuietStep
    <3> QED BY <1>2, <3>1, <3>2 DEF Inv, Good, Swept
  <2>3. CASE list[s] # <<>>
    <3>1. PICK h : h = Head(list[s])
      OBVIOUS
    <3>2. /\ list' = [list EXCEPT ![s] = Tail(@)] /\ armed' = armed \ {h}
          /\ err' = [err EXCEPT ![h] = "error"] /\ phase' = s
      BY <1>4, <2>3, <3>1 DEF DeleteTake
    <3>3. list \in [Sides -> Seq(Threads)] /\ Line(list[s])
      BY DEF Inv, Suspends
    <3>4. Line(Tail(list[s])) /\ Range(Tail(list[s])) = Range(list[s]) \ {h} /\ h \in Range(list[s])
      BY <2>3, <3>1, <3>3, TailLemma
    <3>5. /\ list'[s] = Tail(list[s]) /\ \A x \in Sides \ {s} : list'[x] = list[x]
          /\ list' \in [Sides -> Seq(Threads)]
      BY <3>2, <3>3, <3>4 DEF Line
    <3>6. Suspends' /\ Forgotten'
      BY <1>1, <3>2, <3>4, <3>5, DismissStep
    <3>7. \A x \in Sides : Range(list'[x]) \subseteq Range(list[x])
      BY <3>4, <3>5
    <3>8. Swept'
      BY <1>1, <2>1, <3>2, <3>7, Labelled DEF Inv, Swept
    <3> QED BY <1>2, <3>6, <3>8 DEF Inv, Good
  <2> QED BY <2>2, <2>3
<1> QED BY <1>3, <1>4

-----------------------------------------------------------------------------
(* The theorems                                                             *)

LEMMA NextStep ==
    ASSUME MailboxAssumption
    PROVE  Inv /\ [Next]_vars => Inv' /\ [Fifo!Next]_(Fifo!vars)
<1> SUFFICES ASSUME Inv, [Next]_vars PROVE Good
  BY DEF Good
<1>1. CASE UNCHANGED vars
  <2>1. UNCHANGED <<ring, waits, pc, arg, got, phase, again, entry>>
    BY <1>1 DEF vars, deletion, ring
  <2>2. Suspends' /\ Forgotten'
    BY <2>1, QuietStep
  <2>3. Calling' /\ Ring' /\ UNCHANGED Fifo!vars
    BY <2>1, QuietChannel
  <2>4. Swept'
    BY <2>1 DEF waits, Inv, Swept
  <2> QED BY <2>2, <2>3, <2>4 DEF Inv, Good
<1>2. CASE Next
  BY <1>2, SendCallStep, SendFullStep, RecvEmptyStep, GetReturnStep, PutStep, GetStep,
     WaitStep, FailsStep, TimeoutStep, ResetStep, DeleteStep DEF Next
<1> QED BY <1>1, <1>2

LEMMA InitStep ==
    ASSUME MailboxAssumption
    PROVE  Init => Inv /\ Fifo!Init
<1> SUFFICES ASSUME Init PROVE Inv /\ Fifo!Init
  OBVIOUS
<1>1. /\ pool = [i \in 0..Size - 1 |-> None] /\ inOffset = 0 /\ outOffset = 0 /\ entry = 0
      /\ list = [s \in Sides |-> <<>>] /\ armed = {} /\ err = [t \in Threads |-> "ok"]
      /\ pc = [p \in Procs |-> "idle"] /\ arg = [p \in Procs |-> None]
      /\ got = [p \in Procs |-> None] /\ phase = "live"
  BY DEF Init
<1>2. Size \in Nat \ {0} /\ Isr \in Procs
  BY DEF MailboxAssumption, Procs
<1>3. Calling
  BY <1>1, <1>2 DEF Calling, Labels
<1>4. Ring
  <2>1. (0 + 0) % Size = 0
    BY <1>2
  <2> QED BY <1>1, <1>2, <2>1 DEF Ring, Word
<1>5. Line(<<>>) /\ Range(<<>>) = {} /\ <<>> \in Seq(Threads)
  BY DEF Line, Range
<1>6. Suspends /\ Forgotten /\ Swept
  BY <1>1, <1>5 DEF Suspends, Forgotten, Swept
<1>7. Mails = <<>>
  <2>1. Mails \in Seq(Values) /\ Len(Mails) = 0
    BY <1>1, <1>4, MailsLemma DEF MailsInWords
  <2> QED BY <2>1
<1> QED BY <1>1, <1>3, <1>4, <1>6, <1>7 DEF Inv, Fifo!Init

\* The fields the invariant says nothing of keep their types.
Moods ==
    /\ mode \in [Threads -> Waits] /\ again \subseteq Threads
    /\ phase \in {"live", "recv", "recv_take", "send", "send_take", "free", "gone", "wild"}

LEMMA MoodsStep ==
    ASSUME MailboxAssumption, Inv, Moods, [Next]_vars
    PROVE  Moods'
<1>1. ASSUME NEW p \in Procs, NEW m \in Waits, SendWait(p, m) \/ RecvWait(p, m)
      PROVE  Moods'
  <2>1. /\ mode' = [mode EXCEPT ![p] = m] /\ phase' = phase
        /\ again' = again \/ again' = again \union {p}
    BY <1>1 DEF SendWait, RecvWait, Wait
  <2>2. p \in Threads
    BY <1>1, LooksLemma, Labelled DEF Inv, SendWait, RecvWait
  <2> QED BY <2>1, <2>2 DEF Moods
<1>2. ASSUME NEW p \in Procs, Done(p), UNCHANGED deletion
      PROVE  Moods'
  <2>1. \A t \in Threads : (IF t = p THEN "no" ELSE mode[t]) \in Waits
    BY DEF Moods, Waits
  <2> QED BY <1>2, <2>1 DEF Moods, Done, deletion
<1>3. ASSUME UNCHANGED <<mode, again>>,
             phase' \in {"recv", "recv_take", "send", "send_take", "free", "gone", "wild", phase}
      PROVE  Moods'
  BY <1>3 DEF Moods
<1>4. ASSUME NEW p \in Procs, NEW v \in Values, SendCall(p, v) PROVE Moods'
  BY <1>3, <1>4 DEF SendCall, deletion
<1>5. ASSUME NEW p \in Procs, SendFull(p) \/ RecvEmpty(p) \/ (p \in Threads /\ Fails(p))
      PROVE  Moods'
  BY <1>2, <1>5 DEF SendFull, RecvEmpty, Fails
<1>6. ASSUME NEW p \in Procs, GetReturn(p) PROVE Moods'
  BY <1>3, <1>6 DEF GetReturn, deletion
<1>7. ASSUME NEW p \in Procs, NEW m \in Waits, Put(p, m) \/ Get(p, m) PROVE Moods'
  BY <1>2, <1>7 DEF Put, Get
<1>8. ASSUME NEW t \in Threads, Timeout(t) \/ Reset(t) PROVE Moods'
  BY <1>3, <1>8 DEF Timeout, Reset, deletion
<1>9. CASE DeleteCheck \/ Delete
  BY <1>3, <1>9 DEF DeleteCheck, Delete
<1>10. ASSUME NEW s \in Sides, DeleteTake(s) PROVE Moods'
  BY <1>3, <1>10 DEF DeleteTake, Sides
<1>11. CASE UNCHANGED vars
  BY <1>3, <1>11 DEF vars, deletion
<1>12. Threads \subseteq Procs
  BY DEF Procs
<1> QED BY <1>1, <1>4, <1>5, <1>6, <1>7, <1>8, <1>9, <1>10, <1>11, <1>12 DEF Next

LEMMA MoodsInit == Init => Moods
BY DEF Init, Moods, Waits

\* The types follow.
LEMMA TypesLemma ==
    ASSUME MailboxAssumption, Inv, Moods
    PROVE  TypeOK
<1>1. inOffset \in 0..Size - 1
  <2>1. Size \in Nat \ {0} /\ outOffset + entry \in Nat
    BY DEF MailboxAssumption, Inv, Ring
  <2>2. (outOffset + entry) % Size \in 0..Size - 1
    BY <2>1
  <2> QED BY <2>2 DEF Inv, Ring, Word
<1> QED BY <1>1 DEF Inv, Calling, Ring, Suspends, Moods, TypeOK, Labels

LEMMA InvHolds == ASSUME MailboxAssumption PROVE Spec => []Inv
<1>1. Init => Inv
  BY InitStep
<1>2. Inv /\ [Next]_vars => Inv'
  BY NextStep
<1> QED BY <1>1, <1>2, PTL DEF Spec

LEMMA InvSays == Inv => NobodyForgotten /\ NobodyLeft
BY Labelled DEF Inv, Forgotten, NobodyForgotten, There, Swept, NobodyLeft

\* No wake-up is lost on either side: while receivers are suspended there are no
\* more mails than receivers on their way to one, and while senders are, no more
\* free words than senders on their way, whatever time-outs, resets and handlers
\* come between.
THEOREM NoLostWakeUp == ASSUME MailboxAssumption PROVE Spec => []NobodyForgotten
<1>1. Inv => NobodyForgotten
  BY InvSays
<1> QED BY <1>1, InvHolds, PTL

\* rt_mb_delete leaves nobody suspended on what it frees but who had been woken,
\* came too late, and waited again while the deletion was under way.
THEOREM DeletedLeaves == ASSUME MailboxAssumption PROVE Spec => []NobodyLeft
<1>1. Inv => NobodyLeft
  BY InvSays
<1> QED BY <1>1, InvHolds, PTL

\* The mailbox implements a bounded FIFO (Channel), for any size: the offsets and
\* the count always delimit the mails that were sent and not received, in order,
\* however they wrap and whoever waits, is woken late, times out or resets it.
THEOREM BoundedFifo == ASSUME MailboxAssumption PROVE Spec => ImplementsFifo
<1>1. Init => Fifo!Init
  BY InitStep
<1>2. Inv /\ [Next]_vars => [Fifo!Next]_(Fifo!vars)
  BY NextStep
<1> QED BY <1>1, <1>2, InvHolds, PTL DEF Spec, ImplementsFifo, Fifo!Spec
=============================================================================
