--------------------------- MODULE SensorAppProofs ---------------------------
(***************************************************************************)
(* Theorems about SensorApp.                                               *)
(*                                                                         *)
(* A timer that the wake-up command restarted may leave a thread with a    *)
(* status that fits no list, and the guards of SensorApp say only that no  *)
(* list is corrupt.  The lemmas of the first half therefore ask of the     *)
(* lists no more than their type, and say no more than who may have left   *)
(* one.  Until the ADC timer's function has met a taken lock the system is *)
(* in better order; the second half shows that this order lasts.           *)
(***************************************************************************)
EXTENDS SensorApp, ThreadQueuesProofs, FiniteSetTheorems

-----------------------------------------------------------------------------
(* The kernel as a record                                                   *)

\* A kernel is its fields.
LEMMA KernelIntro ==
    ASSUME NEW q \in Queues, NEW c \in Threads \union {NoThread},
           NEW w \in Threads \union {NoThread}, NEW v \in {0, 1}, NEW h \in Nat,
           NEW g \in Prios \union {MaxPrio + 1},
           NEW e \in [Threads -> {"ok", "timeout", "error"}], NEW a \in SUBSET Threads
    PROVE  [q |-> q, current |-> c, owner |-> w, value |-> v, hold |-> h, orig |-> g,
            err |-> e, armed |-> a] \in Kernel
  BY DEF Kernel

LEMMA KernelParts ==
    ASSUME NEW s \in Kernel
    PROVE  /\ s = [q |-> s.q, current |-> s.current, owner |-> s.owner, value |-> s.value,
                   hold |-> s.hold, orig |-> s.orig, err |-> s.err, armed |-> s.armed]
           /\ s.q \in Queues /\ s.current \in Threads \union {NoThread}
           /\ s.owner \in Threads \union {NoThread} /\ s.value \in {0, 1}
           /\ s.hold \in Nat /\ s.orig \in Prios \union {MaxPrio + 1}
           /\ s.err \in [Threads -> {"ok", "timeout", "error"}]
           /\ s.armed \in SUBSET Threads
  BY DEF Kernel

\* The fields of the mutex agree with each other, whatever the lists hold.
Lock(s) ==
    /\ s.owner = NoThread <=> s.value = 1
    /\ s.owner = NoThread => s.hold = 0 /\ s.q.wait["lock"] = <<>>
    /\ s.owner # NoThread => s.hold > 0 /\ s.orig \in Prios

\* The mutex and the thread that runs are left alone.
SameLock(s, r) ==
    /\ r.owner = s.owner /\ r.value = s.value /\ r.hold = s.hold /\ r.orig = s.orig

\* Nobody joins an empty suspend list when threads only leave.
LEMMA LockKept ==
    ASSUME NEW s \in Kernel, Lock(s), NEW r \in Kernel, SameLock(s, r),
           Range(r.q.wait["lock"]) \subseteq Range(s.q.wait["lock"])
    PROVE  Lock(r)
<1>1. "lock" \in Objects
  BY SensorAssumption
<1>2. s.q.wait["lock"] \in Seq(Threads) /\ r.q.wait["lock"] \in Seq(Threads)
  BY <1>1, KernelParts DEF Queues
<1>3. s.q.wait["lock"] = <<>> => r.q.wait["lock"] = <<>>
  BY <1>2, EmptyLemma
<1> QED BY <1>3 DEF Lock, SameLock

LEMMA LeavesLock ==
    ASSUME NEW q, NEW r, NEW S, Leaves(q, r, S)
    PROVE  /\ Range(q.wait["lock"]) \ S \subseteq Range(r.wait["lock"])
           /\ Range(r.wait["lock"]) \subseteq Range(q.wait["lock"])
<1>1. "lock" \in Objects
  BY SensorAssumption
<1> QED BY <1>1 DEF Leaves

\* The switch in rt_schedule
LEMMA SwitchedLemma ==
    ASSUME NEW s \in Kernel, Lock(s), NEW r, r = [s EXCEPT !.current = NextThread(s.q)]
    PROVE  /\ r \in Kernel /\ Lock(r) /\ SameLock(s, r)
           /\ r.q = s.q /\ r.err = s.err /\ r.current = NextThread(s.q)
<1>1. r = [q |-> s.q, current |-> NextThread(s.q), owner |-> s.owner, value |-> s.value,
           hold |-> s.hold, orig |-> s.orig, err |-> s.err, armed |-> s.armed]
  BY KernelParts
<1>2. s.q \in Queues
  BY KernelParts
<1>3. NextThread(s.q) \in Threads \union {NoThread}
  BY <1>2, NextOnly
<1>4. r \in Kernel
  BY <1>1, <1>3, KernelParts, KernelIntro
<1>5. /\ r.q = s.q /\ r.err = s.err /\ SameLock(s, r) /\ r.current = NextThread(s.q)
  BY <1>1 DEF SameLock
<1>6. Lock(r)
  BY <1>5 DEF Lock, SameLock
<1> QED BY <1>4, <1>5, <1>6

\* rt_schedule
LEMMA ScheduledLemma ==
    ASSUME NEW s \in Kernel, Lock(s), NEW r, r = Scheduled(s)
    PROVE  /\ r \in Kernel /\ Lock(r) /\ SameLock(s, r)
           /\ r.q = s.q /\ r.err = s.err
           /\ \/ r.current = s.current /\ Printing(s.current)
              \/ r.current = NextThread(r.q)
<1>1. CASE Printing(s.current)
  BY <1>1 DEF Scheduled, SameLock
<1>2. CASE ~Printing(s.current)
  <2>1. r = [s EXCEPT !.current = NextThread(s.q)]
    BY <1>2 DEF Scheduled
  <2> QED BY <2>1, SwitchedLemma
<1> QED BY <1>1, <1>2

\* rt_thread_resume
LEMMA WokenLemma ==
    ASSUME NEW s \in Kernel, Lock(s), NEW t \in Threads, NEW r, r = Woken(s, t)
    PROVE  /\ r \in Kernel /\ Lock(r) /\ SameLock(s, r)
           /\ r.current = s.current /\ r.err = s.err
           /\ Leaves(s.q, r.q, {t})
<1> DEFINE m == Resumed(s.q, t)
<1>1. m \in Queues /\ Leaves(s.q, m, {t})
  BY KernelParts, ResumeOnly
<1>2. r = [q |-> m, current |-> s.current, owner |-> s.owner, value |-> s.value,
           hold |-> s.hold, orig |-> s.orig, err |-> s.err, armed |-> s.armed \ {t}]
  BY DEF Woken, Kernel
<1> HIDE DEF m
<1>4. r \in Kernel
  BY <1>1, <1>2 DEF Kernel
<1>5. /\ SameLock(s, r) /\ r.current = s.current /\ r.err = s.err
      /\ Leaves(s.q, r.q, {t})
  BY <1>1, <1>2 DEF SameLock
<1>6. Lock(r)
  BY <1>4, <1>5, LockKept, LeavesLock
<1> QED BY <1>4, <1>5, <1>6

\* The first waiter of an object is woken, if there is one.
LEMMA WokenFirstLemma ==
    ASSUME NEW s \in Kernel, Lock(s), NEW o \in Objects, NEW r, r = WokenFirst(s, o)
    PROVE  /\ r \in Kernel /\ Lock(r) /\ SameLock(s, r)
           /\ r.current = s.current /\ r.err = s.err
           /\ Leaves(s.q, r.q, Range(s.q.wait[o]))
<1>1. CASE s.q.wait[o] = <<>>
  BY <1>1 DEF WokenFirst, SameLock, Leaves
<1>2. CASE s.q.wait[o] # <<>>
  <2> DEFINE h == Head(s.q.wait[o])
  <2>1. s.q.wait[o] \in Seq(Threads)
    BY KernelParts DEF Queues
  <2>2. h \in Threads /\ h \in Range(s.q.wait[o])
    BY <1>2, <2>1, EmptyLemma
  <2>3. r = Woken(s, h)
    BY <1>2 DEF WokenFirst
  <2> HIDE DEF h
  <2>4. /\ r \in Kernel /\ Lock(r) /\ SameLock(s, r)
        /\ r.current = s.current /\ r.err = s.err
        /\ Leaves(s.q, r.q, {h})
    BY <2>2, <2>3, WokenLemma
  <2>5. Leaves(s.q, r.q, Range(s.q.wait[o]))
    BY <2>2, <2>4 DEF Leaves
  <2> QED BY <2>4, <2>5
<1> QED BY <1>1, <1>2

\* A change of a thread's error is one of that field.
Errors == {"ok", "timeout", "error"}
Faulted(s, t, x) == [s EXCEPT !.err[t] = x]

LEMMA FaultedLemma ==
    ASSUME NEW s \in Kernel, NEW t \in Threads, NEW x \in Errors,
           NEW r, r = Faulted(s, t, x)
    PROVE  /\ r \in Kernel /\ SameLock(s, r)
           /\ r.q = s.q /\ r.current = s.current /\ r.armed = s.armed
           /\ \A y \in Threads : r.err[y] = IF y = t THEN x ELSE s.err[y]
<1>1. r = [q |-> s.q, current |-> s.current, owner |-> s.owner, value |-> s.value,
           hold |-> s.hold, orig |-> s.orig, err |-> [s.err EXCEPT ![t] = x],
           armed |-> s.armed]
  BY DEF Faulted, Kernel
<1>2. [s.err EXCEPT ![t] = x] \in [Threads -> {"ok", "timeout", "error"}]
  BY KernelParts DEF Errors
<1>3. r \in Kernel
  BY <1>1, <1>2 DEF Kernel
<1>4. \A y \in Threads : r.err[y] = IF y = t THEN x ELSE s.err[y]
  BY <1>1, KernelParts
<1>5. /\ SameLock(s, r)
      /\ r.q = s.q /\ r.current = s.current /\ r.armed = s.armed
  BY <1>1 DEF SameLock
<1> QED BY <1>3, <1>4, <1>5

\* The priority the owner inherits: only the owner may leave a list.
LEMMA BoostedLemma ==
    ASSUME NEW q \in Queues, NEW t \in Threads, NEW u \in Threads, NEW r, r = Boosted(q, t, u)
    PROVE  r \in Queues /\ Leaves(q, r, {u})
<1>1. CASE q.prio[t] < q.prio[u]
  <2>1. r = Reprioritised(q, u, q.prio[t]) /\ q.prio[t] \in Prios
    BY <1>1 DEF Boosted, Queues
  <2> QED BY <2>1, ReprioritisedOnly
<1>2. CASE ~(q.prio[t] < q.prio[u])
  BY <1>2 DEF Boosted, Leaves
<1> QED BY <1>1, <1>2

\* rt_thread_suspend stops the timer of no other thread.
LEMMA DisarmedLemma ==
    ASSUME NEW s \in Kernel, NEW t \in Threads
    PROVE  Disarmed(s, t) \in SUBSET Threads /\ s.armed \ {t} \subseteq Disarmed(s, t)
  BY KernelParts DEF Disarmed

\* rt_mutex_take.  A thread that must wait is on the suspend list, and but for
\* the owner nobody has left it; else the thread owns the lock.
LEMMA TakenLemma ==
    ASSUME NEW s \in Kernel, Lock(s), NEW t \in Threads, NEW r, r = Taken(s, t)
    PROVE  /\ r \in Kernel /\ Lock(r) /\ r.current = s.current
           /\ \A y \in Threads : r.err[y] = IF y = t THEN "ok" ELSE s.err[y]
           /\ MustWait(s, t) =>
                 /\ r.owner = s.owner
                 /\ t \in Range(r.q.wait["lock"])
                 /\ Range(s.q.wait["lock"]) \ {s.owner} \subseteq Range(r.q.wait["lock"])
           /\ ~MustWait(s, t) =>
                 /\ r.q = s.q /\ r.owner = t /\ s.owner \in {t, NoThread}
                 /\ s.owner = t => r.hold = s.hold + 1
                 /\ s.owner = NoThread => r.hold = 1 /\ r.orig = s.q.prio[t]
<1> DEFINE e == Faulted(s, t, "ok")
<1>1. /\ e \in Kernel /\ SameLock(s, e) /\ e.q = s.q /\ e.current = s.current
      /\ \A y \in Threads : e.err[y] = IF y = t THEN "ok" ELSE s.err[y]
  <2>1. "ok" \in Errors
    BY DEF Errors
  <2> QED BY <2>1, FaultedLemma
<1>2. r = IF s.owner = t THEN [e EXCEPT !.hold = e.hold + 1]
          ELSE IF s.value > 0
          THEN [e EXCEPT !.value = e.value - 1, !.owner = t, !.orig = s.q.prio[t],
                         !.hold = e.hold + 1]
          ELSE [e EXCEPT !.q = WaitPrio(Boosted(s.q, t, s.owner), "lock", t),
                         !.armed = Disarmed(s, t)]
  BY DEF Taken, Faulted
<1>3. t # NoThread
  BY QueueAssumption
<1>4. s.q \in Queues /\ s.q.prio[t] \in Prios
  BY KernelParts DEF Queues
<1> HIDE DEF e
<1>5. CASE s.owner = t
  <2>1. r = [e EXCEPT !.hold = e.hold + 1]
    BY <1>2, <1>5
  <2>2. /\ r.q = e.q /\ r.owner = e.owner /\ r.value = e.value /\ r.orig = e.orig
        /\ r.current = e.current /\ r.err = e.err /\ r.hold = e.hold + 1
    BY <1>1, <2>1 DEF Kernel
  <2>3. r \in Kernel
    BY <1>1, <2>1 DEF Kernel
  <2>4. e.hold \in Nat
    BY <1>1 DEF Kernel
  <2>5. Lock(r)
    BY <1>1, <1>3, <1>5, <2>2, <2>4 DEF Lock, SameLock
  <2> QED BY <1>1, <1>3, <1>5, <2>2, <2>3, <2>5 DEF MustWait, SameLock
<1>6. CASE s.owner # t /\ s.value > 0
  <2>1. r = [e EXCEPT !.value = e.value - 1, !.owner = t, !.orig = s.q.prio[t],
                      !.hold = e.hold + 1]
    BY <1>2, <1>6
  <2>2. /\ r.q = e.q /\ r.owner = t /\ r.value = e.value - 1 /\ r.orig = s.q.prio[t]
        /\ r.current = e.current /\ r.err = e.err /\ r.hold = e.hold + 1
    BY <1>1, <2>1 DEF Kernel
  <2>3. s.value = 1 /\ s.owner = NoThread /\ s.hold = 0
    BY <1>6, KernelParts DEF Lock
  <2>4. e.value = 1 /\ e.hold = 0
    BY <1>1, <2>3 DEF SameLock
  <2>5. r \in Kernel
    <3>1. e.value - 1 \in {0, 1} /\ e.hold + 1 \in Nat
      BY <2>4
    <3>2. s.q.prio[t] \in Prios \union {MaxPrio + 1}
      BY <1>4
    <3> QED BY <1>1, <2>1, <3>1, <3>2 DEF Kernel
  <2>6. Lock(r)
    BY <1>3, <1>4, <2>2, <2>4 DEF Lock
  <2> QED BY <1>1, <1>3, <1>6, <2>2, <2>3, <2>4, <2>5, <2>6 DEF MustWait
<1>7. CASE s.owner # t /\ ~(s.value > 0)
  <2> DEFINE b == Boosted(s.q, t, s.owner)
             m == WaitPrio(b, "lock", t)
             a == Disarmed(s, t)
  <2>1. r = [e EXCEPT !.q = m, !.armed = a]
    BY <1>2, <1>7
  <2>2. s.value = 0 /\ s.owner # NoThread
    BY <1>7, KernelParts DEF Lock
  <2>3. s.owner \in Threads
    BY <2>2, KernelParts
  <2>4. b \in Queues /\ Leaves(s.q, b, {s.owner})
    BY <1>4, <2>3, BoostedLemma
  <2> HIDE DEF b
  <2>5. "lock" \in Objects
    BY SensorAssumption
  <2>6. m \in Queues /\ Joins(b, m, "lock", t)
    BY <2>4, <2>5, WaitOnly
  <2>6a. a \in SUBSET Threads
    BY DisarmedLemma
  <2> HIDE DEF m, a
  <2>7. /\ r.q = m /\ r.owner = e.owner /\ r.value = e.value /\ r.orig = e.orig
        /\ r.current = e.current /\ r.err = e.err /\ r.hold = e.hold
    BY <1>1, <2>1 DEF Kernel
  <2>8. r \in Kernel
    BY <1>1, <2>1, <2>6, <2>6a DEF Kernel
  <2>9. Lock(r)
    BY <1>1, <2>2, <2>7 DEF Lock, SameLock
  <2>10. /\ t \in Range(m.wait["lock"])
         /\ Range(b.wait["lock"]) \ {t} \subseteq Range(m.wait["lock"])
    BY <2>5, <2>6 DEF Joins
  <2>11. Range(s.q.wait["lock"]) \ {s.owner} \subseteq Range(b.wait["lock"])
    BY <2>4, LeavesLock
  <2>12. MustWait(s, t)
    BY <1>7, <2>2 DEF MustWait
  <2>13. r.owner = s.owner
    BY <1>1, <2>7 DEF SameLock
  <2>14. Range(s.q.wait["lock"]) \ {s.owner} \subseteq Range(r.q.wait["lock"])
    BY <2>7, <2>10, <2>11
  <2> QED BY <1>1, <2>7, <2>8, <2>9, <2>10, <2>12, <2>13, <2>14
<1> QED BY <1>5, <1>6, <1>7

\* rt_mutex_release: only the owner that took it once passes the lock on, to a
\* waiter, and but for the two nobody has left the suspend list.
LEMMA ReleasedLemma ==
    ASSUME NEW s \in Kernel, Lock(s), NEW t \in Threads, NEW r, r = Released(s, t)
    PROVE  /\ r \in Kernel /\ Lock(r) /\ r.current = s.current
           /\ s.owner # t => /\ r.q = s.q /\ r.owner = s.owner
           /\ s.owner = t => r.err = s.err
           /\ \A y \in Threads : y # t => r.err[y] = s.err[y]
           /\ s.owner = t /\ s.hold > 1 => r.q = s.q /\ r.owner = t
           /\ /\ Range(s.q.wait["lock"]) \ {t, r.owner} \subseteq Range(r.q.wait["lock"])
              /\ Range(r.q.wait["lock"]) \subseteq Range(s.q.wait["lock"])
           /\ s.owner = t /\ s.hold = 1 /\ s.q.wait["lock"] = <<>> /\ s.orig = s.q.prio[t]
                 => r.q = s.q /\ r.owner = NoThread
<1>1. t # NoThread /\ "lock" \in Objects /\ s.q \in Queues /\ s.hold \in Nat
  BY QueueAssumption, SensorAssumption, KernelParts
<1>2. CASE s.owner # t
  <2>1. r = Faulted(s, t, "error")
    BY <1>2 DEF Released, Faulted
  <2>4. "error" \in Errors
    BY DEF Errors
  <2>2. /\ r \in Kernel /\ SameLock(s, r) /\ r.q = s.q /\ r.current = s.current
        /\ \A y \in Threads : y # t => r.err[y] = s.err[y]
    BY <2>1, <2>4, FaultedLemma
  <2>3. Lock(r)
    BY <2>2 DEF Lock, SameLock
  <2> QED BY <1>1, <1>2, <2>2, <2>3 DEF SameLock
<1>3. CASE s.owner = t /\ s.hold > 1
  <2>1. r = [s EXCEPT !.hold = s.hold - 1]
    BY <1>3 DEF Released
  <2>2. /\ r.q = s.q /\ r.owner = s.owner /\ r.value = s.value /\ r.orig = s.orig
        /\ r.current = s.current /\ r.err = s.err /\ r.hold = s.hold - 1
    BY <2>1 DEF Kernel
  <2>3. r \in Kernel
    BY <1>1, <1>3, <2>1 DEF Kernel
  <2>4. Lock(r)
    BY <1>1, <1>3, <2>2 DEF Lock
  <2> QED BY <1>1, <1>3, <2>2, <2>3, <2>4
<1>4. CASE s.owner = t /\ ~(s.hold > 1)
  <2> DEFINE w == IF s.orig # s.q.prio[t] THEN Reprioritised(s.q, t, s.orig) ELSE s.q
  <2>1. s.value = 0 /\ s.orig \in Prios /\ s.hold = 1
    BY <1>1, <1>4, KernelParts DEF Lock
  <2>2. w \in Queues /\ Leaves(s.q, w, {t}) /\ (s.orig = s.q.prio[t] => w = s.q)
    <3>1. Leaves(s.q, s.q, {t})
      BY DEF Leaves
    <3>2. s.orig # s.q.prio[t] => w = Reprioritised(s.q, t, s.orig)
      OBVIOUS
    <3> QED BY <1>1, <2>1, <3>1, <3>2, ReprioritisedOnly
  <2>3. /\ Range(s.q.wait["lock"]) \ {t} \subseteq Range(w.wait["lock"])
        /\ Range(w.wait["lock"]) \subseteq Range(s.q.wait["lock"])
    BY <2>2, LeavesLock
  <2>4. r = IF w.wait["lock"] = <<>>
            THEN [s EXCEPT !.q = w, !.hold = 0, !.value = s.value + 1,
                           !.owner = NoThread, !.orig = MaxPrio + 1]
            ELSE Woken([s EXCEPT !.q = w, !.owner = Head(w.wait["lock"]),
                                 !.orig = w.prio[Head(w.wait["lock"])]],
                       Head(w.wait["lock"]))
    BY <1>4 DEF Released
  <2> HIDE DEF w
  <2>5. w.wait["lock"] \in Seq(Threads)
    BY <1>1, <2>2 DEF Queues
  <2>6. CASE w.wait["lock"] = <<>>
    <3>1. r = [s EXCEPT !.q = w, !.hold = 0, !.value = s.value + 1,
                        !.owner = NoThread, !.orig = MaxPrio + 1]
      BY <2>4, <2>6
    <3>2. /\ r.q = w /\ r.owner = NoThread /\ r.value = 1 /\ r.hold = 0
          /\ r.current = s.current /\ r.err = s.err
      BY <2>1, <3>1 DEF Kernel
    <3>3. r \in Kernel
      <4>1. s.value + 1 \in {0, 1} /\ 0 \in Nat
        BY <2>1
      <4>2. MaxPrio + 1 \in Prios \union {MaxPrio + 1}
        OBVIOUS
      <4> QED BY <2>2, <3>1, <4>1, <4>2 DEF Kernel
    <3>4. Lock(r)
      BY <2>6, <3>2 DEF Lock
    <3> QED BY <1>1, <1>4, <2>1, <2>2, <2>3, <3>2, <3>3, <3>4
  <2>7. CASE w.wait["lock"] # <<>>
    <3> DEFINE u == Head(w.wait["lock"])
               m == [s EXCEPT !.q = w, !.owner = u, !.orig = w.prio[u]]
    <3>1. r = Woken(m, u)
      BY <2>4, <2>7
    <3>2. u \in Threads
      BY <2>5, <2>7, EmptyLemma
    <3> HIDE DEF u
    <3>3. w.prio[u] \in Prios
      BY <2>2, <3>2 DEF Queues
    <3>4. /\ m.q = w /\ m.owner = u /\ m.value = s.value /\ m.orig = w.prio[u]
          /\ m.current = s.current /\ m.err = s.err /\ m.hold = s.hold
      BY DEF Kernel
    <3>5. m \in Kernel
      BY <2>2, <3>2, <3>3 DEF Kernel
    <3>6. u # NoThread
      BY <3>2, QueueAssumption
    <3> HIDE DEF m
    <3>7. Lock(m)
      BY <2>1, <3>3, <3>4, <3>6 DEF Lock
    <3>8. /\ r \in Kernel /\ Lock(r) /\ SameLock(m, r)
          /\ r.current = m.current /\ r.err = m.err /\ Leaves(m.q, r.q, {u})
      BY <3>1, <3>2, <3>5, <3>7, WokenLemma
    <3>9. /\ Range(m.q.wait["lock"]) \ {u} \subseteq Range(r.q.wait["lock"])
          /\ Range(r.q.wait["lock"]) \subseteq Range(m.q.wait["lock"])
      BY <3>8, LeavesLock
    <3>10. r.owner = u /\ r.err = s.err /\ r.current = s.current
      BY <3>4, <3>8 DEF SameLock
    <3>11. /\ Range(s.q.wait["lock"]) \ {t, r.owner} \subseteq Range(r.q.wait["lock"])
           /\ Range(r.q.wait["lock"]) \subseteq Range(s.q.wait["lock"])
      BY <2>3, <3>4, <3>9, <3>10
    <3>12. ~(s.orig = s.q.prio[t] /\ s.q.wait["lock"] = <<>>)
      BY <2>2, <2>7
    <3> QED BY <1>4, <3>8, <3>10, <3>11, <3>12
  <2> QED BY <2>6, <2>7
<1> QED BY <1>2, <1>3, <1>4

\* The lists and the timers of a kernel.
Requeued(s, q, a) == [s EXCEPT !.q = q, !.armed = a]

LEMMA RequeuedLemma ==
    ASSUME NEW s \in Kernel, Lock(s), NEW q \in Queues, NEW a \in SUBSET Threads,
           NEW r, r = Requeued(s, q, a),
           Range(q.wait["lock"]) \subseteq Range(s.q.wait["lock"])
    PROVE  /\ r \in Kernel /\ Lock(r) /\ SameLock(s, r)
           /\ r.q = q /\ r.current = s.current /\ r.err = s.err
<1>1. r = [q |-> q, current |-> s.current, owner |-> s.owner, value |-> s.value,
           hold |-> s.hold, orig |-> s.orig, err |-> s.err, armed |-> a]
  BY DEF Requeued, Kernel
<1>2. r \in Kernel
  BY <1>1 DEF Kernel
<1>3. SameLock(s, r) /\ r.q = q /\ r.current = s.current /\ r.err = s.err
  BY <1>1 DEF SameLock
<1>4. Lock(r)
  BY <1>2, <1>3, LockKept
<1> QED BY <1>2, <1>3, <1>4

\* A wait for something else than the lock.
Parted(s, o, t) ==
    Faulted([s EXCEPT !.q = WaitFifo(s.q, o, t), !.armed = Disarmed(s, t)], t, "ok")

LEMMA WaitingLemma ==
    ASSUME NEW s \in Kernel, Lock(s), NEW t \in Threads, NEW o, o = "mq" \/ o = "sem",
           NEW r, r = Parted(s, o, t)
    PROVE  /\ r \in Kernel /\ Lock(r) /\ SameLock(s, r) /\ r.current = s.current
           /\ \A y \in Threads : r.err[y] = IF y = t THEN "ok" ELSE s.err[y]
           /\ Range(s.q.wait["lock"]) \ {t} \subseteq Range(r.q.wait["lock"])
           /\ Range(r.q.wait["lock"]) \subseteq Range(s.q.wait["lock"])
<1> DEFINE w == WaitFifo(s.q, o, t)
           a == Disarmed(s, t)
           m == [s EXCEPT !.q = w, !.armed = a]
<1>1. o \in Objects /\ "lock" \in Objects /\ o # "lock" /\ a \in SUBSET Threads
  BY SensorAssumption, DisarmedLemma
<1>2. w \in Queues /\ Joins(s.q, w, o, t)
  BY <1>1, KernelParts, WaitOnly
<1>3. /\ Range(s.q.wait["lock"]) \ {t} \subseteq Range(w.wait["lock"])
      /\ Range(w.wait["lock"]) \subseteq Range(s.q.wait["lock"])
  BY <1>1, <1>2 DEF Joins
<1> HIDE DEF w, a
<1>4. m = Requeued(s, w, a)
  BY DEF Requeued
<1>5. r = Faulted(m, t, "ok")
  BY DEF Parted, w, a
<1> HIDE DEF m
<1>6. /\ m \in Kernel /\ Lock(m) /\ SameLock(s, m)
      /\ m.q = w /\ m.current = s.current /\ m.err = s.err
  BY <1>1, <1>2, <1>3, <1>4, RequeuedLemma
<1>7. "ok" \in Errors
  BY DEF Errors
<1>8. /\ r \in Kernel /\ SameLock(m, r) /\ r.q = m.q /\ r.current = m.current
      /\ \A y \in Threads : r.err[y] = IF y = t THEN "ok" ELSE m.err[y]
  BY <1>5, <1>6, <1>7, FaultedLemma
<1>9. Lock(r) /\ SameLock(s, r)
  BY <1>6, <1>8 DEF Lock, SameLock
<1> QED BY <1>3, <1>6, <1>8, <1>9

\* rt_thread_timeout
Expired(s, u) ==
    [s EXCEPT !.q = InsertThread(Unlinked(@, u), u), !.armed = @ \ {u}, !.err[u] = "timeout"]

LEMMA ExpiredLemma ==
    ASSUME NEW s \in Kernel, Lock(s), NEW u \in Threads, NEW r, r = Expired(s, u)
    PROVE  /\ r \in Kernel /\ Lock(r) /\ SameLock(s, r) /\ r.current = s.current
           /\ \A y \in Threads : y # u => r.err[y] = s.err[y]
           /\ Range(s.q.wait["lock"]) \ {u} \subseteq Range(r.q.wait["lock"])
           /\ Range(r.q.wait["lock"]) \subseteq Range(s.q.wait["lock"])
<1> DEFINE w == InsertThread(Unlinked(s.q, u), u)
           a == s.armed \ {u}
           m == Requeued(s, w, a)
<1>1. w \in Queues /\ Leaves(s.q, w, {u})
  BY KernelParts, ResumeOnly
<1>2. a \in SUBSET Threads
  BY KernelParts
<1>3. r = Faulted(m, u, "timeout")
  BY DEF Expired, Faulted, Requeued
<1> HIDE DEF w, a
<1>4. /\ Range(s.q.wait["lock"]) \ {u} \subseteq Range(w.wait["lock"])
      /\ Range(w.wait["lock"]) \subseteq Range(s.q.wait["lock"])
  BY <1>1, LeavesLock
<1>5. /\ m \in Kernel /\ Lock(m) /\ SameLock(s, m)
      /\ m.q = w /\ m.current = s.current /\ m.err = s.err
  BY <1>1, <1>2, <1>4, RequeuedLemma
<1> HIDE DEF m
<1>6. "timeout" \in Errors
  BY DEF Errors
<1>7. /\ r \in Kernel /\ SameLock(m, r) /\ r.q = m.q /\ r.current = m.current
      /\ \A y \in Threads : y # u => r.err[y] = m.err[y]
  BY <1>3, <1>5, <1>6, FaultedLemma
<1>8. Lock(r) /\ SameLock(s, r)
  BY <1>5, <1>7 DEF Lock, SameLock
<1> QED BY <1>4, <1>5, <1>7, <1>8

\* A change of the ready lists is one of that field.
LEMMA ReadyFields ==
    ASSUME NEW q \in Queues, NEW f, NEW m, m = [q EXCEPT !.ready = f]
    PROVE  m = [stat |-> q.stat, prio |-> q.prio, ready |-> f, group |-> q.group,
                wait |-> q.wait, defunct |-> q.defunct]
  BY DEF Queues

\* rt_thread_yield: the suspend lists are left alone.
Rotate(s, p, t) == [s EXCEPT !.q.ready[p] = Append(Unlink(@, t), t)]

LEMMA RotateLemma ==
    ASSUME NEW s \in Kernel, Lock(s), NEW t \in Threads, NEW p \in Prios,
           NEW r, r = Rotate(s, p, t)
    PROVE  /\ r \in Kernel /\ Lock(r) /\ SameLock(s, r) /\ r.current = s.current
           /\ r.err = s.err /\ r.q.wait = s.q.wait
<1> DEFINE l == Append(Unlink(s.q.ready[p], t), t)
           f == [s.q.ready EXCEPT ![p] = l]
           m == [s.q EXCEPT !.ready = f]
<1>1. s.q \in Queues /\ s.q.ready[p] \in Seq(Threads)
  BY KernelParts DEF Queues
<1>2. l \in Seq(Threads)
  BY <1>1, UnlinkOnly
<1>3. r = [s EXCEPT !.q = m]
  BY DEF Rotate
<1> HIDE DEF l
<1>4. m = [stat |-> s.q.stat, prio |-> s.q.prio, ready |-> f,
           group |-> s.q.group, wait |-> s.q.wait, defunct |-> s.q.defunct]
  <2> HIDE DEF f
  <2> QED BY <1>1, ReadyFields
<1>5. f \in [Prios -> Seq(Threads)]
  BY <1>1, <1>2 DEF Queues
<1> HIDE DEF f
<1>6. m \in Queues /\ m.wait = s.q.wait
  BY <1>1, <1>4, <1>5, QueuesIntro DEF Queues
<1> HIDE DEF m
<1>7. r = Requeued(s, m, s.armed)
  BY <1>3 DEF Requeued, Kernel
<1> QED BY <1>6, <1>7, KernelParts, RequeuedLemma

-----------------------------------------------------------------------------
(* The inductive invariant                                                  *)

\* Where a thread can be in its code.
Place(t) ==
    CASE t = Usart2 -> {"wait", "waiting", "print"}
      [] t = Shell -> {"prompt", "asleep", "waking"}
      [] t = Bright -> {"take", "taking", "read", "recv", "receiving", "report",
                        "print", "delay", "asleep"}
      [] t = Temper -> {"take", "taking", "read", "send", "print", "delay", "asleep"}
      [] OTHER -> {"idle"}

Placed == \A t \in Threads : pc[t] \in Place(t)

\* A thread that is about to call rt_schedule does not keep the scheduler locked.
Quiet == \A t \in late : pc[t] \notin {"report", "print"}

\* A sensor thread that waits for the lock is on its suspend list or has been
\* given it, and one that reads the buffer owns it, if its timer did not interfere.
Claim(s, p, c, x) ==
    /\ p[x] = "taking" =>
          s.owner = x \/ x \in Range(s.q.wait["lock"]) \/ <<x, "lock">> \in c
    /\ p[x] = "read" => s.owner = x \/ <<x, "lock">> \in c
Claimed == \A x \in {Bright, Temper} : Claim(k, pc, cut, x)

\* A thread on the lock's suspend list that still runs is about to call
\* rt_schedule.
Attends(s, l) ==
    ListsSound(s.q) => \A x \in Range(s.q.wait["lock"]) : x = s.current => x \in l
Attended == Attends(k, late)

\* A wait for a message fails, and an old temperature is printed, only if the
\* timer of the light thread ended the wait.
Excuse(s, p, c, m) ==
    /\ p[Bright] = "receiving" /\ s.err[Bright] # "ok" => <<Bright, "mq">> \in c
    /\ p[Bright] = "report" /\ m # "received" => <<Bright, "mq">> \in c
Excused == Excuse(k, pc, cut, temper)

Inv == /\ TypeOK /\ Lock(k) /\ Placed /\ Quiet
       /\ contended \/ (Claimed /\ Attended /\ Excused)

\* The five threads differ, ...
LEMMA DistinctLemma ==
    /\ Usart2 # Bright /\ Usart2 # Temper /\ Usart2 # Shell /\ Usart2 # Idle
    /\ Bright # Temper /\ Bright # Shell /\ Bright # Idle
    /\ Temper # Shell /\ Temper # Idle /\ Shell # Idle
<1> DEFINE f == <<Usart2, Bright, Temper, Shell, Idle>>
<1>1. \A a, b \in 1..5 : f[a] = f[b] => a = b
  BY SensorAssumption DEF IsInjective
<1>2. f[1] = Usart2 /\ f[2] = Bright /\ f[3] = Temper /\ f[4] = Shell /\ f[5] = Idle
  OBVIOUS
<1> HIDE DEF f
<1> QED BY <1>1, <1>2

\* ... and so do their codes.
LEMMA PlaceLemma ==
    /\ Place(Usart2) = {"wait", "waiting", "print"}
    /\ Place(Shell) = {"prompt", "asleep", "waking"}
    /\ Place(Bright) = {"take", "taking", "read", "recv", "receiving", "report",
                        "print", "delay", "asleep"}
    /\ Place(Temper) = {"take", "taking", "read", "send", "print", "delay", "asleep"}
    /\ Place(Idle) = {"idle"}
    /\ {Usart2, Bright, Temper, Shell, Idle} = Threads
    /\ Bright # Temper
  BY DistinctLemma, SensorAssumption DEF Place

\* Whose code a place belongs to.
LEMMA WhoLemma ==
    ASSUME NEW t \in Threads
    PROVE  /\ Place(t) \subseteq Labels
           /\ \A l \in {"take", "taking", "read", "delay"} :
                 l \in Place(t) => t \in {Bright, Temper}
           /\ \A l \in {"recv", "receiving", "report"} : l \in Place(t) => t = Bright
           /\ "send" \in Place(t) => t = Temper
           /\ \A l \in {"wait", "waiting"} : l \in Place(t) => t = Usart2
           /\ \A l \in {"prompt", "waking"} : l \in Place(t) => t = Shell
           /\ "asleep" \in Place(t) => t \in {Bright, Temper, Shell}
           /\ "print" \in Place(t) => t \in {Usart2, Bright, Temper}
<1>1. t \in {Usart2, Bright, Temper, Shell, Idle}
  BY PlaceLemma
<1>2. CASE t = Usart2
  BY <1>2, PlaceLemma DEF Labels
<1>3. CASE t = Bright
  BY <1>3, PlaceLemma DEF Labels
<1>4. CASE t = Temper
  BY <1>4, PlaceLemma DEF Labels
<1>5. CASE t = Shell
  BY <1>5, PlaceLemma DEF Labels
<1>6. CASE t = Idle
  BY <1>6, PlaceLemma DEF Labels
<1> QED BY <1>1, <1>2, <1>3, <1>4, <1>5, <1>6

-----------------------------------------------------------------------------
(* What a step is made of                                                   *)

\* Where a step of the running thread starts.
LEMMA FromLemma ==
    ASSUME Inv, NEW t \in Threads, NEW l, NEW n, Step(t, l, n)
    PROVE  pc[t] = l /\ l \in Place(t) /\ k.current = t /\ t \notin late /\ ~Over
  BY DEF Inv, Placed, Step, Runs

\* A step of the running thread: the places.
LEMMA StepLemma ==
    ASSUME Inv, NEW t \in Threads, NEW l, NEW n \in Place(t), Step(t, l, n)
    PROVE  /\ pc' \in [Threads -> Labels] /\ Placed'
           /\ \A x \in Threads : pc'[x] = IF x = t THEN n ELSE pc[x]
           /\ pc[t] = l /\ l \in Place(t) /\ k.current = t /\ t \notin late
           /\ k.current # NoThread /\ ListsSound(k.q) /\ ~Over
           /\ late' = late => Quiet'
           /\ late' = late \union {t} /\ n \notin {"report", "print"} => Quiet'
<1>1. /\ pc \in [Threads -> Labels] /\ Placed /\ Quiet /\ late \subseteq Threads
  BY DEF Inv, TypeOK
<1>2. /\ pc' = [pc EXCEPT ![t] = n] /\ pc[t] = l /\ k.current = t /\ t \notin late /\ ~Over
  BY DEF Step, Runs
<1>3. \A x \in Threads : pc'[x] = IF x = t THEN n ELSE pc[x]
  BY <1>1, <1>2
<1>4. pc' \in [Threads -> Labels]
  BY <1>1, <1>2, WhoLemma
<1>5. Placed'
  BY <1>1, <1>3 DEF Placed
<1>6. l \in Place(t)
  BY <1>1, <1>2 DEF Placed
<1>7. k.current # NoThread /\ ListsSound(k.q)
  BY <1>2 DEF Over, Broken
<1>8. late' = late => Quiet'
  BY <1>1, <1>2, <1>3 DEF Quiet
<1>9. late' = late \union {t} /\ n \notin {"report", "print"} => Quiet'
  BY <1>1, <1>2, <1>3 DEF Quiet
<1> QED BY <1>2, <1>3, <1>4, <1>5, <1>6, <1>7, <1>8, <1>9

\* The thread rt_schedule picks is on no suspend list, if the lists are sound.
LEMMA NextAttends ==
    ASSUME NEW s \in Kernel, s.current = NextThread(s.q), NEW l
    PROVE  Attends(s, l)
<1> SUFFICES ASSUME ListsSound(s.q), NEW x \in Range(s.q.wait["lock"]), x = s.current
             PROVE  FALSE
  BY DEF Attends
<1>1. "lock" \in Objects /\ s.q \in Queues
  BY SensorAssumption, KernelParts
<1>2. s.q.wait["lock"] \in Seq(Threads)
  BY <1>1 DEF Queues
<1>3. x \in Threads /\ x # NoThread
  BY <1>2, EmptyLemma, QueueAssumption
<1>4. \E p \in Prios : x \in Range(s.q.ready[p])
  BY <1>1, <1>3, NextOnly
<1>5. s.q.stat[x] = "ready"
  BY <1>4 DEF ListsSound
<1>6. s.q.stat[x] = "suspend"
  BY <1>1 DEF ListsSound
<1> QED BY <1>5, <1>6

\* Nobody joins the suspend list of the lock, and rt_schedule, if anything,
\* decides who runs.
LEMMA AttendsKept ==
    ASSUME NEW s \in Kernel, NEW r \in Kernel, NEW l, NEW m, l \subseteq m,
           ListsSound(s.q), Attends(s, l),
           Range(r.q.wait["lock"]) \subseteq Range(s.q.wait["lock"]),
           r.current = s.current \/ r.current = NextThread(r.q)
    PROVE  Attends(r, m)
<1>1. CASE r.current = NextThread(r.q)
  BY <1>1, NextAttends
<1>2. CASE r.current = s.current
  BY <1>2 DEF Attends
<1> QED BY <1>1, <1>2

\* A thread's claim to the lock is kept by those that leave the owner and the
\* thread itself alone.
LEMMA ClaimKept ==
    ASSUME NEW s, NEW r, NEW p, NEW pp, NEW c, NEW cc, NEW x,
           Claim(s, p, c, x), r.owner = s.owner,
           p[x] = "taking" /\ pp[x] = p[x] /\ x \in Range(s.q.wait["lock"]) =>
              x \in Range(r.q.wait["lock"]) \/ <<x, "lock">> \in cc,
           <<x, "lock">> \in c => <<x, "lock">> \in cc,
           pp[x] \in {"taking", "read"} => pp[x] = p[x]
    PROVE  Claim(r, pp, cc, x)
  BY DEF Claim

\* The types of what is beside the kernel.
DataOK ==
    /\ mail \in 0..Queue /\ units \in 0..MaxUnits
    /\ timer \in BOOLEAN /\ sensing \in BOOLEAN /\ dma \in BOOLEAN
    /\ temper \in {"none", "received", "old"}
    /\ events \in Scenarios

\* What is left alone of the lock's owner and its suspend list, by a step after
\* which rt_schedule may decide who runs.
LEMMA FrameLemma ==
    ASSUME Inv, ~contended, ListsSound(k.q), k' \in Kernel, k'.owner = k.owner,
           Range(k'.q.wait["lock"]) \subseteq Range(k.q.wait["lock"]),
           late \subseteq late', cut \subseteq cut',
           k'.current = k.current \/ k'.current = NextThread(k'.q),
           \A x \in {Bright, Temper} :
              /\ pc'[x] \in {"taking", "read"} => pc'[x] = pc[x]
              /\ pc[x] = "taking" /\ pc'[x] = pc[x] /\ x \in Range(k.q.wait["lock"])
                    => x \in Range(k'.q.wait["lock"]) \/ <<x, "lock">> \in cut'
    PROVE  Claimed' /\ Attended'
<1>1. Claimed /\ Attended /\ k \in Kernel
  BY DEF Inv, TypeOK
<1>2. ASSUME NEW x \in {Bright, Temper} PROVE Claim(k', pc', cut', x)
  <2>1. Claim(k, pc, cut, x)
    BY <1>1 DEF Claimed
  <2>2. <<x, "lock">> \in cut => <<x, "lock">> \in cut'
    OBVIOUS
  <2>3. pc[x] = "taking" /\ pc'[x] = pc[x] /\ x \in Range(k.q.wait["lock"]) =>
           x \in Range(k'.q.wait["lock"]) \/ <<x, "lock">> \in cut'
    OBVIOUS
  <2>4. pc'[x] \in {"taking", "read"} => pc'[x] = pc[x]
    OBVIOUS
  <2> QED BY <2>1, <2>2, <2>3, <2>4, ClaimKept
<1>3. Claimed'
  BY <1>2 DEF Claimed
<1>4. Attends(k, late)
  BY <1>1 DEF Attended
<1>5. Attends(k', late')
  BY <1>1, <1>4, AttendsKept
<1> QED BY <1>3, <1>5 DEF Attended

\* A step of the running thread that leaves the lock alone.
LEMMA ThreadFrame ==
    ASSUME Inv, NEW t \in Threads, NEW l, NEW n \in Place(t), Step(t, l, n),
           n \notin {"taking", "read"},
           k' \in Kernel, Lock(k'), k'.owner = k.owner,
           Range(k.q.wait["lock"]) \ {t} \subseteq Range(k'.q.wait["lock"]),
           Range(k'.q.wait["lock"]) \subseteq Range(k.q.wait["lock"]),
           k'.current = k.current \/ k'.current = NextThread(k'.q),
           \/ late' = late
           \/ late' = late \union {t} /\ n \notin {"report", "print"},
           DataOK', cut' = cut, contended' = contended,
           ~contended => Excused'
    PROVE  Inv'
<1>1. /\ pc' \in [Threads -> Labels] /\ Placed' /\ Quiet'
      /\ \A x \in Threads : pc'[x] = IF x = t THEN n ELSE pc[x]
      /\ ListsSound(k.q)
  BY StepLemma
<1>2. TypeOK'
  <2>1. cut \subseteq {Bright, Temper} \X {"lock", "mq"} /\ contended \in BOOLEAN
        /\ late \subseteq Threads
    BY DEF Inv, TypeOK
  <2> QED BY <1>1, <2>1 DEF TypeOK, DataOK
<1>3. ASSUME ~contended PROVE Claimed' /\ Attended'
  <2>1. \A x \in {Bright, Temper} :
           /\ pc'[x] \in {"taking", "read"} => pc'[x] = pc[x]
           /\ pc[x] = "taking" /\ pc'[x] = pc[x] /\ x \in Range(k.q.wait["lock"])
                 => x \in Range(k'.q.wait["lock"]) \/ <<x, "lock">> \in cut'
    <3>1. Bright \in Threads /\ Temper \in Threads
      BY SensorAssumption
    <3> QED BY <1>1, <3>1
  <2>2. late \subseteq late' /\ cut \subseteq cut'
    OBVIOUS
  <2> QED BY <1>1, <1>3, <2>1, <2>2, FrameLemma
<1> QED BY <1>1, <1>2, <1>3 DEF Inv

\* A step of a handler that leaves the lock alone.
LEMMA HandlerFrame ==
    ASSUME Inv, ~Over, pc' = pc, late' = late,
           k' \in Kernel, Lock(k'), k'.owner = k.owner,
           Range(k'.q.wait["lock"]) \subseteq Range(k.q.wait["lock"]),
           \A x \in Range(k.q.wait["lock"]) :
              x \in Range(k'.q.wait["lock"]) \/ (pc[x] = "taking" => <<x, "lock">> \in cut'),
           k'.current = k.current \/ k'.current = NextThread(k'.q),
           DataOK', cut \subseteq cut', contended' = contended,
           cut' \subseteq {Bright, Temper} \X {"lock", "mq"},
           ~contended => Excused'
    PROVE  Inv'
<1>1. /\ pc \in [Threads -> Labels] /\ Placed /\ Quiet /\ late \subseteq Threads
      /\ contended \in BOOLEAN
  BY DEF Inv, TypeOK
<1>2. TypeOK' /\ Placed' /\ Quiet'
  BY <1>1 DEF TypeOK, DataOK, Placed, Quiet
<1>3. ListsSound(k.q)
  BY DEF Over, Broken
<1>4. ASSUME ~contended PROVE Claimed' /\ Attended'
  <2>1. \A x \in {Bright, Temper} :
           /\ pc'[x] \in {"taking", "read"} => pc'[x] = pc[x]
           /\ pc[x] = "taking" /\ pc'[x] = pc[x] /\ x \in Range(k.q.wait["lock"])
                 => x \in Range(k'.q.wait["lock"]) \/ <<x, "lock">> \in cut'
    OBVIOUS
  <2>2. late \subseteq late'
    OBVIOUS
  <2> QED BY <1>3, <1>4, <2>1, <2>2, FrameLemma
<1> QED BY <1>2, <1>4 DEF Inv

\* The excuse of the light thread stands while it does not go on.
LEMMA ExcuseKept ==
    ASSUME Excused, k'.err[Bright] \in {k.err[Bright], "ok"}, cut \subseteq cut',
           pc'[Bright] \in {"receiving", "report"} => pc'[Bright] = pc[Bright],
           pc'[Bright] = "report" => temper' = temper
    PROVE  Excused'
  BY DEF Excused, Excuse

-----------------------------------------------------------------------------
(* The steps of the threads                                                 *)

\* rt_schedule
LEMMA ScheduleStep ==
    ASSUME Inv, NEW t \in Threads, Schedule(t)
    PROVE  Inv' /\ k'.owner = k.owner
<1>1. /\ ~Over /\ k.current = t /\ t \in late /\ k' = Scheduled(k)
      /\ late' = late \ {t} /\ UNCHANGED <<pc, data, history>>
  BY DEF Schedule
<1>2. k \in Kernel /\ Lock(k) /\ Quiet
  BY DEF Inv, TypeOK
<1>3. /\ k' \in Kernel /\ Lock(k') /\ SameLock(k, k') /\ k'.q = k.q /\ k'.err = k.err
      /\ k'.current = NextThread(k'.q)
  <2>1. ~Printing(k.current)
    BY <1>1, <1>2 DEF Quiet, Printing
  <2> QED BY <1>1, <1>2, <2>1, ScheduledLemma
<1>4. TypeOK' /\ Placed' /\ Quiet'
  BY <1>1, <1>3 DEF Inv, TypeOK, Placed, Quiet, data, switch, history
<1>5. ASSUME ~contended PROVE Claimed' /\ Attended' /\ Excused'
  <2>1. Claimed /\ Excused
    BY <1>5 DEF Inv
  <2>2. pc' = pc /\ cut' = cut /\ temper' = temper
    BY <1>1 DEF data, switch, history
  <2>3. Claimed'
    BY <1>3, <2>1, <2>2 DEF Claimed, Claim, SameLock
  <2>4. Attended'
    BY <1>3, NextAttends DEF Attended
  <2>5. Excused'
    BY <1>3, <2>1, <2>2 DEF Excused, Excuse
  <2> QED BY <2>3, <2>4, <2>5
<1> QED BY <1>1, <1>3, <1>4, <1>5 DEF Inv, history, SameLock

\* A step that leaves the kernel alone.
LEMMA IdleKernel ==
    ASSUME Inv, UNCHANGED k
    PROVE  /\ k' \in Kernel /\ Lock(k') /\ k'.owner = k.owner
           /\ \A S : Range(k.q.wait["lock"]) \ S \subseteq Range(k'.q.wait["lock"])
           /\ Range(k'.q.wait["lock"]) \subseteq Range(k.q.wait["lock"])
           /\ k'.current = k.current /\ k'.err = k.err
  BY DEF Inv, TypeOK

\* rt_mq_recv with a message at hand
LEMMA RecvStep ==
    ASSUME Inv, NEW t \in Threads, Recv(t)
    PROVE  Inv' /\ k'.owner = k.owner
<1>1. PICK l \in {"recv", "receiving"} : Step(t, l, "report")
  BY DEF Recv
<1>2. /\ mail > 0 /\ mail' = mail - 1 /\ temper' = "received"
      /\ UNCHANGED <<k, late, units, switch, dma, history>>
  BY DEF Recv
<1>3. t = Bright /\ "report" \in Place(t)
  BY <1>1, FromLemma, WhoLemma, PlaceLemma
<1>4. DataOK /\ DataOK'
  <2>1. DataOK
    BY DEF Inv, TypeOK, DataOK
  <2>2. mail' \in 0..Queue
    BY <1>2, <2>1 DEF DataOK, Queue
  <2>3. temper' \in {"none", "received", "old"}
    BY <1>2
  <2> QED BY <1>2, <2>1, <2>2, <2>3 DEF DataOK, switch, history
<1>5. Excused'
  <2>1. pc'[Bright] = "report"
    BY <1>1, <1>3, StepLemma
  <2> QED BY <1>2, <2>1 DEF Excused, Excuse
<1>6. cut' = cut /\ contended' = contended /\ late' = late
  BY <1>2 DEF history
<1> QED BY <1>1, <1>2, <1>3, <1>4, <1>5, <1>6, IdleKernel, ThreadFrame

\* rt_mq_recv with nothing there
LEMMA RecvWaitStep ==
    ASSUME Inv, NEW t \in Threads, RecvWait(t)
    PROVE  Inv' /\ k'.owner = k.owner
<1>1. PICK l \in {"recv", "receiving"} : Step(t, l, "receiving")
  BY DEF RecvWait
<1>2. /\ k' = Parted(k, "mq", t)
      /\ late' = late \union {t} /\ UNCHANGED <<data, history>>
  BY DEF RecvWait, Parted, Faulted
<1>3. t = Bright /\ "receiving" \in Place(t)
  BY <1>1, FromLemma, WhoLemma, PlaceLemma
<1>4. k \in Kernel /\ Lock(k) /\ DataOK
  BY DEF Inv, TypeOK, DataOK
<1>5. /\ k' \in Kernel /\ Lock(k') /\ SameLock(k, k') /\ k'.current = k.current
      /\ \A y \in Threads : k'.err[y] = IF y = t THEN "ok" ELSE k.err[y]
      /\ Range(k.q.wait["lock"]) \ {t} \subseteq Range(k'.q.wait["lock"])
      /\ Range(k'.q.wait["lock"]) \subseteq Range(k.q.wait["lock"])
  <2>1. k' = Parted(k, "mq", t)
    BY <1>2
  <2>2. k \in Kernel /\ Lock(k)
    BY <1>4
  <2> QED BY <2>1, <2>2, WaitingLemma
<1>6. DataOK' /\ cut' = cut /\ contended' = contended
  BY <1>2, <1>4 DEF DataOK, data, switch, history
<1>7. Excused'
  <2>1. pc'[Bright] = "receiving" /\ k'.err[Bright] = "ok"
    BY <1>1, <1>3, <1>5, StepLemma
  <2> QED BY <2>1 DEF Excused, Excuse
<1>8. k'.owner = k.owner
  BY <1>5 DEF SameLock
<1> QED BY <1>1, <1>2, <1>3, <1>5, <1>6, <1>7, <1>8, ThreadFrame

\* rt_mq_recv gives up
LEMMA RecvFailsStep ==
    ASSUME Inv, NEW t \in Threads, RecvFails(t)
    PROVE  Inv' /\ k'.owner = k.owner
<1>1. Step(t, "receiving", "report") /\ k.err[t] # "ok"
  BY DEF RecvFails
<1>2. UNCHANGED <<k, late, data, history>>
  BY DEF RecvFails
<1>3. t = Bright /\ "report" \in Place(t) /\ pc[Bright] = "receiving"
  BY <1>1, FromLemma, WhoLemma, PlaceLemma
<1>4. DataOK'
  BY <1>2 DEF Inv, TypeOK, DataOK, data, switch, history
<1>5. ASSUME ~contended PROVE Excused'
  <2>1. <<Bright, "mq">> \in cut
    BY <1>1, <1>3, <1>5 DEF Inv, Excused, Excuse
  <2> QED BY <1>2, <2>1 DEF Excused, Excuse, history
<1>6. cut' = cut /\ contended' = contended /\ late' = late /\ k' = k
  BY <1>2 DEF history
<1> QED BY <1>1, <1>3, <1>4, <1>5, <1>6, IdleKernel, ThreadFrame

\* Waking the first waiter of something else than the lock, and rt_schedule.
LEMMA WokenOther ==
    ASSUME NEW s \in Kernel, Lock(s), ListsSound(s.q), NEW o, o = "mq" \/ o = "sem",
           NEW r, r = Scheduled(WokenFirst(s, o))
    PROVE  /\ r \in Kernel /\ Lock(r) /\ SameLock(s, r) /\ r.err = s.err
           /\ Range(s.q.wait["lock"]) \subseteq Range(r.q.wait["lock"])
           /\ Range(r.q.wait["lock"]) \subseteq Range(s.q.wait["lock"])
           /\ r.current = s.current \/ r.current = NextThread(r.q)
<1> DEFINE m == WokenFirst(s, o)
<1>1. o \in Objects /\ "lock" \in Objects /\ o # "lock"
  BY SensorAssumption
<1>2. /\ m \in Kernel /\ Lock(m) /\ SameLock(s, m)
      /\ m.current = s.current /\ m.err = s.err
      /\ Leaves(s.q, m.q, Range(s.q.wait[o]))
  BY <1>1, WokenFirstLemma
<1> HIDE DEF m
<1>3. Range(s.q.wait[o]) \intersect Range(s.q.wait["lock"]) = {}
  BY <1>1 DEF ListsSound
<1>4. /\ Range(s.q.wait["lock"]) \ Range(s.q.wait[o]) \subseteq Range(m.q.wait["lock"])
      /\ Range(m.q.wait["lock"]) \subseteq Range(s.q.wait["lock"])
  BY <1>2, LeavesLock
<1>5. Range(s.q.wait["lock"]) \subseteq Range(m.q.wait["lock"])
  BY <1>3, <1>4
<1>6. r = Scheduled(m)
  BY DEF m
<1>7. /\ r \in Kernel /\ Lock(r) /\ SameLock(m, r) /\ r.q = m.q /\ r.err = m.err
      /\ r.current = m.current \/ r.current = NextThread(r.q)
  BY <1>2, <1>6, ScheduledLemma
<1>8. SameLock(s, r) /\ r.err = s.err
  BY <1>2, <1>7 DEF SameLock
<1>9. /\ Range(s.q.wait["lock"]) \subseteq Range(r.q.wait["lock"])
      /\ Range(r.q.wait["lock"]) \subseteq Range(s.q.wait["lock"])
  BY <1>4, <1>5, <1>7
<1>10. r.current = s.current \/ r.current = NextThread(r.q)
  BY <1>2, <1>7
<1> QED BY <1>7, <1>8, <1>9, <1>10

\* rt_mq_send
LEMMA SendStep ==
    ASSUME Inv, NEW t \in Threads, Send(t)
    PROVE  Inv' /\ k'.owner = k.owner
<1>1. /\ Step(t, "send", "delay") /\ UNCHANGED <<late, units, switch, dma, temper, history>>
      /\ mail' = mail \/ (mail # Queue /\ mail' = mail + 1)
      /\ k' = k \/ k' = Scheduled(WokenFirst(k, "mq"))
  BY DEF Send
<1>2. t = Temper /\ "delay" \in Place(t) /\ t # Bright
  BY <1>1, FromLemma, WhoLemma, PlaceLemma
<1>3. k \in Kernel /\ Lock(k) /\ DataOK /\ ListsSound(k.q)
  <2>1. ListsSound(k.q)
    BY <1>1, FromLemma DEF Over, Broken
  <2> QED BY <2>1 DEF Inv, TypeOK, DataOK
<1>4. /\ k' \in Kernel /\ Lock(k') /\ k'.owner = k.owner /\ k'.err = k.err
      /\ Range(k.q.wait["lock"]) \ {t} \subseteq Range(k'.q.wait["lock"])
      /\ Range(k'.q.wait["lock"]) \subseteq Range(k.q.wait["lock"])
      /\ k'.current = k.current \/ k'.current = NextThread(k'.q)
  <2>1. CASE k' = k
    BY <1>3, <2>1
  <2>2. CASE k' = Scheduled(WokenFirst(k, "mq"))
    <3>1. /\ k' \in Kernel /\ Lock(k') /\ SameLock(k, k') /\ k'.err = k.err
          /\ Range(k.q.wait["lock"]) \subseteq Range(k'.q.wait["lock"])
          /\ Range(k'.q.wait["lock"]) \subseteq Range(k.q.wait["lock"])
          /\ k'.current = k.current \/ k'.current = NextThread(k'.q)
      BY <1>3, <2>2, WokenOther
    <3> QED BY <3>1 DEF SameLock
  <2> QED BY <1>1, <2>1, <2>2
<1>5. DataOK' /\ cut' = cut /\ contended' = contended /\ late' = late
  BY <1>1, <1>3 DEF DataOK, Queue, switch, history
<1>6. ASSUME ~contended PROVE Excused'
  <2>1. Excused
    BY <1>6 DEF Inv
  <2>2. pc'[Bright] = pc[Bright]
    BY <1>1, <1>2, StepLemma, PlaceLemma
  <2>3. temper' = temper /\ k'.err[Bright] \in {k.err[Bright], "ok"} /\ cut \subseteq cut'
    BY <1>1, <1>4, <1>5
  <2> QED BY <2>1, <2>2, <2>3, ExcuseKept
<1> QED BY <1>1, <1>2, <1>4, <1>5, <1>6, ThreadFrame

\* rt_exit_critical at the end of a line
LEMMA PrintedStep ==
    ASSUME Inv, NEW t \in Threads, Printed(t)
    PROVE  Inv' /\ k'.owner = k.owner
<1>1. PICK l \in {"report", "print"}, n \in {"wait", "delay"} :
         /\ Step(t, l, n)
         /\ l = "report" => n = "delay"
         /\ l = "print" => n = IF t = Usart2 THEN "wait" ELSE "delay"
  BY DEF Printed
<1>2. /\ k' = [k EXCEPT !.current = NextThread(k.q)]
      /\ temper' = IF pc[t] = "report" /\ temper = "received" THEN "old" ELSE temper
      /\ UNCHANGED <<late, mail, units, switch, dma, history>>
  BY DEF Printed
<1>3. n \in Place(t) /\ pc[t] = l /\ (pc[t] = "report" => t = Bright)
  BY <1>1, FromLemma, WhoLemma, PlaceLemma
<1>4. k \in Kernel /\ Lock(k) /\ DataOK
  BY DEF Inv, TypeOK, DataOK
<1>5. /\ k' \in Kernel /\ Lock(k') /\ SameLock(k, k')
      /\ k'.q = k.q /\ k'.err = k.err /\ k'.current = NextThread(k.q)
  <2>1. k' = [k EXCEPT !.current = NextThread(k.q)]
    BY <1>2
  <2>2. k \in Kernel /\ Lock(k)
    BY <1>4
  <2> QED BY <2>1, <2>2, SwitchedLemma
<1>6. k'.owner = k.owner
  BY <1>5 DEF SameLock
<1>7. DataOK' /\ cut' = cut /\ contended' = contended /\ late' = late
  <2>1. temper' \in {"none", "received", "old"}
    BY <1>2, <1>4 DEF DataOK
  <2> QED BY <1>2, <1>4, <2>1 DEF DataOK, switch, history
<1>8. ASSUME ~contended PROVE Excused'
  <2>1. Excused
    BY <1>8 DEF Inv
  <2>2. pc'[Bright] = IF t = Bright THEN n ELSE pc[Bright]
    BY <1>1, <1>3, StepLemma, PlaceLemma
  <2>3. pc'[Bright] = "report" => temper' = temper
    BY <1>1, <1>2, <1>3, <2>2
  <2>4. pc'[Bright] \in {"receiving", "report"} => pc'[Bright] = pc[Bright]
    BY <1>1, <2>2
  <2>5. k'.err[Bright] \in {k.err[Bright], "ok"} /\ cut \subseteq cut'
    BY <1>5, <1>7
  <2> QED BY <2>1, <2>3, <2>4, <2>5, ExcuseKept
<1>9. n \notin {"taking", "read"}
  BY <1>1
<1> QED BY <1>1, <1>3, <1>5, <1>6, <1>7, <1>8, <1>9, ThreadFrame

\* rt_thread_sleep, up to its rt_schedule
LEMMA DelayStep ==
    ASSUME Inv, NEW t \in Threads, Delay(t)
    PROVE  Inv' /\ k'.owner = k.owner
<1> DEFINE w == IF k.q.stat[t] = "ready" THEN Suspended(k.q, t) ELSE k.q
           a == k.armed \union {t}
<1>1. PICK l \in {"delay", "prompt"} : Step(t, l, "asleep")
  BY DEF Delay
<1>2. /\ k' = Requeued(k, w, a)
      /\ late' = late \union {t} /\ UNCHANGED <<data, history>>
  BY DEF Delay, Requeued
<1>3. "asleep" \in Place(t)
  BY <1>1, FromLemma, WhoLemma, PlaceLemma
<1>4. k \in Kernel /\ Lock(k) /\ DataOK
  BY DEF Inv, TypeOK, DataOK
<1>5. w \in Queues /\ Leaves(k.q, w, {t})
  <2>1. k.q \in Queues
    BY <1>4, KernelParts
  <2>2. Leaves(k.q, k.q, {t})
    BY DEF Leaves
  <2> QED BY <2>1, <2>2, SuspendOnly
<1>6. a \in SUBSET Threads
  BY <1>4, KernelParts
<1> HIDE DEF w, a
<1>7. /\ Range(k.q.wait["lock"]) \ {t} \subseteq Range(w.wait["lock"])
      /\ Range(w.wait["lock"]) \subseteq Range(k.q.wait["lock"])
  BY <1>5, LeavesLock
<1>8. /\ k' \in Kernel /\ Lock(k') /\ SameLock(k, k')
      /\ k'.q = w /\ k'.current = k.current /\ k'.err = k.err
  <2>1. k' = Requeued(k, w, a)
    BY <1>2
  <2>2. k \in Kernel /\ Lock(k)
    BY <1>4
  <2> QED BY <1>5, <1>6, <1>7, <2>1, <2>2, RequeuedLemma
<1>9. k'.owner = k.owner
  BY <1>8 DEF SameLock
<1>10. DataOK' /\ cut' = cut /\ contended' = contended
  BY <1>2, <1>4 DEF DataOK, data, switch, history
<1>11. ASSUME ~contended PROVE Excused'
  <2>1. Excused
    BY <1>11 DEF Inv
  <2>2. pc'[Bright] = IF t = Bright THEN "asleep" ELSE pc[Bright]
    BY <1>1, <1>3, StepLemma, PlaceLemma
  <2>3. temper' = temper /\ k'.err[Bright] \in {k.err[Bright], "ok"} /\ cut \subseteq cut'
    BY <1>2, <1>8, <1>10 DEF data
  <2> QED BY <2>1, <2>2, <2>3, ExcuseKept
<1> QED BY <1>1, <1>2, <1>3, <1>7, <1>8, <1>9, <1>10, <1>11, ThreadFrame

\* The return from rt_thread_sleep
LEMMA AwakeStep ==
    ASSUME Inv, NEW t \in Threads, Awake(t)
    PROVE  Inv' /\ k'.owner = k.owner
<1> DEFINE n == IF t = Shell THEN "prompt" ELSE IF sensing THEN "take" ELSE "print"
           e == IF k.err[t] = "timeout" THEN "ok" ELSE k.err[t]
<1>1. Step(t, "asleep", n)
  BY DEF Awake
<1>2. k' = Faulted(k, t, e) /\ UNCHANGED <<late, data, history>>
  BY DEF Awake, Faulted
<1>3. n \in Place(t) /\ n \in {"prompt", "take", "print"}
  <2>1. t \in {Bright, Temper, Shell}
    BY <1>1, FromLemma, WhoLemma
  <2> QED BY <2>1, PlaceLemma
<1>4. k \in Kernel /\ Lock(k) /\ DataOK
  BY DEF Inv, TypeOK, DataOK
<1>5. e \in Errors
  BY <1>4, KernelParts DEF Errors
<1> HIDE DEF n
<1>6. /\ k' \in Kernel /\ SameLock(k, k') /\ k'.q = k.q /\ k'.current = k.current
      /\ \A y \in Threads : k'.err[y] = IF y = t THEN e ELSE k.err[y]
  <2> HIDE DEF e
  <2>1. k' = Faulted(k, t, e)
    BY <1>2
  <2>2. k \in Kernel
    BY <1>4
  <2> QED BY <1>5, <2>1, <2>2, FaultedLemma
<1>7. Lock(k') /\ k'.owner = k.owner
  BY <1>4, <1>6 DEF Lock, SameLock
<1>8. DataOK' /\ cut' = cut /\ contended' = contended /\ late' = late
  BY <1>2, <1>4 DEF DataOK, data, switch, history
<1>9. ASSUME ~contended PROVE Excused'
  <2>1. Excused
    BY <1>9 DEF Inv
  <2>2. pc'[Bright] = IF t = Bright THEN n ELSE pc[Bright]
    BY <1>1, <1>3, StepLemma, PlaceLemma
  <2>3. k'.err[Bright] \in {k.err[Bright], "ok"}
    BY <1>6, PlaceLemma
  <2>4. temper' = temper /\ cut \subseteq cut'
    BY <1>2, <1>8 DEF data
  <2> QED BY <1>3, <2>1, <2>2, <2>3, <2>4, ExcuseKept
<1>10. n \notin {"taking", "read"}
  BY <1>3
<1> QED BY <1>1, <1>3, <1>6, <1>7, <1>8, <1>9, <1>10, ThreadFrame

\* A step of the receiving thread, or of the shell, does not touch the light thread.
LEMMA OtherStep ==
    ASSUME Inv, NEW t \in {Usart2, Shell}, NEW l, NEW n \in Place(t), Step(t, l, n),
           k'.err[Bright] = k.err[Bright], temper' = temper, cut' = cut, ~contended
    PROVE  Excused'
<1>1. t \in Threads /\ t # Bright
  <2>1. "wait" \in Place(Usart2) /\ "prompt" \in Place(Shell)
    BY PlaceLemma
  <2>2. "wait" \notin Place(Bright) /\ "prompt" \notin Place(Bright)
    BY PlaceLemma
  <2> QED BY <2>1, <2>2, PlaceLemma
<1>2. pc'[Bright] = pc[Bright]
  BY <1>1, StepLemma, PlaceLemma
<1>3. Excused
  BY DEF Inv
<1>4. k'.err[Bright] \in {k.err[Bright], "ok"} /\ cut \subseteq cut'
  OBVIOUS
<1> QED BY <1>2, <1>3, <1>4, ExcuseKept

\* rt_sem_take with a unit at hand, and the return from a wait
LEMMA UnitStep ==
    ASSUME Inv, NEW t \in Threads, TakeUnit(t) \/ GotUnit(t)
    PROVE  Inv' /\ k'.owner = k.owner
<1>1. PICK l \in {"wait", "waiting"}, n \in {"wait", "print"} : Step(t, l, n)
  <2>1. TakeUnit(t) => Step(t, "wait", "print")
    BY DEF TakeUnit
  <2>2. GotUnit(t) => Step(t, "waiting", IF k.err[t] = "ok" THEN "print" ELSE "wait")
    BY DEF GotUnit
  <2> QED BY <2>1, <2>2
<1>2. /\ UNCHANGED <<k, late, mail, timer, sensing, dma, temper, events, cut, contended>>
      /\ UNCHANGED units \/ (units > 0 /\ units' = units - 1)
  BY DEF TakeUnit, GotUnit, data, switch, history
<1>3. t = Usart2 /\ n \in Place(t)
  BY <1>1, FromLemma, WhoLemma, PlaceLemma
<1>4. DataOK'
  <2>1. DataOK
    BY DEF Inv, TypeOK, DataOK
  <2>2. units' \in 0..MaxUnits
    BY <1>2, <2>1, SensorAssumption DEF DataOK
  <2> QED BY <1>2, <2>1, <2>2 DEF DataOK
<1>5. ASSUME ~contended PROVE Excused'
  <2>1. k'.err[Bright] = k.err[Bright] /\ temper' = temper /\ cut' = cut
    BY <1>2
  <2>2. t \in {Usart2, Shell}
    BY <1>3
  <2> QED BY <1>1, <1>3, <1>5, <2>1, <2>2, OtherStep
<1>6. /\ cut' = cut /\ contended' = contended /\ late' = late /\ k' = k
      /\ n \notin {"taking", "read"}
  BY <1>1, <1>2
<1> QED BY <1>1, <1>3, <1>4, <1>5, <1>6, IdleKernel, ThreadFrame

\* rt_sem_take with nothing there
LEMMA WaitUnitStep ==
    ASSUME Inv, NEW t \in Threads, WaitUnit(t)
    PROVE  Inv' /\ k'.owner = k.owner
<1>1. Step(t, "wait", "waiting")
  BY DEF WaitUnit
<1>2. /\ k' = Parted(k, "sem", t)
      /\ late' = late \union {t} /\ UNCHANGED <<data, history>>
  BY DEF WaitUnit, Parted, Faulted
<1>3. t = Usart2 /\ "waiting" \in Place(t) /\ Bright \in Threads
  BY <1>1, FromLemma, WhoLemma, PlaceLemma
<1>4. k \in Kernel /\ Lock(k) /\ DataOK
  BY DEF Inv, TypeOK, DataOK
<1>5. /\ k' \in Kernel /\ Lock(k') /\ SameLock(k, k') /\ k'.current = k.current
      /\ \A y \in Threads : k'.err[y] = IF y = t THEN "ok" ELSE k.err[y]
      /\ Range(k.q.wait["lock"]) \ {t} \subseteq Range(k'.q.wait["lock"])
      /\ Range(k'.q.wait["lock"]) \subseteq Range(k.q.wait["lock"])
  <2>1. k' = Parted(k, "sem", t)
    BY <1>2
  <2>2. k \in Kernel /\ Lock(k)
    BY <1>4
  <2> QED BY <2>1, <2>2, WaitingLemma
<1>6. DataOK' /\ cut' = cut /\ contended' = contended /\ temper' = temper
  BY <1>2, <1>4 DEF DataOK, data, switch, history
<1>7. ASSUME ~contended PROVE Excused'
  <2>1. Bright # t
    BY <1>3, PlaceLemma
  <2>2. k'.err[Bright] = k.err[Bright] /\ t \in {Usart2, Shell}
    BY <1>3, <1>5, <2>1
  <2> QED BY <1>1, <1>3, <1>6, <1>7, <2>2, OtherStep
<1>8. k'.owner = k.owner
  BY <1>5 DEF SameLock
<1> QED BY <1>1, <1>2, <1>3, <1>5, <1>6, <1>7, <1>8, ThreadFrame

\* rt_timer_start of another thread's timer, by the shell
LEMMA WakeUpStep ==
    ASSUME Inv, NEW u \in Threads, NEW l, NEW n \in Place(Shell), WakeUp(Shell, u, l, n)
    PROVE  Inv' /\ k'.owner = k.owner
<1>1. Step(Shell, l, n)
  BY DEF WakeUp
<1>2. k' = Requeued(k, k.q, k.armed \union {u}) /\ UNCHANGED <<late, data, history>>
  BY DEF WakeUp, TimerStarted, Requeued, Inv, TypeOK, Kernel
<1>3. k \in Kernel /\ Lock(k) /\ DataOK /\ Shell \in Threads
  BY PlaceLemma DEF Inv, TypeOK, DataOK
<1>4. /\ k' \in Kernel /\ Lock(k') /\ SameLock(k, k')
      /\ k'.q = k.q /\ k'.current = k.current /\ k'.err = k.err
  <2>1. k.q \in Queues /\ k.armed \union {u} \in SUBSET Threads
    BY <1>3, KernelParts
  <2> QED BY <1>2, <1>3, <2>1, RequeuedLemma
<1>5. k'.owner = k.owner
  BY <1>4 DEF SameLock
<1>6. DataOK' /\ cut' = cut /\ contended' = contended /\ late' = late /\ temper' = temper
  BY <1>2, <1>3 DEF DataOK, data, switch, history
<1>7. ASSUME ~contended PROVE Excused'
  <2>1. k'.err[Bright] = k.err[Bright] /\ Shell \in {Usart2, Shell}
    BY <1>4
  <2> QED BY <1>1, <1>6, <1>7, <2>1, OtherStep
<1>8. n \notin {"taking", "read"}
  BY PlaceLemma
<1> QED BY <1>1, <1>3, <1>4, <1>5, <1>6, <1>7, <1>8, ThreadFrame

\* rt_mutex_take
LEMMA TakeStep ==
    ASSUME Inv, NEW t \in Threads, Take(t)
    PROVE  Inv' /\ (k'.owner = k.owner \/ k.owner = NoThread)
<1> DEFINE n == IF MustWait(k, t) THEN "taking" ELSE "read"
<1>1. /\ Step(t, "take", n) /\ k' = Taken(k, t)
      /\ late' = IF MustWait(k, t) THEN late \union {t} ELSE late
      /\ cut' = cut \ {<<t, "lock">>, <<t, "mq">>}
      /\ UNCHANGED <<data, events, contended>>
  BY DEF Take, CallSchedule
<1>2. t \in {Bright, Temper} /\ n \in Place(t) /\ n \in {"taking", "read"}
  BY <1>1, FromLemma, WhoLemma, PlaceLemma
<1>3. k \in Kernel /\ Lock(k) /\ DataOK /\ cut \subseteq {Bright, Temper} \X {"lock", "mq"}
  BY DEF Inv, TypeOK, DataOK
<1>4. /\ k' \in Kernel /\ Lock(k') /\ k'.current = k.current
      /\ \A y \in Threads : k'.err[y] = IF y = t THEN "ok" ELSE k.err[y]
      /\ MustWait(k, t) =>
            /\ k'.owner = k.owner
            /\ t \in Range(k'.q.wait["lock"])
            /\ Range(k.q.wait["lock"]) \ {k.owner} \subseteq Range(k'.q.wait["lock"])
      /\ ~MustWait(k, t) => k'.q = k.q /\ k'.owner = t /\ k.owner \in {t, NoThread}
  <2>1. k' = Taken(k, t)
    BY <1>1
  <2>2. k \in Kernel /\ Lock(k)
    BY <1>3
  <2> HIDE DEF n
  <2>3. k' \in Kernel /\ Lock(k') /\ k'.current = k.current
    BY <2>1, <2>2, TakenLemma
  <2>4. \A y \in Threads : k'.err[y] = IF y = t THEN "ok" ELSE k.err[y]
    BY <2>1, <2>2, TakenLemma
  <2>5. MustWait(k, t) =>
           /\ k'.owner = k.owner
           /\ t \in Range(k'.q.wait["lock"])
           /\ Range(k.q.wait["lock"]) \ {k.owner} \subseteq Range(k'.q.wait["lock"])
    BY <2>1, <2>2, TakenLemma
  <2>6. ~MustWait(k, t) => k'.q = k.q /\ k'.owner = t /\ k.owner \in {t, NoThread}
    BY <2>1, <2>2, TakenLemma
  <2> QED BY <2>3, <2>4, <2>5, <2>6
<1>5. n = "taking" <=> MustWait(k, t)
  OBVIOUS
<1> HIDE DEF n
<1>6. /\ pc' \in [Threads -> Labels] /\ Placed' /\ Quiet'
      /\ \A x \in Threads : pc'[x] = IF x = t THEN n ELSE pc[x]
      /\ k.current = t /\ t \notin late /\ ListsSound(k.q) /\ pc[t] = "take"
  <2>1. late' = late \/ (late' = late \union {t} /\ n \notin {"report", "print"})
    BY <1>1, <1>2
  <2> QED BY <1>1, <1>2, <2>1, StepLemma
<1>7. TypeOK'
  <2>1. late' \subseteq Threads
    BY <1>1 DEF Inv, TypeOK
  <2>2. DataOK' /\ contended' \in BOOLEAN
    BY <1>1, <1>3 DEF DataOK, data, switch, Inv, TypeOK
  <2>3. cut' \subseteq {Bright, Temper} \X {"lock", "mq"}
    BY <1>1, <1>3
  <2> QED BY <1>4, <1>6, <2>1, <2>2, <2>3 DEF TypeOK, DataOK
<1>8. ASSUME ~contended PROVE Claimed'
  <2>1. ASSUME NEW x \in {Bright, Temper} PROVE Claim(k', pc', cut', x)
    <3>1. Claim(k, pc, cut, x) /\ x \in Threads /\ x # NoThread
      BY <1>8, PlaceLemma, QueueAssumption DEF Inv, Claimed
    <3>2. CASE x = t
      <4>1. pc'[x] = n
        BY <1>6, <3>2
      <4> QED BY <1>2, <1>4, <1>5, <3>2, <4>1 DEF Claim
    <3>3. CASE x # t
      <4>1. pc'[x] = pc[x]
        BY <1>6, <3>1, <3>3
      <4>2. <<x, "lock">> \in cut => <<x, "lock">> \in cut'
        BY <1>1, <3>3
      <4>3. CASE MustWait(k, t)
        BY <1>4, <3>1, <4>1, <4>2, <4>3 DEF Claim
      <4>4. CASE ~MustWait(k, t)
        <5>1. k.owner # x
          BY <1>4, <3>1, <3>3, <4>4
        <5> QED BY <1>4, <3>1, <4>1, <4>2, <4>4, <5>1 DEF Claim
      <4> QED BY <4>3, <4>4
    <3> QED BY <3>2, <3>3
  <2> QED BY <2>1 DEF Claimed
<1>9. ASSUME ~contended PROVE Attended'
  <2>1. CASE MustWait(k, t)
    <3>1. t \in late' /\ k'.current = t
      BY <1>1, <1>4, <1>6, <2>1
    <3> QED BY <3>1 DEF Attended, Attends
  <2>2. CASE ~MustWait(k, t)
    <3>1. Attends(k, late) /\ k'.q = k.q /\ k'.current = k.current /\ late' = late
      BY <1>1, <1>4, <1>9, <2>2 DEF Inv, Attended
    <3> QED BY <3>1 DEF Attended, Attends
  <2> QED BY <2>1, <2>2
<1>10. ASSUME ~contended PROVE Excused'
  <2>1. CASE t = Bright
    <3>1. pc'[Bright] \in {"taking", "read"}
      BY <1>2, <1>6, <2>1
    <3> QED BY <3>1 DEF Excused, Excuse
  <2>2. CASE t # Bright
    <3>1. pc'[Bright] = pc[Bright] /\ k'.err[Bright] = k.err[Bright] /\ temper' = temper
      BY <1>1, <1>4, <1>6, <2>2, PlaceLemma DEF data
    <3>2. <<Bright, "mq">> \in cut => <<Bright, "mq">> \in cut'
      BY <1>1, <2>2
    <3>3. Excused
      BY <1>10 DEF Inv
    <3> QED BY <3>1, <3>2, <3>3 DEF Excused, Excuse
  <2> QED BY <2>1, <2>2
<1>11. contended' = contended
  BY <1>1
<1>12. k'.owner = k.owner \/ k.owner = NoThread
  BY <1>4
<1> QED BY <1>4, <1>6, <1>7, <1>8, <1>9, <1>10, <1>11, <1>12 DEF Inv

\* The return from a wait for the lock
LEMMA TakeReturnStep ==
    ASSUME Inv, NEW t \in Threads, TakeReturn(t)
    PROVE  Inv' /\ k'.owner = k.owner
<1>1. Step(t, "taking", "read") /\ UNCHANGED <<k, late, data, history>>
  BY DEF TakeReturn
<1>2. t \in {Bright, Temper} /\ "read" \in Place(t)
  BY <1>1, FromLemma, WhoLemma, PlaceLemma
<1>3. /\ pc' \in [Threads -> Labels] /\ Placed' /\ Quiet'
      /\ \A x \in Threads : pc'[x] = IF x = t THEN "read" ELSE pc[x]
      /\ k.current = t /\ t \notin late /\ ListsSound(k.q) /\ pc[t] = "taking"
  BY <1>1, <1>2, StepLemma
<1>4. TypeOK' /\ Lock(k')
  BY <1>1, <1>3 DEF Inv, TypeOK, data, switch, history
<1>5. ASSUME ~contended PROVE Claimed' /\ Attended' /\ Excused'
  <2>1. Claimed /\ Attended /\ Excused
    BY <1>5 DEF Inv
  <2>2. t \notin Range(k.q.wait["lock"])
    BY <1>3, <2>1 DEF Attended, Attends
  <2>3. cut' = cut /\ temper' = temper /\ k' = k /\ late' = late
    BY <1>1 DEF data, history
  <2>4. ASSUME NEW x \in {Bright, Temper} PROVE Claim(k', pc', cut', x)
    <3>1. Claim(k, pc, cut, x)
      BY <2>1 DEF Claimed
    <3>2. pc'[x] = IF x = t THEN "read" ELSE pc[x]
      BY <1>3, PlaceLemma
    <3> QED BY <1>3, <2>2, <2>3, <3>1, <3>2 DEF Claim
  <2>5. Claimed'
    BY <2>4 DEF Claimed
  <2>6. Attended'
    BY <2>1, <2>3 DEF Attended
  <2>7. Excused'
    <3>1. pc'[Bright] = IF t = Bright THEN "read" ELSE pc[Bright]
      BY <1>3, PlaceLemma
    <3> QED BY <2>1, <2>3, <3>1 DEF Excused, Excuse
  <2> QED BY <2>5, <2>6, <2>7
<1>6. contended' = contended
  BY <1>1 DEF history
<1>7. k'.owner = k.owner
  BY <1>1
<1> QED BY <1>3, <1>4, <1>5, <1>6, <1>7 DEF Inv

\* rt_mutex_release
LEMMA ReleaseStep ==
    ASSUME Inv, NEW t \in Threads, Release(t)
    PROVE  Inv' /\ (k'.owner = k.owner \/ (k.current = k.owner /\ InSection(k.owner)))
<1> DEFINE n == IF t = Bright THEN "recv" ELSE "send"
<1>1. /\ Step(t, "read", n) /\ k' = Released(k, t)
      /\ late' = IF WillWake(k, t) THEN late \union {t} ELSE late
      /\ UNCHANGED <<data, history>>
  BY DEF Release, CallSchedule
<1>2. t \in {Bright, Temper} /\ n \in Place(t) /\ n \in {"recv", "send"}
  BY <1>1, FromLemma, WhoLemma, PlaceLemma
<1> HIDE DEF n
<1>3. k \in Kernel /\ Lock(k) /\ DataOK /\ late \subseteq Threads
      /\ cut \subseteq {Bright, Temper} \X {"lock", "mq"} /\ contended \in BOOLEAN
  BY DEF Inv, TypeOK, DataOK
<1>4. /\ k' \in Kernel /\ Lock(k') /\ k'.current = k.current
      /\ k.owner # t => k'.q = k.q /\ k'.owner = k.owner
      /\ \A y \in Threads : y # t => k'.err[y] = k.err[y]
      /\ Range(k.q.wait["lock"]) \ {t, k'.owner} \subseteq Range(k'.q.wait["lock"])
      /\ Range(k'.q.wait["lock"]) \subseteq Range(k.q.wait["lock"])
  <2>1. k' = Released(k, t)
    BY <1>1
  <2>2. k \in Kernel /\ Lock(k)
    BY <1>3
  <2> QED BY <2>1, <2>2, ReleasedLemma
<1>5. /\ pc' \in [Threads -> Labels] /\ Placed' /\ Quiet'
      /\ \A x \in Threads : pc'[x] = IF x = t THEN n ELSE pc[x]
      /\ k.current = t /\ t \notin late /\ ListsSound(k.q) /\ pc[t] = "read"
  <2>1. late' = late \/ (late' = late \union {t} /\ n \notin {"report", "print"})
    BY <1>1, <1>2
  <2> QED BY <1>1, <1>2, <2>1, StepLemma
<1>6. TypeOK'
  <2>1. late' \subseteq Threads
    BY <1>1, <1>3
  <2>2. DataOK' /\ contended' = contended /\ cut' = cut
    BY <1>1, <1>3 DEF DataOK, data, switch, history
  <2> QED BY <1>3, <1>4, <1>5, <2>1, <2>2 DEF TypeOK, DataOK
<1>7. cut' = cut /\ temper' = temper /\ contended' = contended
  BY <1>1 DEF data, history
<1>8. ASSUME ~contended PROVE Claimed'
  <2>1. ASSUME NEW x \in {Bright, Temper} PROVE Claim(k', pc', cut', x)
    <3>1. Claim(k, pc, cut, x) /\ x \in Threads
      BY <1>8, PlaceLemma DEF Inv, Claimed
    <3>2. CASE x = t
      <4>1. pc'[x] = n
        BY <1>5, <3>2
      <4> QED BY <1>2, <4>1 DEF Claim
    <3>3. CASE x # t /\ k.owner # t
      BY <1>4, <1>5, <1>7, <3>1, <3>3 DEF Claim
    <3>4. CASE x # t /\ k.owner = t
      <4>1. pc'[x] = pc[x] /\ k.owner # x
        BY <1>5, <3>1, <3>4
      <4>2. x \in Range(k.q.wait["lock"]) => x = k'.owner \/ x \in Range(k'.q.wait["lock"])
        BY <1>4, <3>4
      <4> QED BY <1>7, <3>1, <4>1, <4>2 DEF Claim
    <3> QED BY <3>2, <3>3, <3>4
  <2> QED BY <2>1 DEF Claimed
<1>9. ASSUME ~contended PROVE Attended'
  <2>1. Attends(k, late) /\ late \subseteq late'
    BY <1>1, <1>9 DEF Inv, Attended
  <2>2. Attends(k', late')
    BY <1>3, <1>4, <1>5, <2>1, AttendsKept
  <2> QED BY <2>2 DEF Attended
<1>10. ASSUME ~contended PROVE Excused'
  <2>1. CASE t = Bright
    <3>1. pc'[Bright] \in {"recv", "send"}
      BY <1>2, <1>5, <2>1
    <3> QED BY <3>1 DEF Excused, Excuse
  <2>2. CASE t # Bright
    <3>1. pc'[Bright] = pc[Bright] /\ k'.err[Bright] = k.err[Bright]
      BY <1>4, <1>5, <2>2, PlaceLemma
    <3>2. Excused
      BY <1>10 DEF Inv
    <3> QED BY <1>7, <3>1, <3>2 DEF Excused, Excuse
  <2> QED BY <2>1, <2>2
<1>11. k'.owner = k.owner \/ (k.current = k.owner /\ InSection(k.owner))
  BY <1>4, <1>5 DEF InSection
<1> QED BY <1>4, <1>5, <1>6, <1>7, <1>8, <1>9, <1>10, <1>11 DEF Inv

-----------------------------------------------------------------------------
(* The steps of the handlers                                                *)

\* A handler leaves the code of every thread where it is.
LEMMA HandlerExcuse ==
    ASSUME Inv, pc' = pc, temper' = temper, cut \subseteq cut', ~contended,
           k'.err[Bright] \in {k.err[Bright], "ok"}
    PROVE  Excused'
  BY DEF Inv, Excused, Excuse

\* EXTI15_10_IRQHandler
LEMMA KeyStep ==
    ASSUME Inv, Key
    PROVE  Inv' /\ k'.owner = k.owner
<1> DEFINE a == k.armed \union {Bright, Temper}
           m == IF timer THEN k ELSE Requeued(k, k.q, a)
<1>1. k \in Kernel /\ Lock(k) /\ DataOK /\ cut \subseteq {Bright, Temper} \X {"lock", "mq"}
  BY DEF Inv, TypeOK, DataOK
<1>2. /\ ~Over /\ pc' = pc /\ late' = late /\ cut' = cut /\ contended' = contended
      /\ temper' = temper /\ mail' = mail /\ units' = units /\ dma' = dma
      /\ events' = events /\ timer' = ~timer /\ sensing' = ~timer
  BY DEF Key, history
<1>3. k' = Scheduled(m)
  <2>1. TimerStarted(TimerStarted(k, Bright), Temper) = Requeued(k, k.q, a)
    BY <1>1 DEF TimerStarted, Requeued, Kernel
  <2> QED BY <2>1 DEF Key
<1>4. /\ m \in Kernel /\ Lock(m) /\ SameLock(k, m)
      /\ m.q = k.q /\ m.current = k.current /\ m.err = k.err
  <2>1. CASE timer
    BY <1>1, <2>1 DEF SameLock
  <2>2. CASE ~timer
    <3>1. k.q \in Queues /\ a \in SUBSET Threads
      BY <1>1, KernelParts, PlaceLemma
    <3>2. m = Requeued(k, k.q, a)
      BY <2>2
    <3> HIDE DEF a, m
    <3> QED BY <1>1, <3>1, <3>2, RequeuedLemma
  <2> QED BY <2>1, <2>2
<1> HIDE DEF m
<1>5. /\ k' \in Kernel /\ Lock(k') /\ SameLock(m, k') /\ k'.q = m.q /\ k'.err = m.err
      /\ k'.current = m.current \/ k'.current = NextThread(k'.q)
  BY <1>3, <1>4, ScheduledLemma
<1>6. /\ k'.owner = k.owner /\ k'.q = k.q /\ k'.err = k.err
      /\ k'.current = k.current \/ k'.current = NextThread(k'.q)
  BY <1>4, <1>5 DEF SameLock
<1>7. DataOK'
  BY <1>1, <1>2 DEF DataOK
<1>8. ~contended => Excused'
  BY <1>2, <1>6, HandlerExcuse
<1>9. Range(k.q.wait["lock"]) \subseteq Range(k'.q.wait["lock"])
  BY <1>6
<1> QED BY <1>1, <1>2, <1>5, <1>6, <1>7, <1>8, <1>9, HandlerFrame

\* USART2_IRQHandler
LEMMA LineStep ==
    ASSUME Inv, Line
    PROVE  Inv' /\ k'.owner = k.owner
<1>1. k \in Kernel /\ Lock(k) /\ DataOK /\ cut \subseteq {Bright, Temper} \X {"lock", "mq"}
  BY DEF Inv, TypeOK, DataOK
<1>2. /\ ~Over /\ pc' = pc /\ late' = late /\ cut' = cut /\ contended' = contended
      /\ temper' = temper /\ mail' = mail /\ dma' = dma /\ events' = events
      /\ timer' = timer /\ sensing' = sensing
      /\ \/ units < MaxUnits /\ units' = units + 1 /\ UNCHANGED k
         \/ UNCHANGED units /\ k' = Scheduled(WokenFirst(k, "sem"))
  BY DEF Line, switch, history
<1>3. ListsSound(k.q)
  BY <1>2 DEF Over, Broken
<1>4. /\ k' \in Kernel /\ Lock(k') /\ k'.owner = k.owner /\ k'.err = k.err
      /\ Range(k.q.wait["lock"]) \subseteq Range(k'.q.wait["lock"])
      /\ Range(k'.q.wait["lock"]) \subseteq Range(k.q.wait["lock"])
      /\ k'.current = k.current \/ k'.current = NextThread(k'.q)
  <2>1. CASE k' = k
    BY <1>1, <2>1
  <2>2. CASE k' = Scheduled(WokenFirst(k, "sem"))
    <3>1. /\ k' \in Kernel /\ Lock(k') /\ SameLock(k, k') /\ k'.err = k.err
          /\ Range(k.q.wait["lock"]) \subseteq Range(k'.q.wait["lock"])
          /\ Range(k'.q.wait["lock"]) \subseteq Range(k.q.wait["lock"])
          /\ k'.current = k.current \/ k'.current = NextThread(k'.q)
      BY <1>1, <1>3, <2>2, WokenOther
    <3> QED BY <3>1 DEF SameLock
  <2> QED BY <1>2, <2>1, <2>2
<1>5. DataOK'
  <2>1. units' \in 0..MaxUnits
    BY <1>1, <1>2, SensorAssumption DEF DataOK
  <2> QED BY <1>1, <1>2, <2>1 DEF DataOK
<1>6. ~contended => Excused'
  BY <1>2, <1>4, HandlerExcuse
<1>7. Range(k.q.wait["lock"]) \subseteq Range(k'.q.wait["lock"])
  BY <1>4
<1> QED BY <1>1, <1>2, <1>4, <1>5, <1>6, <1>7, HandlerFrame

\* rt_thread_timeout: what it cuts short is remembered.
LEMMA ThreadTimerStep ==
    ASSUME Inv, NEW u \in Threads, ThreadTimer(u)
    PROVE  Inv' /\ k'.owner = k.owner
<1> DEFINE m == Expired(k, u)
           c == CASE pc[u] = "taking" -> {<<u, "lock">>}
                  [] pc[u] = "receiving" -> {<<u, "mq">>}
                  [] OTHER -> {}
<1>1. /\ k \in Kernel /\ Lock(k) /\ DataOK /\ pc[u] \in Place(u)
      /\ cut \subseteq {Bright, Temper} \X {"lock", "mq"}
  BY DEF Inv, TypeOK, DataOK, Placed
<1>2. /\ ~Over /\ pc' = pc /\ late' = late /\ cut' = cut \union c /\ contended' = contended
      /\ temper' = temper /\ mail' = mail /\ dma' = dma /\ events' = events
      /\ timer' = timer /\ sensing' = sensing /\ units' = units
      /\ k' = Scheduled(m)
  BY DEF ThreadTimer, Expired, data, switch
<1>3. /\ m \in Kernel /\ Lock(m) /\ SameLock(k, m) /\ m.current = k.current
      /\ \A y \in Threads : y # u => m.err[y] = k.err[y]
      /\ Range(k.q.wait["lock"]) \ {u} \subseteq Range(m.q.wait["lock"])
      /\ Range(m.q.wait["lock"]) \subseteq Range(k.q.wait["lock"])
  BY <1>1, ExpiredLemma
<1>4. /\ c \subseteq {Bright, Temper} \X {"lock", "mq"}
      /\ pc[u] = "taking" => <<u, "lock">> \in c
      /\ pc[u] = "receiving" => <<u, "mq">> \in c
  <2>1. pc[u] = "taking" \/ pc[u] = "receiving" => u \in {Bright, Temper}
    BY <1>1, WhoLemma
  <2> QED BY <2>1
<1> HIDE DEF m, c
<1>5. /\ k' \in Kernel /\ Lock(k') /\ SameLock(m, k') /\ k'.q = m.q /\ k'.err = m.err
      /\ k'.current = m.current \/ k'.current = NextThread(k'.q)
  BY <1>2, <1>3, ScheduledLemma
<1>6. /\ k'.owner = k.owner
      /\ k'.current = k.current \/ k'.current = NextThread(k'.q)
      /\ Range(k.q.wait["lock"]) \ {u} \subseteq Range(k'.q.wait["lock"])
      /\ Range(k'.q.wait["lock"]) \subseteq Range(k.q.wait["lock"])
  BY <1>3, <1>5 DEF SameLock
<1>7. DataOK'
  BY <1>1, <1>2 DEF DataOK
<1>8. ASSUME ~contended PROVE Excused'
  <2>1. CASE u = Bright
    <3>1. Excused
      BY <1>8 DEF Inv
    <3> QED BY <1>2, <1>4, <2>1, <3>1 DEF Excused, Excuse
  <2>2. CASE u # Bright
    <3>1. k'.err[Bright] = k.err[Bright]
      BY <1>3, <1>5, <2>2, PlaceLemma
    <3> QED BY <1>2, <1>8, <3>1, HandlerExcuse
  <2> QED BY <2>1, <2>2
<1>9. \A x \in Range(k.q.wait["lock"]) :
         x \in Range(k'.q.wait["lock"]) \/ (pc[x] = "taking" => <<x, "lock">> \in cut')
  BY <1>2, <1>4, <1>6
<1>10. cut' \subseteq {Bright, Temper} \X {"lock", "mq"} /\ cut \subseteq cut'
  BY <1>1, <1>2, <1>4
<1> QED BY <1>2, <1>5, <1>6, <1>7, <1>8, <1>9, <1>10, HandlerFrame

\* The DMA controller
LEMMA DmaStep ==
    ASSUME Inv, Dma
    PROVE  Inv' /\ k'.owner = k.owner
<1>1. /\ ~Over /\ pc' = pc /\ late' = late /\ cut' = cut /\ contended' = contended
      /\ temper' = temper /\ mail' = mail /\ dma' = FALSE /\ events' = events
      /\ timer' = timer /\ sensing' = sensing /\ units' = units /\ k' = k
  BY DEF Dma, switch, history
<1>2. k \in Kernel /\ DataOK /\ cut \subseteq {Bright, Temper} \X {"lock", "mq"}
  BY DEF Inv, TypeOK, DataOK
<1>3. DataOK'
  BY <1>1, <1>2 DEF DataOK
<1>4. ~contended => Excused'
  BY <1>1, HandlerExcuse
<1>5. /\ k' \in Kernel /\ Lock(k') /\ k'.owner = k.owner
      /\ Range(k.q.wait["lock"]) \subseteq Range(k'.q.wait["lock"])
      /\ Range(k'.q.wait["lock"]) \subseteq Range(k.q.wait["lock"])
      /\ k'.current = k.current
  BY <1>1, IdleKernel
<1> QED BY <1>1, <1>2, <1>3, <1>4, <1>5, HandlerFrame

\* rt_thread_yield at the end of a slice
LEMMA SliceStep ==
    ASSUME Inv, SliceEnds
    PROVE  Inv' /\ k'.owner = k.owner
<1> DEFINE t == k.current
           p == k.q.prio[t]
           m == Rotate(k, p, t)
<1>1. /\ k \in Kernel /\ Lock(k) /\ DataOK
      /\ cut \subseteq {Bright, Temper} \X {"lock", "mq"}
  BY DEF Inv, TypeOK, DataOK
<1>2. /\ ~Over /\ pc' = pc /\ late' = late /\ cut' = cut /\ contended' = contended
      /\ temper' = temper /\ mail' = mail /\ dma' = dma /\ events' = events
      /\ timer' = timer /\ sensing' = sensing /\ units' = units
      /\ k' = Scheduled(m)
  BY DEF SliceEnds, Rotate, data, switch, history
<1>3. t \in Threads /\ p \in Prios
  <2>1. t # NoThread
    BY <1>2 DEF Over, Broken
  <2>2. t \in Threads /\ k.q \in Queues
    BY <1>1, <2>1, KernelParts
  <2> QED BY <2>2 DEF Queues
<1> HIDE DEF p
<1>4. /\ m \in Kernel /\ Lock(m) /\ SameLock(k, m) /\ m.current = k.current
      /\ m.err = k.err /\ m.q.wait = k.q.wait
  BY <1>1, <1>3, RotateLemma
<1> HIDE DEF m
<1>5. /\ k' \in Kernel /\ Lock(k') /\ SameLock(m, k') /\ k'.q = m.q /\ k'.err = m.err
      /\ k'.current = m.current \/ k'.current = NextThread(k'.q)
  BY <1>2, <1>4, ScheduledLemma
<1>6. /\ k'.owner = k.owner /\ k'.q.wait = k.q.wait /\ k'.err = k.err
      /\ k'.current = k.current \/ k'.current = NextThread(k'.q)
  BY <1>4, <1>5 DEF SameLock
<1>7. DataOK'
  BY <1>1, <1>2 DEF DataOK
<1>8. ~contended => Excused'
  BY <1>2, <1>6, HandlerExcuse
<1>9. /\ Range(k.q.wait["lock"]) \subseteq Range(k'.q.wait["lock"])
      /\ Range(k'.q.wait["lock"]) \subseteq Range(k.q.wait["lock"])
  BY <1>6
<1> QED BY <1>1, <1>2, <1>5, <1>6, <1>7, <1>8, <1>9, HandlerFrame

\* sensor_start_convert_entry, when the lock is free or the thread it runs as owns
\* it: what it takes it gives back, and nobody else hears of it.
LEMMA ConversionLemma ==
    ASSUME NEW s \in Kernel, Lock(s), NEW t \in Threads, ~MustWait(s, t),
           NEW m, m = Taken(s, t), NEW r, r = Released(m, t)
    PROVE  /\ r \in Kernel /\ Lock(r) /\ r.q = s.q /\ r.owner = s.owner
           /\ r.current = s.current
           /\ \A y \in Threads : r.err[y] = IF y = t THEN "ok" ELSE s.err[y]
           /\ ~WillWake(m, t)
<1>1. t # NoThread /\ s.hold \in Nat /\ m.hold \in Nat
  <2>1. m \in Kernel
    BY TakenLemma
  <2> QED BY <2>1, QueueAssumption, KernelParts
<1>2. m \in Kernel /\ Lock(m) /\ m.current = s.current
  BY TakenLemma
<1>3. \A y \in Threads : m.err[y] = IF y = t THEN "ok" ELSE s.err[y]
  BY TakenLemma
<1>4. /\ m.q = s.q /\ m.owner = t /\ s.owner \in {t, NoThread}
      /\ s.owner = t => m.hold = s.hold + 1
      /\ s.owner = NoThread => m.hold = 1 /\ m.orig = s.q.prio[t]
  BY TakenLemma
<1>5. r \in Kernel /\ Lock(r) /\ r.current = m.current
  BY <1>2, ReleasedLemma
<1>6. r.err = m.err
  BY <1>2, <1>4, ReleasedLemma
<1>7. CASE s.owner = t
  <2>1. s.hold > 0 /\ m.hold > 1
    BY <1>1, <1>4, <1>7 DEF Lock
  <2>2. r.q = m.q /\ r.owner = t
    BY <1>2, <1>4, <2>1, ReleasedLemma
  <2> QED BY <1>2, <1>3, <1>4, <1>5, <1>6, <1>7, <2>1, <2>2 DEF WillWake
<1>8. CASE s.owner = NoThread
  <2>1. m.hold = 1 /\ m.q.wait["lock"] = <<>> /\ m.orig = m.q.prio[t]
    BY <1>4, <1>8 DEF Lock
  <2>2. r.q = m.q /\ r.owner = NoThread
    BY <1>2, <1>4, <2>1, ReleasedLemma
  <2> QED BY <1>2, <1>3, <1>4, <1>5, <1>6, <1>8, <2>1, <2>2 DEF WillWake
<1> QED BY <1>4, <1>7, <1>8

\* The kernel the handler leaves, whomever it met.
LEMMA ConvertedLemma ==
    ASSUME NEW s \in Kernel, Lock(s), NEW m, m = Scheduled(s) \/ m = s,
           NEW r, r = IF m.current = NoThread THEN m
                      ELSE IF WillWake(m, m.current) THEN Scheduled(Released(m, m.current))
                      ELSE Released(m, m.current)
    PROVE  r \in Kernel /\ Lock(r)
<1>1. m \in Kernel /\ Lock(m)
  BY ScheduledLemma
<1>2. CASE m.current = NoThread
  BY <1>1, <1>2
<1>3. CASE m.current # NoThread
  <2> DEFINE u == m.current
             x == Released(m, u)
  <2>1. u \in Threads
    BY <1>1, <1>3, KernelParts
  <2>2. x \in Kernel /\ Lock(x)
    BY <1>1, <2>1, ReleasedLemma
  <2> HIDE DEF x
  <2>3. Scheduled(x) \in Kernel /\ Lock(Scheduled(x))
    BY <2>2, ScheduledLemma
  <2>4. r = Scheduled(x) \/ r = x
    BY <1>3 DEF x
  <2> QED BY <2>2, <2>3, <2>4
<1> QED BY <1>2, <1>3

\* sensor_start_convert_entry
LEMMA SensorTimerStep ==
    ASSUME Inv, SensorTimer
    PROVE  Inv' /\ (contended' \/ k'.owner = k.owner)
<1> DEFINE t == k.current
           m == Taken(k, t)
           s == IF MustWait(k, t) THEN Scheduled(m) ELSE m
<1>1. /\ k \in Kernel /\ Lock(k) /\ DataOK /\ Placed /\ Quiet /\ late \subseteq Threads
      /\ cut \subseteq {Bright, Temper} \X {"lock", "mq"} /\ contended \in BOOLEAN
      /\ pc \in [Threads -> Labels]
  BY DEF Inv, TypeOK, DataOK
<1>2. /\ ~Over /\ pc' = pc /\ late' = late /\ cut' = cut /\ temper' = temper
      /\ mail' = mail /\ units' = units /\ events' = events
      /\ timer' = timer /\ sensing' = sensing
  BY DEF SensorTimer, switch
<1>3. dma' = ("last" \in events) /\ contended' = (contended \/ MustWait(k, t))
  BY DEF SensorTimer
<1>4. k' = IF s.current = NoThread THEN s
           ELSE IF WillWake(s, s.current) THEN Scheduled(Released(s, s.current))
           ELSE Released(s, s.current)
  BY DEF SensorTimer
<1>5. t \in Threads
  <2>1. t # NoThread
    BY <1>2 DEF Over, Broken
  <2> QED BY <1>1, <2>1, KernelParts
<1>6. m \in Kernel /\ Lock(m) /\ m.current = t
  BY <1>1, <1>5, TakenLemma
<1>7. s = Scheduled(m) \/ s = m
  OBVIOUS
<1>8. DataOK'
  <2>1. ("last" \in events) \in BOOLEAN
    OBVIOUS
  <2> QED BY <1>1, <1>2, <1>3, <2>1 DEF DataOK
<1>9. CASE ~MustWait(k, t)
  <2>1. s = m
    BY <1>9
  <2> HIDE DEF s, m
  <2>2. m = Taken(k, t) /\ k \in Kernel /\ Lock(k)
    BY <1>1 DEF m
  <2> DEFINE r == Released(m, t)
  <2>3. /\ r \in Kernel /\ Lock(r) /\ r.q = k.q /\ r.owner = k.owner
        /\ r.current = k.current
        /\ \A y \in Threads : r.err[y] = IF y = t THEN "ok" ELSE k.err[y]
        /\ ~WillWake(m, t)
    BY <1>5, <1>9, <2>2, ConversionLemma
  <2>4. t # NoThread
    BY <1>5, QueueAssumption
  <2>5. k' = r
    BY <1>4, <1>6, <2>1, <2>3, <2>4
  <2> HIDE DEF r
  <2>6. /\ k' \in Kernel /\ Lock(k') /\ k'.q = k.q /\ k'.owner = k.owner
        /\ k'.current = k.current /\ k'.err[Bright] \in {k.err[Bright], "ok"}
    <3>1. Bright \in Threads
      BY PlaceLemma
    <3>2. r.err[Bright] = IF Bright = t THEN "ok" ELSE k.err[Bright]
      BY <2>3, <3>1
    <3> QED BY <2>3, <2>5, <3>2
  <2>7. contended' = contended
    BY <1>1, <1>3, <1>9
  <2>8. ~contended => Excused'
    BY <1>2, <2>6, HandlerExcuse
  <2>9. /\ Range(k'.q.wait["lock"]) \subseteq Range(k.q.wait["lock"])
        /\ \A x \in Range(k.q.wait["lock"]) : x \in Range(k'.q.wait["lock"])
    BY <2>6
  <2> QED BY <1>1, <1>2, <1>8, <2>6, <2>7, <2>8, <2>9, HandlerFrame
<1>10. CASE MustWait(k, t)
  <2> HIDE DEF s, m
  <2>1. k' \in Kernel /\ Lock(k')
    BY <1>4, <1>6, <1>7, ConvertedLemma
  <2>2. contended' = TRUE
    BY <1>3, <1>10
  <2>3. TypeOK' /\ Placed' /\ Quiet'
    BY <1>1, <1>2, <1>8, <2>1, <2>2 DEF TypeOK, DataOK, Placed, Quiet
  <2> QED BY <2>1, <2>2, <2>3 DEF Inv
<1> QED BY <1>9, <1>10

-----------------------------------------------------------------------------
(* The initial states                                                       *)

\* The threads of the application are five.
LEMMA ThreadsFinite == IsFiniteSet(Threads)
<1>1. IsFiniteSet({Usart2})
  BY FS_Singleton
<1>2. IsFiniteSet({Usart2} \union {Bright})
  BY <1>1, FS_AddElement
<1>3. IsFiniteSet({Usart2} \union {Bright} \union {Temper})
  BY <1>2, FS_AddElement
<1>4. IsFiniteSet({Usart2} \union {Bright} \union {Temper} \union {Shell})
  BY <1>3, FS_AddElement
<1>5. IsFiniteSet({Usart2} \union {Bright} \union {Temper} \union {Shell} \union {Idle})
  BY <1>4, FS_AddElement
<1>6. Threads = {Usart2} \union {Bright} \union {Temper} \union {Shell} \union {Idle}
  BY PlaceLemma
<1> QED BY <1>5, <1>6

\* A set of threads has an enumeration.
LEMMA EnumerationLemma ==
    ASSUME NEW S \in SUBSET Threads
    PROVE  SetToSeq(S) \in Seq(Threads)
<1>1. IsFiniteSet(Threads)
  BY ThreadsFinite
<1>2. IsFiniteSet(S)
  BY <1>1, FS_Subset
<1>3. Cardinality(S) \in Nat /\ ExistsBijection(1..Cardinality(S), S)
  BY <1>2, FS_CardinalityType
<1> DEFINE n == Cardinality(S)
<1>4. PICK g \in Bijection(1..n, S) : TRUE
  BY <1>3 DEF ExistsBijection
<1>5. g \in [1..n -> S] /\ IsInjective(g)
  BY <1>4 DEF Bijection, Injection
<1>6. SetToSeq(S) \in [1..n -> S]
  BY <1>5 DEF SetToSeq
<1> HIDE DEF n
<1>7. n \in Nat
  BY <1>3 DEF n
<1> QED BY <1>6, <1>7

\* The priorities the threads are created with.
LEMMA BaseLemma == Base \in [Threads -> Prios]
  BY SensorAssumption DEF Base, Prios

LEMMA InitLemma == Init => Inv
<1> SUFFICES ASSUME Init PROVE Inv
  OBVIOUS
<1> DEFINE q == [stat    |-> [t \in Threads |-> IF t \in Started THEN "ready" ELSE "init"],
                 prio    |-> Base,
                 ready   |-> [p \in Prios |-> SetToSeq({t \in Started : Base[t] = p})],
                 group   |-> {Base[t] : t \in Started},
                 wait    |-> [o \in Objects |-> <<>>],
                 defunct |-> <<>>]
           e == [t \in Threads |-> "ok"]
<1>1. /\ k = [q |-> q, current |-> Usart2, owner |-> NoThread, value |-> 1, hold |-> 0,
              orig |-> MaxPrio + 1, err |-> e, armed |-> {}]
      /\ events \in Scenarios
      /\ pc = [t \in Threads |-> CASE t = Idle -> "idle" [] t = Usart2 -> "wait"
                                 [] t = Shell -> "prompt" [] OTHER -> "take"]
      /\ late = {} /\ mail = 0 /\ units = 0
      /\ timer = TRUE /\ sensing = TRUE /\ dma = FALSE /\ temper = "none"
      /\ cut = {} /\ contended = FALSE
  BY DEF Init
<1>2. Started \subseteq Threads
  BY DEF Started
<1>3. q \in Queues
  <2> DEFINE st == [t \in Threads |-> IF t \in Started THEN "ready" ELSE "init"]
             re == [p \in Prios |-> SetToSeq({t \in Started : Base[t] = p})]
             gr == {Base[t] : t \in Started}
             wa == [o \in Objects |-> <<>>]
  <2>1. st \in [Threads -> Stats]
    BY DEF Stats
  <2>2. re \in [Prios -> Seq(Threads)]
    <3> SUFFICES ASSUME NEW p \in Prios
                 PROVE  SetToSeq({t \in Started : Base[t] = p}) \in Seq(Threads)
      OBVIOUS
    <3>1. {t \in Started : Base[t] = p} \in SUBSET Threads
      BY <1>2
    <3> QED BY <3>1, EnumerationLemma
  <2>3. gr \in SUBSET Prios
    BY <1>2, BaseLemma
  <2>4. wa \in [Objects -> Seq(Threads)]
    OBVIOUS
  <2>5. <<>> \in Seq(Threads)
    OBVIOUS
  <2> HIDE DEF st, re, gr, wa
  <2>6. q = [stat |-> st, prio |-> Base, ready |-> re, group |-> gr, wait |-> wa,
             defunct |-> <<>>]
    BY DEF st, re, gr, wa
  <2> QED BY <2>1, <2>2, <2>3, <2>4, <2>5, <2>6, BaseLemma DEF Queues
<1>4. q.wait["lock"] = <<>>
  BY SensorAssumption
<1> HIDE DEF q
<1>5. Usart2 \in Threads /\ Bright \in Threads /\ Temper \in Threads /\ Shell \in Threads
      /\ Idle \in Threads
  BY PlaceLemma
<1>6. e \in [Threads -> {"ok", "timeout", "error"}]
  OBVIOUS
<1> HIDE DEF e
<1>7. k \in Kernel
  BY <1>1, <1>3, <1>5, <1>6 DEF Kernel
<1>8. /\ k.q = q /\ k.owner = NoThread /\ k.value = 1 /\ k.hold = 0
  BY <1>1
<1>9. Lock(k)
  BY <1>4, <1>8 DEF Lock
<1>10. \A t \in Threads : pc[t] \in {"idle", "wait", "prompt", "take"} /\ pc[t] \in Place(t)
  <2> SUFFICES ASSUME NEW t \in Threads
               PROVE  pc[t] \in {"idle", "wait", "prompt", "take"} /\ pc[t] \in Place(t)
    OBVIOUS
  <2>2. t \in {Usart2, Bright, Temper, Shell, Idle}
    BY PlaceLemma
  <2>3. pc[t] = CASE t = Idle -> "idle" [] t = Usart2 -> "wait"
                [] t = Shell -> "prompt" [] OTHER -> "take"
    BY <1>1
  <2>4. CASE t = Idle
    BY <1>5, <2>3, <2>4, PlaceLemma, DistinctLemma
  <2>5. CASE t = Usart2
    BY <1>5, <2>3, <2>5, PlaceLemma, DistinctLemma
  <2>6. CASE t = Shell
    BY <1>5, <2>3, <2>6, PlaceLemma, DistinctLemma
  <2>7. CASE t = Bright
    BY <1>5, <2>3, <2>7, PlaceLemma, DistinctLemma
  <2>8. CASE t = Temper
    BY <1>5, <2>3, <2>8, PlaceLemma, DistinctLemma
  <2> QED BY <2>2, <2>4, <2>5, <2>6, <2>7, <2>8
<1>11. TypeOK
  <2>1. pc \in [Threads -> Labels]
    <3>1. \A t \in Threads : pc[t] \in Labels
      BY <1>10 DEF Labels
    <3>2. pc = [t \in Threads |-> pc[t]]
      BY <1>1
    <3> QED BY <3>1, <3>2
  <2>2. 0 \in 0..MaxUnits
    BY SensorAssumption
  <2>3. 0 \in 0..Queue
    BY DEF Queue
  <2> QED BY <1>1, <1>7, <2>1, <2>2, <2>3 DEF TypeOK
<1>12. Placed /\ Quiet
  BY <1>1, <1>10 DEF Placed, Quiet
<1>13. Claimed
  BY <1>5, <1>10 DEF Claimed, Claim
<1>14. Attended
  <2>1. k.q.wait["lock"] = <<>> /\ Range(<<>>) = {}
    BY <1>4, <1>8 DEF Range
  <2> QED BY <2>1 DEF Attended, Attends
<1>15. Excused
  BY <1>5, <1>10 DEF Excused, Excuse
<1> QED BY <1>9, <1>11, <1>12, <1>13, <1>14, <1>15 DEF Inv

-----------------------------------------------------------------------------
(* The theorems                                                             *)

\* What a step does to the owner of the lock
Passed == k.owner = NoThread \/ k'.owner = k.owner
          \/ (k.current = k.owner /\ InSection(k.owner))

LEMMA SensorStep ==
    ASSUME Inv, NEW t \in Threads, Sensor(t)
    PROVE  Inv' /\ Passed
<1>1. CASE Take(t)
  BY <1>1, TakeStep DEF Passed
<1>2. CASE TakeReturn(t)
  BY <1>2, TakeReturnStep DEF TakeReturn, Passed
<1>3. CASE Release(t)
  BY <1>3, ReleaseStep DEF Passed
<1>4. CASE Send(t)
  BY <1>4, SendStep DEF Passed
<1>5. CASE Recv(t)
  BY <1>5, RecvStep DEF Passed
<1>6. CASE RecvWait(t)
  BY <1>6, RecvWaitStep DEF Passed
<1>7. CASE RecvFails(t)
  BY <1>7, RecvFailsStep DEF Passed
<1> QED BY <1>1, <1>2, <1>3, <1>4, <1>5, <1>6, <1>7 DEF Sensor

LEMMA ThreadSteps ==
    ASSUME Inv, NEW t \in Threads, ThreadStep(t)
    PROVE  Inv' /\ Passed
<1>1. CASE Schedule(t)
  BY <1>1, ScheduleStep DEF Passed
<1>2. CASE Printed(t)
  BY <1>2, PrintedStep DEF Passed
<1>3. CASE Delay(t)
  BY <1>3, DelayStep DEF Passed
<1>4. CASE Awake(t)
  BY <1>4, AwakeStep DEF Passed
<1>5. CASE Sensor(t)
  BY <1>5, SensorStep
<1>6. CASE TakeUnit(t) \/ GotUnit(t)
  BY <1>6, UnitStep DEF Passed
<1>7. CASE WaitUnit(t)
  BY <1>7, WaitUnitStep DEF Passed
<1> QED BY <1>1, <1>2, <1>3, <1>4, <1>5, <1>6, <1>7 DEF ThreadStep

LEMMA InvKept ==
    ASSUME Inv, [Next]_vars
    PROVE  Inv' /\ (contended' \/ Passed)
<1>1. CASE UNCHANGED vars
  <2>1. k' = k /\ Inv'
    BY <1>1 DEF vars, data, switch, history, Inv, TypeOK, Placed, Quiet, Claimed, Attended,
                Excused
  <2> QED BY <2>1 DEF Passed
<1>2. ASSUME NEW t \in Threads, ThreadStep(t) PROVE Inv' /\ Passed
  BY <1>2, ThreadSteps
<1>3. ASSUME NEW t \in Threads, ThreadTimer(t) PROVE Inv' /\ Passed
  BY <1>3, ThreadTimerStep DEF Passed
<1>4. CASE Command
  <2>1. "prompt" \in Place(Shell) /\ "waking" \in Place(Shell)
    BY PlaceLemma
  <2>2. Bright \in Threads /\ Temper \in Threads
    BY PlaceLemma
  <2>3. CASE WakeUp(Shell, Bright, "prompt", "waking")
    BY <2>1, <2>2, <2>3, WakeUpStep DEF Passed
  <2>4. CASE WakeUp(Shell, Temper, "waking", "prompt")
    BY <2>1, <2>2, <2>4, WakeUpStep DEF Passed
  <2> QED BY <1>4, <2>3, <2>4 DEF Command
<1>5. CASE Key
  BY <1>5, KeyStep DEF Passed
<1>6. CASE Line
  BY <1>6, LineStep DEF Passed
<1>7. CASE SensorTimer
  BY <1>7, SensorTimerStep DEF Passed
<1>8. CASE Dma
  BY <1>8, DmaStep DEF Passed
<1>9. CASE SliceEnds
  BY <1>9, SliceStep DEF Passed
<1> QED BY <1>1, <1>2, <1>3, <1>4, <1>5, <1>6, <1>7, <1>8, <1>9 DEF Next

\* Whatever the timers and the handlers do, the values stay in their types.
THEOREM TypeSafety == Spec => []TypeOK
<1>1. Inv => TypeOK
  BY DEF Inv
<1>2. Inv /\ [Next]_vars => Inv'
  BY InvKept
<1> QED BY <1>1, <1>2, InitLemma, PTL DEF Spec

\* A sensor thread reads ADCBuffer only as the owner of buffer_lock (Task.c:141),
\* but when its own timer ended its wait for the lock in this round, and as long
\* as the ADC timer's function has not met a taken lock.
THEOREM Exclusion == Spec => []Exclusive
<1>1. Inv => Exclusive
  BY DEF Inv, Claimed, Claim, Exclusive, InSection
<1>2. Inv /\ [Next]_vars => Inv'
  BY InvKept
<1> QED BY <1>1, <1>2, InitLemma, PTL DEF Spec

\* The temperature printed beside a brightness was received from sensor_mq in the
\* same round, under the same conditions.
THEOREM PairsReceived == Spec => []PairReceived
<1>1. Inv => PairReceived
  BY DEF Inv, Excused, Excuse, PairReceived
<1>2. Inv /\ [Next]_vars => Inv'
  BY InvKept
<1> QED BY <1>1, <1>2, InitLemma, PTL DEF Spec

\* Nobody but its owner, at the end of its section, passes buffer_lock on.
THEOREM Ownership == Spec => OwnerReleases
<1> DEFINE Turn == contended' \/ k.owner = NoThread \/ k'.owner = k.owner
                   \/ (k.current = k.owner /\ InSection(k.owner))
<1>1. Inv /\ [Next]_vars => Inv'
  BY InvKept
<1>2. Inv /\ [Next]_vars => [Turn]_vars
  BY InvKept DEF Passed
<1>3. Spec => []Inv
  BY <1>1, InitLemma, PTL DEF Spec
<1> QED BY <1>2, <1>3, PTL DEF Spec, OwnerReleases

-----------------------------------------------------------------------------
(* The order the system is in until the ADC timer's function has waited      *)

\* Only the temperature thread is ever raised, as the owner of the lock, and only
\* for the light thread, which waits for it or had its wait cut short.
Ranked(s, c) ==
    \A x \in Threads : s.q.prio[x] # Base[x] =>
        /\ x = Temper /\ s.owner = Temper
        /\ Bright \in Range(s.q.wait["lock"]) \/ <<Bright, "lock">> \in c

\* The thread that runs is the most urgent, ...
Leads(s) == s.q.prio[s.current] = Highest(s.q)

\* ... or keeps the scheduler locked, or is about to call rt_schedule, or has
\* given up the priority of a waiter that was taken from it.
Foremost(s, p, l, c) ==
    \/ s.current \in l
    \/ p[s.current] \in {"report", "print"}
    \/ s.current = Temper /\ <<Bright, "lock">> \in c
    \/ Leads(s)

\* The owner has taken the lock once, and is in its section or on its way there.
Holds(s, p) ==
    s.owner # NoThread =>
        s.hold = 1 /\ s.orig = Base[s.owner] /\ p[s.owner] \in {"taking", "read"}

\* A thread on the suspend list of the lock takes it.
Waits(s, p) == \A x \in Range(s.q.wait["lock"]) : p[x] = "taking"

\* The thread that runs is ready, but in front of its rt_schedule.
Running(s, l) ==
    /\ s.current \in Threads
    /\ s.current \notin l => s.q.stat[s.current] = "ready"

\* A suspended thread is on a list or has a timer.
Asleep(s) ==
    \A x \in Threads : s.q.stat[x] = "suspend" =>
        x \in s.armed \/ \E o \in Objects : x \in Range(s.q.wait[o])

\* What does not depend on the code the threads are in.
Sane(s) ==
    s \in Kernel /\ QueuesSound(s.q) /\ s.q.stat[Idle] = "ready" /\ Asleep(s)

Orderly(s, p, l, c) ==
    /\ Sane(s) /\ Running(s, l) /\ Ranked(s, c) /\ Foremost(s, p, l, c)
    /\ Holds(s, p) /\ Waits(s, p)

Ordered == Orderly(k, pc, late, cut)

-----------------------------------------------------------------------------
(* The kernel's routines on sound lists                                     *)

\* The most urgent of the ready threads leads.
LEMMA NextLeads ==
    ASSUME NEW q \in Queues, QueuesSound(q), NEW t \in Threads, q.stat[t] = "ready"
    PROVE  /\ NextThread(q) \in Threads /\ q.stat[NextThread(q)] = "ready"
           /\ q.prio[NextThread(q)] = Highest(q)
<1> DEFINE h == Highest(q)
           n == NextThread(q)
<1>1. n \in Threads /\ q.stat[n] = "ready"
  BY NextLemma
<1>2. q.group # {} /\ q.ready[h] # <<>> /\ n = Head(q.ready[h])
  BY <1>1, QueueAssumption DEF NextThread
<1>3. h \in Prios
  BY <1>2, HighestLemma DEF Queues
<1>4. q.ready[h] \in Seq(Threads)
  BY <1>3 DEF Queues
<1>5. n \in Range(q.ready[h])
  BY <1>2, <1>4, EmptyLemma
<1> QED BY <1>1, <1>3, <1>5 DEF QueuesSound, ListsSound

\* The lists and the lock are left alone, and more timers may run.
SameKernel(s, r) ==
    /\ r.q = s.q /\ r.owner = s.owner /\ s.armed \subseteq r.armed
    /\ s.owner # NoThread => r.hold = s.hold /\ r.orig = s.orig

\* A step that leaves the lists and the lock alone leaves them sound.
LEMMA SaneSame ==
    ASSUME NEW s, Sane(s), NEW r \in Kernel, SameKernel(s, r)
    PROVE  Sane(r)
  BY DEF Sane, SameKernel, Asleep

\* rt_schedule on sound lists
LEMMA ScheduledSane ==
    ASSUME NEW s, Sane(s), Lock(s), NEW r, r = Scheduled(s)
    PROVE  /\ Sane(r) /\ SameKernel(s, r)
           /\ \/ r.current = s.current /\ Printing(s.current)
              \/ ~Printing(s.current) /\ Leads(r)
                 /\ r.current \in Threads /\ r.q.stat[r.current] = "ready"
<1>1. s \in Kernel /\ QueuesSound(s.q) /\ s.q \in Queues /\ s.q.stat[Idle] = "ready"
      /\ Idle \in Threads
  BY KernelParts, PlaceLemma DEF Sane
<1>2. CASE Printing(s.current)
  <2>1. r = s
    BY <1>2 DEF Scheduled
  <2> QED BY <1>2, <2>1 DEF SameKernel, SameLock
<1>3. CASE ~Printing(s.current)
  <2>1. r = [s EXCEPT !.current = NextThread(s.q)]
    BY <1>3 DEF Scheduled
  <2>2. r \in Kernel /\ SameLock(s, r) /\ r.q = s.q /\ r.current = NextThread(s.q)
    BY <1>1, <2>1, SwitchedLemma
  <2>3. r.armed = s.armed
    BY <2>1 DEF Kernel
  <2>4. SameKernel(s, r)
    BY <2>2, <2>3 DEF SameKernel, SameLock
  <2>5. /\ r.current \in Threads /\ s.q.stat[r.current] = "ready"
        /\ s.q.prio[r.current] = Highest(s.q)
    BY <1>1, <2>2, NextLeads
  <2> QED BY <1>3, <2>2, <2>4, <2>5, SaneSame DEF Leads
<1> QED BY <1>2, <1>3

\* Threads are made ready, and taken off the suspend lists; their timers may stop.
Roused(s, r, S) ==
    /\ SameLock(s, r) /\ r.current = s.current /\ r.q.prio = s.q.prio
    /\ \A x \in Threads : r.q.stat[x] = IF x \in S THEN "ready" ELSE s.q.stat[x]
    /\ \A o \in Objects : Range(r.q.wait[o]) = Range(s.q.wait[o]) \ S
    /\ s.armed \ S \subseteq r.armed

\* Who is made ready is neither asleep nor waiting.
LEMMA SaneRoused ==
    ASSUME NEW s, Sane(s), NEW r \in Kernel, NEW S, Roused(s, r, S), QueuesSound(r.q)
    PROVE  Sane(r)
<1>1. Idle \in Threads
  BY PlaceLemma
<1>2. r.q.stat[Idle] = "ready"
  BY <1>1 DEF Sane, Roused
<1>3. Asleep(r)
  <2> SUFFICES ASSUME NEW x \in Threads, r.q.stat[x] = "suspend"
               PROVE  x \in r.armed \/ \E o \in Objects : x \in Range(r.q.wait[o])
    BY DEF Asleep
  <2>1. x \notin S /\ s.q.stat[x] = "suspend"
    BY DEF Roused
  <2>2. x \in s.armed \/ \E o \in Objects : x \in Range(s.q.wait[o])
    BY <2>1 DEF Sane, Asleep
  <2> QED BY <2>1, <2>2 DEF Roused
<1> QED BY <1>2, <1>3 DEF Sane

\* rt_thread_resume of a suspended thread
LEMMA WokenSane ==
    ASSUME NEW s, Sane(s), Lock(s), NEW t \in Threads, s.q.stat[t] = "suspend",
           NEW r, r = Woken(s, t)
    PROVE  Sane(r) /\ Lock(r) /\ Roused(s, r, {t})
<1> DEFINE m == InsertThread(Unlinked(s.q, t), t)
<1>1. s \in Kernel /\ s.q \in Queues /\ QueuesSound(s.q)
  BY KernelParts DEF Sane
<1>2. m = Resumed(s.q, t)
  BY DEF Resumed
<1>3. m \in Queues /\ QueuesSound(m) /\ WokenUp(s.q, m, t)
  BY <1>1, WakeLemma
<1> HIDE DEF m
<1>4. r \in Kernel /\ Lock(r) /\ SameLock(s, r) /\ r.current = s.current
  BY <1>1, WokenLemma
<1>5. r.q = m /\ r.armed = s.armed \ {t}
  BY <1>1, <1>2 DEF Woken, Kernel
<1>6. \A x \in Threads : m.stat[x] = IF x = t THEN "ready" ELSE s.q.stat[x]
  BY <1>1, <1>3 DEF WokenUp, Queues
<1>7. Roused(s, r, {t})
  BY <1>3, <1>4, <1>5, <1>6 DEF Roused, WokenUp
<1> QED BY <1>3, <1>4, <1>5, <1>7, SaneRoused

\* The first waiter, if any
LEMMA WokenFirstSane ==
    ASSUME NEW s, Sane(s), Lock(s), NEW o \in Objects, NEW r, r = WokenFirst(s, o)
    PROVE  /\ Sane(r) /\ Lock(r)
           /\ \E S \in SUBSET Range(s.q.wait[o]) : Roused(s, r, S)
<1>1. s \in Kernel /\ QueuesSound(s.q)
  BY DEF Sane
<1>2. CASE s.q.wait[o] = <<>>
  <2>1. r = s
    BY <1>2 DEF WokenFirst
  <2>2. Roused(s, r, {})
    BY <2>1 DEF Roused, SameLock
  <2> QED BY <2>1, <2>2
<1>3. CASE s.q.wait[o] # <<>>
  <2> DEFINE h == Head(s.q.wait[o])
  <2>1. s.q.wait[o] \in Seq(Threads)
    BY <1>1, KernelParts DEF Queues
  <2>2. h \in Threads /\ h \in Range(s.q.wait[o])
    BY <1>3, <2>1, EmptyLemma
  <2>3. s.q.stat[h] = "suspend"
    BY <1>1, <2>2 DEF QueuesSound, ListsSound
  <2>4. r = Woken(s, h)
    BY <1>3 DEF WokenFirst
  <2> HIDE DEF h
  <2>5. Sane(r) /\ Lock(r) /\ Roused(s, r, {h})
    BY <2>2, <2>3, <2>4, WokenSane
  <2> QED BY <2>2, <2>5
<1> QED BY <1>2, <1>3

\* What rt_list_remove leaves of the statuses, the priorities and the suspend lists
LEMMA UnlinkedFields ==
    ASSUME NEW q \in Queues, NEW u, NEW r, r = Unlinked(q, u)
    PROVE  r = [stat |-> q.stat, prio |-> q.prio, group |-> q.group,
                ready |-> [x \in Prios |-> Unlink(q.ready[x], u)],
                wait |-> [o \in Objects |-> Unlink(q.wait[o], u)],
                defunct |-> Unlink(q.defunct, u)]
  BY DEF Unlinked, Queues

\* rt_thread_timeout finds a ready thread, too: it then moves to the end of its list.
LEMMA RequeueReady ==
    ASSUME NEW q \in Queues, QueuesSound(q), NEW u \in Threads, q.stat[u] = "ready"
    PROVE  InsertThread(Unlinked(q, u), u) = BackOfLine(q, u)
<1> DEFINE m == Unlinked(q, u)
           p == q.prio[u]
           b == [q.ready EXCEPT ![p] = Append(Unlink(q.ready[p], u), u)]
<1>1. p \in Prios /\ u \in Range(q.ready[p])
  BY DEF Queues, QueuesSound, ReadyLinked
<1>2. p \in q.group
  <2>1. q.ready[p] \in Seq(Threads)
    BY <1>1 DEF Queues
  <2>2. q.ready[p] # <<>>
    BY <1>1, <2>1, EmptyLemma
  <2> QED BY <1>1, <2>2 DEF QueuesSound, GroupExact
<1>3. \A x \in Prios : x # p => u \notin Range(q.ready[x])
  BY DEF QueuesSound, ListsSound
<1>4. /\ \A o \in Objects : u \notin Range(q.wait[o])
      /\ u \notin Range(q.defunct)
  BY DEF QueuesSound, ListsSound
<1>5. m = [stat |-> q.stat, prio |-> q.prio,
           ready |-> [x \in Prios |-> Unlink(q.ready[x], u)], group |-> q.group,
           wait |-> [o \in Objects |-> Unlink(q.wait[o], u)],
           defunct |-> Unlink(q.defunct, u)]
  BY UnlinkedFields
<1>6. [o \in Objects |-> Unlink(q.wait[o], u)] = q.wait
  BY <1>4 DEF Unlink, Queues
<1>7. Unlink(q.defunct, u) = q.defunct
  BY <1>4 DEF Unlink
<1>8. \A x \in Prios : x # p => Unlink(q.ready[x], u) = q.ready[x]
  BY <1>3 DEF Unlink
<1> DEFINE g == [x \in Prios |-> Unlink(q.ready[x], u)]
<1>9. [g EXCEPT ![p] = Append(g[p], u)] = b
  BY <1>1, <1>8 DEF Queues
<1>10. [q.stat EXCEPT ![u] = "ready"] = q.stat
  BY DEF Queues
<1>11. m = [stat |-> q.stat, prio |-> q.prio, ready |-> g, group |-> q.group,
            wait |-> q.wait, defunct |-> q.defunct]
  BY <1>5, <1>6, <1>7
<1> HIDE DEF m, g
<1>12. InsertThread(m, u) =
          [m EXCEPT !.stat[u] = "ready", !.ready[p] = Append(g[p], u),
                    !.group = m.group \union {p}]
  BY <1>11 DEF InsertThread
<1>13. InsertThread(m, u) =
          [stat |-> [q.stat EXCEPT ![u] = "ready"], prio |-> q.prio,
           ready |-> [g EXCEPT ![p] = Append(g[p], u)],
           group |-> q.group \union {p}, wait |-> q.wait, defunct |-> q.defunct]
  BY <1>11, <1>12
<1>14. q.group \union {p} = q.group
  BY <1>2
<1>15. InsertThread(m, u) = [stat |-> q.stat, prio |-> q.prio, ready |-> b,
                             group |-> q.group, wait |-> q.wait, defunct |-> q.defunct]
  BY <1>9, <1>10, <1>13, <1>14
<1>16. BackOfLine(q, u) = [stat |-> q.stat, prio |-> q.prio, ready |-> b,
                           group |-> q.group, wait |-> q.wait, defunct |-> q.defunct]
  <2>1. BackOfLine(q, u) = [q EXCEPT !.ready = b]
    BY DEF BackOfLine
  <2> HIDE DEF b
  <2> QED BY <2>1, ReadyFields
<1> QED BY <1>15, <1>16 DEF m

\* rt_thread_timeout on sound lists
LEMMA ExpiredSane ==
    ASSUME NEW s, Sane(s), Lock(s), NEW u \in Threads, NEW r, r = Expired(s, u)
    PROVE  Sane(r) /\ Lock(r) /\ Roused(s, r, {u})
<1> DEFINE w == InsertThread(Unlinked(s.q, u), u)
<1>1. s \in Kernel /\ s.q \in Queues /\ QueuesSound(s.q)
  BY KernelParts DEF Sane
<1>2. /\ w \in Queues /\ QueuesSound(w) /\ w.prio = s.q.prio
      /\ \A x \in Threads : w.stat[x] = IF x = u THEN "ready" ELSE s.q.stat[x]
      /\ \A o \in Objects : Range(w.wait[o]) = Range(s.q.wait[o]) \ {u}
  <2>1. CASE s.q.stat[u] = "ready"
    <3>1. w = BackOfLine(s.q, u)
      BY <1>1, <2>1, RequeueReady
    <3> HIDE DEF w
    <3>2. w \in Queues /\ QueuesSound(w) /\ w.prio = s.q.prio
          /\ w.stat = s.q.stat /\ w.wait = s.q.wait
      BY <1>1, <2>1, <3>1, BackOfLineLemma
    <3>3. \A o \in Objects : u \notin Range(s.q.wait[o])
      BY <1>1, <2>1 DEF QueuesSound, ListsSound
    <3> QED BY <2>1, <3>2, <3>3
  <2>2. CASE s.q.stat[u] # "ready"
    <3> DEFINE m == Unlinked(s.q, u)
    <3>1. m \in Queues /\ QueuesSound(m) /\ Free(m, u) /\ Without(s.q, m, u)
      BY <1>1, <2>2, UnlinkedSound
    <3>2. w = InsertThread(m, u)
      OBVIOUS
    <3> HIDE DEF m, w
    <3>3. /\ w \in Queues /\ QueuesSound(w)
          /\ w.stat = [m.stat EXCEPT ![u] = "ready"]
          /\ w.prio = m.prio /\ w.wait = m.wait
      BY <3>1, <3>2, InsertLemma
    <3>4. /\ m.stat = s.q.stat /\ m.prio = s.q.prio
          /\ \A o \in Objects : Range(m.wait[o]) = Range(s.q.wait[o]) \ {u}
      BY <3>1 DEF Without
    <3>5. \A x \in Threads : w.stat[x] = IF x = u THEN "ready" ELSE s.q.stat[x]
      BY <1>1, <3>3, <3>4 DEF Queues
    <3> QED BY <3>3, <3>4, <3>5
  <2> QED BY <2>1, <2>2
<1> HIDE DEF w
<1>3. r \in Kernel /\ Lock(r) /\ SameLock(s, r) /\ r.current = s.current
  BY <1>1, ExpiredLemma
<1>4. r.q = w /\ r.armed = s.armed \ {u}
  BY <1>1 DEF Expired, Kernel, w
<1>5. Roused(s, r, {u})
  BY <1>2, <1>3, <1>4 DEF Roused
<1> QED BY <1>2, <1>3, <1>4, <1>5, SaneRoused

\* rt_thread_yield on sound lists
LEMMA RotateSane ==
    ASSUME NEW s, Sane(s), Lock(s), NEW t \in Threads, s.q.stat[t] = "ready",
           NEW p, p = s.q.prio[t], NEW r, r = Rotate(s, p, t)
    PROVE  Sane(r) /\ Lock(r) /\ Roused(s, r, {})
<1> DEFINE w == BackOfLine(s.q, t)
<1>1. s \in Kernel /\ s.q \in Queues /\ QueuesSound(s.q) /\ p \in Prios
  BY KernelParts DEF Sane, Queues
<1>2. /\ w \in Queues /\ QueuesSound(w) /\ w.prio = s.q.prio
      /\ w.stat = s.q.stat /\ w.wait = s.q.wait
  BY <1>1, BackOfLineLemma
<1>3. r \in Kernel /\ Lock(r) /\ SameLock(s, r) /\ r.current = s.current
  BY <1>1, RotateLemma
<1>4. r = [s EXCEPT !.q = w]
  BY DEF Rotate, BackOfLine
<1> HIDE DEF w
<1>5. r.q = w /\ r.armed = s.armed
  BY <1>1, <1>4 DEF Kernel
<1>6. Roused(s, r, {})
  BY <1>2, <1>3, <1>5 DEF Roused
<1> QED BY <1>2, <1>3, <1>5, <1>6, SaneRoused

\* A ready thread becomes suspended, on a list other than that of the lock or with
\* a timer.
Rested(s, r, t) ==
    /\ SameLock(s, r) /\ r.current = s.current /\ r.q.prio = s.q.prio
    /\ \A x \in Threads : r.q.stat[x] = IF x = t THEN "suspend" ELSE s.q.stat[x]
    /\ \A o \in Objects : Range(s.q.wait[o]) \subseteq Range(r.q.wait[o])
    /\ Range(r.q.wait["lock"]) = Range(s.q.wait["lock"])
    /\ s.armed \ {t} \subseteq r.armed
    /\ t \in r.armed \/ \E o \in Objects : t \in Range(r.q.wait[o])

\* A thread with a timer may be off every list.
LEMMA SaneRested ==
    ASSUME NEW s, Sane(s), NEW r \in Kernel, NEW t \in Threads \ {Idle},
           Rested(s, r, t), QueuesSound(r.q)
    PROVE  Sane(r)
<1>1. r.q.stat[Idle] = "ready"
  BY PlaceLemma DEF Sane, Rested
<1>2. Asleep(r)
  BY DEF Sane, Rested, Asleep
<1> QED BY <1>1, <1>2 DEF Sane

\* A wait for something else than the lock, on sound lists
LEMMA PartedSane ==
    ASSUME NEW s, Sane(s), Lock(s), NEW t \in Threads \ {Idle}, s.q.stat[t] = "ready",
           NEW o, o = "mq" \/ o = "sem", NEW r, r = Parted(s, o, t)
    PROVE  Sane(r) /\ Rested(s, r, t)
<1> DEFINE w == WaitFifo(s.q, o, t)
<1>1. s \in Kernel /\ s.q \in Queues /\ QueuesSound(s.q) /\ o \in Objects
      /\ "lock" \in Objects /\ o # "lock"
  BY KernelParts, SensorAssumption DEF Sane
<1>2. w \in Queues /\ QueuesSound(w) /\ Queued(s.q, w, o, t)
  BY <1>1, WaitFifoLemma
<1>3. r \in Kernel /\ SameLock(s, r) /\ r.current = s.current
  BY <1>1, WaitingLemma
<1>4. r.q = w /\ s.armed \ {t} \subseteq r.armed
  <2>1. r.q = w /\ r.armed = Disarmed(s, t)
    BY <1>1 DEF Parted, Faulted, Kernel
  <2> QED BY <1>1, <2>1, DisarmedLemma
<1> HIDE DEF w
<1>5. /\ \A x \in Threads : w.stat[x] = IF x = t THEN "suspend" ELSE s.q.stat[x]
      /\ w.prio = s.q.prio
      /\ \A x \in Objects : Range(w.wait[x]) =
                              IF x = o THEN Range(s.q.wait[x]) \union {t}
                              ELSE Range(s.q.wait[x])
  BY <1>1, <1>2 DEF Queued, Queues
<1>6. Rested(s, r, t)
  <2>1. t \in Range(w.wait[o]) /\ Range(w.wait["lock"]) = Range(s.q.wait["lock"])
    BY <1>1, <1>5
  <2>2. \A x \in Objects : Range(s.q.wait[x]) \subseteq Range(w.wait[x])
    BY <1>5
  <2> QED BY <1>1, <1>3, <1>4, <1>5, <2>1, <2>2 DEF Rested
<1> QED BY <1>2, <1>3, <1>4, <1>6, SaneRested

\* rt_thread_sleep on sound lists
LEMMA SleepSane ==
    ASSUME NEW s, Sane(s), Lock(s), NEW t \in Threads \ {Idle}, s.q.stat[t] = "ready",
           NEW r, r = Requeued(s, Suspended(s.q, t), s.armed \union {t})
    PROVE  Sane(r) /\ Rested(s, r, t)
<1> DEFINE w == Suspended(s.q, t)
           a == s.armed \union {t}
<1>1. s \in Kernel /\ s.q \in Queues /\ QueuesSound(s.q) /\ "lock" \in Objects
      /\ a \in SUBSET Threads
  BY KernelParts, SensorAssumption DEF Sane
<1>2. /\ w \in Queues /\ QueuesSound(w) /\ w.prio = s.q.prio
      /\ w.stat = [s.q.stat EXCEPT ![t] = "suspend"]
      /\ \A o \in Objects : Range(w.wait[o]) = Range(s.q.wait[o])
  BY <1>1, SuspendLemma
<1> HIDE DEF w, a
<1>3. r = Requeued(s, w, a) /\ Range(w.wait["lock"]) \subseteq Range(s.q.wait["lock"])
  BY <1>1, <1>2 DEF w, a
<1>4. r \in Kernel /\ SameLock(s, r) /\ r.q = w /\ r.current = s.current
  BY <1>1, <1>2, <1>3, RequeuedLemma
<1>5. r.armed = a
  BY <1>1, <1>3 DEF Requeued, Kernel
<1>6. \A x \in Threads : w.stat[x] = IF x = t THEN "suspend" ELSE s.q.stat[x]
  BY <1>1, <1>2 DEF Queues
<1>7. Rested(s, r, t)
  BY <1>1, <1>2, <1>4, <1>5, <1>6 DEF Rested, a
<1> QED BY <1>2, <1>4, <1>7, SaneRested

\* The fields of the lock that rt_mutex_take and rt_mutex_release change for the
\* thread that owns it already.
LEMMA TakenRest ==
    ASSUME NEW s \in Kernel, Lock(s), NEW t \in Threads, ~MustWait(s, t),
           NEW r, r = Taken(s, t)
    PROVE  r.armed = s.armed /\ (s.owner = t => r.orig = s.orig)
<1> DEFINE e == Faulted(s, t, "ok")
<1>1. e \in Kernel /\ e.armed = s.armed /\ e.orig = s.orig /\ e.hold \in Nat
  <2>1. "ok" \in Errors
    BY DEF Errors
  <2>2. e \in Kernel /\ SameLock(s, e) /\ e.armed = s.armed
    BY <2>1, FaultedLemma
  <2> QED BY <2>2, KernelParts DEF SameLock
<1>2. r = IF s.owner = t THEN [e EXCEPT !.hold = e.hold + 1]
          ELSE IF s.value > 0
          THEN [e EXCEPT !.value = e.value - 1, !.owner = t, !.orig = s.q.prio[t],
                         !.hold = e.hold + 1]
          ELSE [e EXCEPT !.q = WaitPrio(Boosted(s.q, t, s.owner), "lock", t),
                         !.armed = Disarmed(s, t)]
  BY DEF Taken, Faulted
<1> HIDE DEF e
<1>3. CASE s.owner = t
  <2>1. r = [e EXCEPT !.hold = e.hold + 1]
    BY <1>2, <1>3
  <2> QED BY <1>1, <2>1 DEF Kernel
<1>4. CASE s.owner # t
  <2>1. s.value > 0
    BY <1>4, KernelParts DEF MustWait
  <2>2. r = [e EXCEPT !.value = e.value - 1, !.owner = t, !.orig = s.q.prio[t],
                      !.hold = e.hold + 1]
    BY <1>2, <1>4, <2>1
  <2> QED BY <1>1, <1>4, <2>2 DEF Kernel
<1> QED BY <1>3, <1>4

\* A release that leaves no owner gives back the priority and takes no waiter.
LEMMA ReleasedRest ==
    ASSUME NEW s \in Kernel, Lock(s), NEW t \in Threads, s.owner = t,
           NEW r, r = Released(s, t)
    PROVE  /\ s.hold > 1 => r.armed = s.armed /\ r.orig = s.orig /\ r.hold = s.hold - 1
           /\ s.hold = 1 /\ s.q.wait["lock"] = <<>> /\ s.orig = s.q.prio[t]
                 => r.armed = s.armed
<1>1. CASE s.hold > 1
  <2>1. r = [s EXCEPT !.hold = s.hold - 1]
    BY <1>1 DEF Released
  <2> QED BY <1>1, <2>1 DEF Kernel
<1>2. CASE s.hold = 1 /\ s.q.wait["lock"] = <<>> /\ s.orig = s.q.prio[t]
  <2>1. r = [s EXCEPT !.q = s.q, !.hold = 0, !.value = s.value + 1,
                      !.owner = NoThread, !.orig = MaxPrio + 1]
    BY <1>2 DEF Released
  <2> QED BY <1>2, <2>1 DEF Kernel
<1> QED BY <1>1, <1>2

\* A wait for the lock: its owner may inherit the priority of the waiter.
Blocked(s, r, t) ==
    /\ SameLock(s, r) /\ r.current = s.current
    /\ \A x \in Threads : r.q.prio[x] =
          IF x = s.owner /\ s.q.prio[t] < s.q.prio[x] THEN s.q.prio[t] ELSE s.q.prio[x]
    /\ \A x \in Threads : r.q.stat[x] = IF x = t THEN "suspend" ELSE s.q.stat[x]
    /\ Range(r.q.wait["lock"]) = Range(s.q.wait["lock"]) \union {t}

\* The owner is raised to the priority of who comes to wait.
LEMMA BlockedSane ==
    ASSUME NEW s, Sane(s), Lock(s), NEW t \in Threads \ {Idle}, s.q.stat[t] = "ready",
           MustWait(s, t), NEW r, r = Taken(s, t)
    PROVE  Sane(r) /\ Blocked(s, r, t)
<1> DEFINE b == Boosted(s.q, t, s.owner)
           w == WaitPrio(b, "lock", t)
           a == Disarmed(s, t)
           e == Faulted(s, t, "ok")
<1>1. s \in Kernel /\ s.q \in Queues /\ QueuesSound(s.q) /\ "lock" \in Objects
      /\ s.owner \in Threads /\ s.owner # t /\ s.value = 0
  <2>1. s.owner # NoThread
    BY DEF MustWait, Lock
  <2> QED BY <2>1, KernelParts, SensorAssumption DEF Sane, MustWait
<1>2. /\ b \in Queues /\ QueuesSound(b) /\ b.stat = s.q.stat /\ b.wait = s.q.wait
      /\ \A x \in Threads : b.prio[x] =
            IF x = s.owner /\ s.q.prio[t] < s.q.prio[x] THEN s.q.prio[t] ELSE s.q.prio[x]
  <2>1. CASE s.q.prio[t] < s.q.prio[s.owner]
    <3>1. b = Reprioritised(s.q, s.owner, s.q.prio[t]) /\ s.q.prio[t] \in Prios
      BY <1>1, <2>1 DEF Boosted, Queues
    <3> HIDE DEF b
    <3>2. /\ b \in Queues /\ QueuesSound(b) /\ b.stat = s.q.stat /\ b.wait = s.q.wait
          /\ b.prio = [s.q.prio EXCEPT ![s.owner] = s.q.prio[t]]
      BY <1>1, <3>1, ReprioritisedLemma
    <3> QED BY <1>1, <2>1, <3>2 DEF Queues
  <2>2. CASE ~(s.q.prio[t] < s.q.prio[s.owner])
    BY <1>1, <2>2 DEF Boosted
  <2> QED BY <2>1, <2>2
<1> HIDE DEF b
<1>3. w \in Queues /\ QueuesSound(w) /\ Queued(b, w, "lock", t)
  BY <1>1, <1>2, WaitPrioLemma
<1> HIDE DEF w
<1>4. r = [e EXCEPT !.q = w, !.armed = a]
  BY <1>1 DEF Taken, Faulted, b, w, a
<1>5. e \in Kernel /\ SameLock(s, e) /\ e.current = s.current
      /\ a \in SUBSET Threads /\ s.armed \ {t} \subseteq a
  <2>1. "ok" \in Errors
    BY DEF Errors
  <2> QED BY <1>1, <2>1, FaultedLemma, DisarmedLemma
<1> HIDE DEF e, a
<1>6. r \in Kernel /\ r.q = w /\ SameLock(e, r) /\ r.current = e.current /\ r.armed = a
  BY <1>3, <1>4, <1>5 DEF Kernel, SameLock
<1>7. SameLock(s, r) /\ r.current = s.current /\ s.armed \ {t} \subseteq r.armed
  BY <1>5, <1>6 DEF SameLock
<1>8. /\ \A x \in Threads : w.stat[x] = IF x = t THEN "suspend" ELSE s.q.stat[x]
      /\ w.prio = b.prio
      /\ \A o \in Objects : Range(s.q.wait[o]) \subseteq Range(w.wait[o])
      /\ Range(w.wait["lock"]) = Range(s.q.wait["lock"]) \union {t}
  BY <1>1, <1>2, <1>3 DEF Queued, Queues
<1>9. Blocked(s, r, t)
  BY <1>2, <1>6, <1>7, <1>8 DEF Blocked
<1>10. r.q.stat[Idle] = "ready"
  BY <1>6, <1>8, PlaceLemma DEF Sane
<1>11. Asleep(r)
  <2> SUFFICES ASSUME NEW x \in Threads, r.q.stat[x] = "suspend"
               PROVE  x \in r.armed \/ \E o \in Objects : x \in Range(r.q.wait[o])
    BY DEF Asleep
  <2>1. CASE x = t
    BY <1>1, <1>6, <1>8, <2>1
  <2>2. CASE x # t
    <3>1. s.q.stat[x] = "suspend"
      BY <1>6, <1>8, <2>2
    <3>2. x \in s.armed \/ \E o \in Objects : x \in Range(s.q.wait[o])
      BY <3>1 DEF Sane, Asleep
    <3>3. CASE x \in s.armed
      BY <1>7, <2>2, <3>3
    <3>4. CASE \E o \in Objects : x \in Range(s.q.wait[o])
      BY <1>6, <1>8, <3>4
    <3> QED BY <3>2, <3>3, <3>4
  <2> QED BY <2>1, <2>2
<1> QED BY <1>3, <1>6, <1>9, <1>10, <1>11 DEF Sane

\* The end of a section: the owner has its own priority again, and the lock passes
\* to a waiter, or to nobody.
Passes(s, r, t) ==
    /\ r.current = s.current
    /\ \A x \in Threads : r.q.prio[x] = IF x = t THEN s.orig ELSE s.q.prio[x]
    /\ Range(r.q.wait["lock"]) \subseteq Range(s.q.wait["lock"])
    /\ s.q.stat[t] = "ready" => r.q.stat[t] = "ready"
    /\ \/ r.owner = NoThread /\ Range(s.q.wait["lock"]) = {}
          /\ (s.orig = s.q.prio[t] => r.q = s.q)
       \/ r.owner \in Range(s.q.wait["lock"]) /\ r.owner # t /\ r.hold = 1
          /\ r.orig = s.q.prio[r.owner]

\* The lock passes to the first waiter, and a raised owner gets its own priority back.
LEMMA PassesSane ==
    ASSUME NEW s, Sane(s), Lock(s), NEW t \in Threads, s.q.stat[t] = "ready",
           s.owner = t, s.hold = 1, NEW r, r = Released(s, t)
    PROVE  Sane(r) /\ Passes(s, r, t)
<1> DEFINE w == IF s.orig # s.q.prio[t] THEN Reprioritised(s.q, t, s.orig) ELSE s.q
<1>1. s \in Kernel /\ s.q \in Queues /\ QueuesSound(s.q) /\ "lock" \in Objects
      /\ s.orig \in Prios /\ s.value = 0 /\ Idle \in Threads
  BY KernelParts, SensorAssumption, PlaceLemma, QueueAssumption DEF Sane, Lock
<1>2. /\ w \in Queues /\ QueuesSound(w) /\ w.stat = s.q.stat /\ w.wait = s.q.wait
      /\ \A x \in Threads : w.prio[x] = IF x = t THEN s.orig ELSE s.q.prio[x]
      /\ s.orig = s.q.prio[t] => w = s.q
  <2>1. CASE s.orig # s.q.prio[t]
    <3>1. w = Reprioritised(s.q, t, s.orig)
      BY <2>1
    <3> HIDE DEF w
    <3>2. /\ w \in Queues /\ QueuesSound(w) /\ w.stat = s.q.stat /\ w.wait = s.q.wait
          /\ w.prio = [s.q.prio EXCEPT ![t] = s.orig]
      BY <1>1, <3>1, ReprioritisedLemma
    <3> QED BY <1>1, <2>1, <3>2 DEF Queues
  <2>2. CASE s.orig = s.q.prio[t]
    BY <1>1, <2>2
  <2> QED BY <2>1, <2>2
<1>3. r = IF w.wait["lock"] = <<>>
          THEN [s EXCEPT !.q = w, !.hold = 0, !.value = s.value + 1,
                         !.owner = NoThread, !.orig = MaxPrio + 1]
          ELSE Woken([s EXCEPT !.q = w, !.owner = Head(w.wait["lock"]),
                               !.orig = w.prio[Head(w.wait["lock"])]],
                     Head(w.wait["lock"]))
  BY DEF Released
<1> HIDE DEF w
<1>4. w.wait["lock"] \in Seq(Threads)
  BY <1>1, <1>2 DEF Queues
<1>5. r \in Kernel
  BY <1>1, ReleasedLemma
<1>6. CASE w.wait["lock"] = <<>>
  <2>1. r = [s EXCEPT !.q = w, !.hold = 0, !.value = s.value + 1,
                      !.owner = NoThread, !.orig = MaxPrio + 1]
    BY <1>3, <1>6
  <2>2. /\ r.q = w /\ r.owner = NoThread /\ r.current = s.current /\ r.armed = s.armed
    BY <1>1, <2>1 DEF Kernel
  <2>3. Range(s.q.wait["lock"]) = {} /\ Range(w.wait["lock"]) = {}
    BY <1>2, <1>4, <1>6, EmptyLemma
  <2>4. Passes(s, r, t)
    BY <1>2, <2>2, <2>3 DEF Passes
  <2>5. Asleep(r)
    BY <1>2, <2>2 DEF Sane, Asleep
  <2> QED BY <1>2, <1>5, <2>2, <2>4, <2>5 DEF Sane
<1>7. CASE w.wait["lock"] # <<>>
  <2> DEFINE u == Head(w.wait["lock"])
             m == [s EXCEPT !.q = w, !.owner = u, !.orig = w.prio[u]]
  <2>1. r = Woken(m, u)
    BY <1>3, <1>7
  <2>2. u \in Threads /\ u \in Range(w.wait["lock"])
    BY <1>4, <1>7, EmptyLemma
  <2> HIDE DEF u
  <2>3. w.prio[u] \in Prios /\ u # NoThread
    BY <1>2, <2>2, QueueAssumption DEF Queues
  <2>4. /\ m.q = w /\ m.owner = u /\ m.value = s.value /\ m.orig = w.prio[u]
        /\ m.current = s.current /\ m.hold = s.hold /\ m.armed = s.armed
    BY <1>1 DEF Kernel
  <2>5. m \in Kernel
    BY <1>1, <1>2, <2>2, <2>3 DEF Kernel
  <2> HIDE DEF m
  <2>6. Lock(m)
    BY <1>1, <2>3, <2>4 DEF Lock
  <2>7. w.stat[u] = "suspend"
    BY <1>1, <1>2, <2>2 DEF QueuesSound, ListsSound
  <2>8. Sane(m)
    <3>1. Asleep(m)
      BY <1>2, <2>4 DEF Sane, Asleep
    <3> QED BY <1>2, <2>4, <2>5, <3>1 DEF Sane
  <2>9. Sane(r) /\ Roused(m, r, {u})
    BY <2>1, <2>2, <2>4, <2>6, <2>7, <2>8, WokenSane
  <2>10. u # t /\ w.prio[u] = s.q.prio[u]
    BY <1>2, <2>2, <2>7
  <2>11. /\ r.current = s.current /\ r.owner = u /\ r.hold = 1 /\ r.orig = s.q.prio[u]
         /\ r.q.prio = w.prio
         /\ Range(r.q.wait["lock"]) \subseteq Range(s.q.wait["lock"])
         /\ s.q.stat[t] = "ready" => r.q.stat[t] = "ready"
    BY <1>1, <1>2, <2>4, <2>9, <2>10 DEF Roused, SameLock
  <2>12. Passes(s, r, t)
    BY <1>2, <2>2, <2>10, <2>11 DEF Passes
  <2> QED BY <2>9, <2>12
<1> QED BY <1>6, <1>7

-----------------------------------------------------------------------------
(* What a step does to the order                                            *)

\* A thread that is not about to call rt_schedule is on no suspend list.
LEMMA RunningFree ==
    ASSUME NEW s, Sane(s), NEW l, Running(s, l), s.current \notin l
    PROVE  /\ s.current \in Threads /\ s.q.stat[s.current] = "ready"
           /\ s.current \notin Range(s.q.wait["lock"])
           /\ Range(s.q.wait["lock"]) \subseteq Threads
<1>1. "lock" \in Objects /\ s.q \in Queues /\ QueuesSound(s.q)
  BY SensorAssumption, KernelParts DEF Sane
<1>2. s.current \in Threads /\ s.q.stat[s.current] = "ready"
  BY DEF Running
<1>3. s.q.wait["lock"] \in Seq(Threads)
  BY <1>1 DEF Queues
<1>4. Range(s.q.wait["lock"]) \subseteq Threads
  BY <1>3, EmptyLemma
<1> QED BY <1>1, <1>2, <1>4 DEF QueuesSound, ListsSound

\* A handler that leaves the lists and the lock alone
LEMMA StayOrderly ==
    ASSUME NEW s, NEW p, NEW l, NEW c, Orderly(s, p, l, c),
           NEW r \in Kernel, SameKernel(s, r), r.current = s.current
    PROVE  Orderly(r, p, l, c)
<1>1. Sane(r)
  BY SaneSame DEF Orderly
<1>2. Running(r, l) /\ Ranked(r, c) /\ Foremost(r, p, l, c)
  BY DEF Orderly, SameKernel, Running, Ranked, Foremost, Leads
<1>3. Holds(r, p) /\ Waits(r, p)
  BY DEF Orderly, SameKernel, Holds, Waits
<1> QED BY <1>1, <1>2, <1>3 DEF Orderly

\* A step of the running thread, from the place n to the place m, that leaves them
\* alone
Moved(p, r, t, n, m) ==
    p[t] = n /\ \A x \in Threads : r[x] = IF x = t THEN m ELSE p[x]

\* Such a step keeps the order when it stays in its section while it owns the lock.
LEMMA MoveOrderly ==
    ASSUME NEW s, NEW p, NEW l, NEW c, Orderly(s, p, l, c),
           NEW r \in Kernel, SameKernel(s, r), r.current = s.current,
           s.current \notin l, NEW q, NEW n, NEW m, Moved(p, q, s.current, n, m),
           n \notin {"report", "print"},
           s.owner = s.current /\ n \in {"taking", "read"} => m \in {"taking", "read"}
    PROVE  Orderly(r, q, l, c)
<1>1. Orderly(r, p, l, c)
  BY StayOrderly
<1>2. /\ r.current \in Threads /\ r.current \notin Range(r.q.wait["lock"])
      /\ Range(r.q.wait["lock"]) \subseteq Threads
  BY <1>1, RunningFree DEF Orderly
<1>3. Foremost(r, q, l, c)
  BY <1>1, <1>2 DEF Orderly, Foremost, Moved
<1>4. Holds(r, q)
  <2> SUFFICES ASSUME r.owner # NoThread
               PROVE  r.hold = 1 /\ r.orig = Base[r.owner] /\ q[r.owner] \in {"taking", "read"}
    BY DEF Holds
  <2>1. /\ r.hold = 1 /\ r.orig = Base[r.owner] /\ p[r.owner] \in {"taking", "read"}
        /\ r.owner \in Threads
    BY <1>1, KernelParts DEF Orderly, Holds
  <2>2. CASE r.owner = s.current
    <3>1. p[r.owner] = n /\ q[r.owner] = m /\ r.owner = s.owner
      BY <2>1, <2>2 DEF Moved, SameKernel
    <3> QED BY <2>1, <2>2, <3>1
  <2>3. CASE r.owner # s.current
    BY <2>1, <2>3 DEF Moved
  <2> QED BY <2>2, <2>3
<1>5. Waits(r, q)
  BY <1>1, <1>2 DEF Orderly, Waits, Moved
<1> QED BY <1>1, <1>3, <1>4, <1>5 DEF Orderly

\* Threads are woken, and rt_schedule switches to the most urgent.  The code of the
\* running thread may have gone on, outside of any section.
LEMMA RousedOrderly ==
    ASSUME NEW s, NEW l, NEW c, Orderly(s, pc, l, c),
           NEW m, Sane(m), Lock(m), NEW S, Roused(s, m, S),
           NEW r, r = Scheduled(m), NEW d, c \subseteq d,
           \A x \in S : x \in Range(s.q.wait["lock"]) => <<x, "lock">> \in d,
           NEW q,
           \A x \in Threads : q[x] = pc[x] \/ (x = s.current /\ pc[x] = "send")
    PROVE  Orderly(r, q, l, d)
<1>1. /\ Sane(r) /\ SameKernel(m, r)
      /\ \/ r.current = m.current /\ Printing(m.current)
         \/ ~Printing(m.current) /\ Leads(r)
            /\ r.current \in Threads /\ r.q.stat[r.current] = "ready"
  BY ScheduledSane
<1>2. /\ r.owner = s.owner /\ (s.owner # NoThread => r.hold = s.hold /\ r.orig = s.orig)
      /\ r.q.prio = s.q.prio /\ m.current = s.current /\ "lock" \in Objects
      /\ \A x \in Threads : r.q.stat[x] = IF x \in S THEN "ready" ELSE s.q.stat[x]
      /\ \A o \in Objects : Range(r.q.wait[o]) = Range(s.q.wait[o]) \ S
  BY <1>1, SensorAssumption DEF Roused, SameKernel, SameLock
<1>3. /\ Running(s, l) /\ Ranked(s, c) /\ Foremost(s, pc, l, c)
      /\ Holds(s, pc) /\ Waits(s, pc) /\ s \in Kernel
  BY DEF Orderly, Sane
<1>4. Running(r, l)
  BY <1>1, <1>2, <1>3 DEF Running
<1>5. Ranked(r, d)
  BY <1>2, <1>3 DEF Ranked
<1>6. Foremost(r, q, l, d)
  <2>1. CASE r.current = m.current /\ Printing(m.current)
    <3>1. q[r.current] = pc[r.current] /\ pc[r.current] \in {"report", "print"}
      BY <1>2, <1>3, <2>1 DEF Printing, Running
    <3> QED BY <3>1 DEF Foremost
  <2>2. CASE Leads(r)
    BY <2>2 DEF Foremost
  <2> QED BY <1>1, <2>1, <2>2
<1>7. Holds(r, q)
  <2> SUFFICES ASSUME s.owner # NoThread
               PROVE  s.hold = 1 /\ s.orig = Base[s.owner] /\ q[s.owner] \in {"taking", "read"}
    BY <1>2 DEF Holds
  <2>1. s.hold = 1 /\ s.orig = Base[s.owner] /\ pc[s.owner] \in {"taking", "read"}
        /\ s.owner \in Threads
    BY <1>3, KernelParts DEF Holds
  <2> QED BY <2>1
<1>8. Waits(r, q)
  <2> SUFFICES ASSUME NEW x \in Range(r.q.wait["lock"]) PROVE q[x] = "taking"
    BY DEF Waits
  <2>1. x \in Range(s.q.wait["lock"])
    BY <1>2
  <2>2. s.q.wait["lock"] \in Seq(Threads)
    BY <1>2, <1>3, KernelParts DEF Queues
  <2>3. x \in Threads /\ pc[x] = "taking"
    BY <1>3, <2>1, <2>2, EmptyLemma DEF Waits
  <2> QED BY <2>3
<1> QED BY <1>1, <1>4, <1>5, <1>6, <1>7, <1>8 DEF Orderly

\* The running thread suspends itself, outside of any section.
LEMMA RestedOrderly ==
    ASSUME NEW s, NEW p, NEW l, NEW c, Orderly(s, p, l, c), s.current \notin l,
           NEW r, Sane(r), Rested(s, r, s.current),
           NEW q, NEW n, NEW m, Moved(p, q, s.current, n, m), n \notin {"taking", "read"}
    PROVE  Orderly(r, q, l \union {s.current}, c)
<1> DEFINE t == s.current
<1>1. /\ Running(s, l) /\ Ranked(s, c) /\ Holds(s, p) /\ Waits(s, p) /\ s \in Kernel
  BY DEF Orderly, Sane
<1>2. /\ t \in Threads /\ t \notin Range(s.q.wait["lock"])
      /\ Range(s.q.wait["lock"]) \subseteq Threads
  BY RunningFree DEF Orderly
<1>3. /\ SameLock(s, r) /\ r.current = t /\ r.q.prio = s.q.prio
      /\ Range(r.q.wait["lock"]) = Range(s.q.wait["lock"])
  BY DEF Rested
<1>4. Running(r, l \union {t}) /\ Foremost(r, q, l \union {t}, c)
  BY <1>2, <1>3 DEF Running, Foremost
<1>5. Ranked(r, c)
  BY <1>1, <1>3 DEF Ranked, SameLock
<1>6. Holds(r, q)
  <2> SUFFICES ASSUME s.owner # NoThread
               PROVE  s.hold = 1 /\ s.orig = Base[s.owner] /\ q[s.owner] \in {"taking", "read"}
    BY <1>3 DEF Holds, SameLock
  <2>1. s.hold = 1 /\ s.orig = Base[s.owner] /\ p[s.owner] \in {"taking", "read"}
        /\ s.owner \in Threads
    BY <1>1, KernelParts DEF Holds
  <2> QED BY <2>1 DEF Moved
<1>7. Waits(r, q)
  BY <1>1, <1>2, <1>3 DEF Waits, Moved
<1> QED BY <1>4, <1>5, <1>6, <1>7 DEF Orderly

\* rt_schedule of a thread that was about to call it, and at the end of a line
LEMMA SwitchedOrderly ==
    ASSUME NEW s, NEW p, NEW l, NEW c, Orderly(s, p, l, c),
           NEW r, Sane(r), SameKernel(s, r), Leads(r),
           r.current \in Threads, r.q.stat[r.current] = "ready",
           NEW q, \A x \in Threads : p[x] \in {"taking", "read"} => q[x] = p[x], NEW m
    PROVE  Orderly(r, q, m, c)
<1>1. /\ Ranked(s, c) /\ Holds(s, p) /\ Waits(s, p) /\ s \in Kernel /\ "lock" \in Objects
  BY SensorAssumption DEF Orderly, Sane
<1>2. r.q = s.q /\ r.owner = s.owner
      /\ (s.owner # NoThread => r.hold = s.hold /\ r.orig = s.orig)
  BY DEF SameKernel
<1>3. Running(r, m) /\ Foremost(r, q, m, c)
  BY DEF Running, Foremost
<1>4. Ranked(r, c)
  BY <1>1, <1>2 DEF Ranked
<1>5. Holds(r, q)
  BY <1>1, <1>2, KernelParts DEF Holds
<1>6. Waits(r, q)
  <2>1. s.q.wait["lock"] \in Seq(Threads)
    BY <1>1, KernelParts DEF Queues
  <2> QED BY <1>1, <1>2, <2>1, EmptyLemma DEF Waits
<1> QED BY <1>3, <1>4, <1>5, <1>6 DEF Orderly

-----------------------------------------------------------------------------
(* The steps keep the order                                                 *)

\* The priorities of the two threads that share the lock
LEMMA BaseOrder == Base[Bright] = 1 /\ Base[Temper] = 2
  BY PlaceLemma, DistinctLemma DEF Base

\* Where the running thread and the owner of the lock are.
LEMMA OrderFrom ==
    ASSUME Inv, Ordered, NEW t \in Threads, NEW n, NEW m \in Place(t),
           Step(t, n, m), n # "idle"
    PROVE  /\ Moved(pc, pc', k.current, n, m) /\ k.current = t /\ t \notin late
           /\ n \in Place(t) /\ t \in Threads \ {Idle}
           /\ k.q.stat[t] = "ready" /\ t \notin Range(k.q.wait["lock"])
           /\ Sane(k) /\ Lock(k) /\ k \in Kernel
           /\ k.owner # NoThread => k.owner \in {Bright, Temper}
<1>1. /\ \A x \in Threads : pc'[x] = IF x = t THEN m ELSE pc[x]
      /\ pc[t] = n /\ n \in Place(t) /\ k.current = t /\ t \notin late
  BY StepLemma
<1>2. Sane(k) /\ Running(k, late) /\ Holds(k, pc) /\ k \in Kernel /\ Lock(k)
  BY DEF Ordered, Orderly, Sane, Inv
<1>3. k.q.stat[t] = "ready" /\ t \notin Range(k.q.wait["lock"])
  BY <1>1, <1>2, RunningFree
<1>4. k.owner # NoThread => k.owner \in {Bright, Temper}
  <2> SUFFICES ASSUME k.owner # NoThread PROVE k.owner \in {Bright, Temper}
    OBVIOUS
  <2>1. k.owner \in Threads /\ pc[k.owner] \in {"taking", "read"}
    BY <1>2, KernelParts DEF Holds
  <2>2. pc[k.owner] \in Place(k.owner)
    BY <2>1 DEF Inv, Placed
  <2> QED BY <2>1, <2>2, WhoLemma
<1>5. t # Idle
  BY <1>1, PlaceLemma
<1> QED BY <1>1, <1>2, <1>3, <1>4, <1>5 DEF Moved

\* rt_mutex_take
LEMMA TakeOrdered ==
    ASSUME Inv, Ordered, NEW t \in Threads, Take(t)
    PROVE  Ordered'
<1> DEFINE n == IF MustWait(k, t) THEN "taking" ELSE "read"
<1>1. /\ Step(t, "take", n) /\ k' = Taken(k, t)
      /\ late' = IF MustWait(k, t) THEN late \union {t} ELSE late
      /\ cut' = cut \ {<<t, "lock">>, <<t, "mq">>}
  BY DEF Take, CallSchedule
<1>2. t \in {Bright, Temper} /\ n \in Place(t)
  BY <1>1, FromLemma, WhoLemma, PlaceLemma
<1>3. n = "taking" <=> MustWait(k, t)
  OBVIOUS
<1>4. n \in {"taking", "read"}
  OBVIOUS
<1> HIDE DEF n
<1>5. /\ Moved(pc, pc', t, "take", n) /\ k.current = t /\ t \notin late
      /\ t \in Threads \ {Idle} /\ k.q.stat[t] = "ready"
      /\ t \notin Range(k.q.wait["lock"]) /\ Sane(k) /\ Lock(k) /\ k \in Kernel
      /\ k.owner # NoThread => k.owner \in {Bright, Temper}
  BY <1>1, <1>2, OrderFrom
<1>6. /\ Running(k, late) /\ Ranked(k, cut) /\ Foremost(k, pc, late, cut)
      /\ Holds(k, pc) /\ Waits(k, pc)
  BY DEF Ordered, Orderly
<1>7. k.owner # t /\ t # NoThread
  BY <1>5, <1>6, QueueAssumption DEF Holds, Moved
<1>8. Range(k.q.wait["lock"]) \subseteq Threads
  BY <1>5, <1>6, RunningFree
<1>9. CASE MustWait(k, t)
  <2>1. Sane(k') /\ Blocked(k, k', t)
    BY <1>1, <1>5, <1>9, BlockedSane
  <2>2. /\ k'.owner = k.owner /\ k'.hold = k.hold /\ k'.orig = k.orig /\ k'.current = t
        /\ Range(k'.q.wait["lock"]) = Range(k.q.wait["lock"]) \union {t}
    BY <1>5, <2>1 DEF Blocked, SameLock
  <2>3. t \in late'
    BY <1>1, <1>9
  <2>4. Running(k', late') /\ Foremost(k', pc', late', cut')
    BY <2>2, <2>3 DEF Running, Foremost
  <2>5. k.owner # NoThread
    BY <1>5, <1>9, KernelParts DEF MustWait, Lock
  <2>6. Ranked(k', cut')
    <3>1. CASE t = Bright
      <4>1. k.owner = Temper
        BY <1>5, <1>7, <2>5, <3>1
      <4>2. \A x \in Threads : x # Temper => k'.q.prio[x] = k.q.prio[x]
        BY <2>1, <4>1 DEF Blocked
      <4> QED BY <1>6, <2>2, <3>1, <4>1, <4>2 DEF Ranked
    <3>2. CASE t = Temper
      <4>1. k.owner = Bright /\ Bright # Temper /\ Bright \in Threads
        BY <1>5, <1>7, <2>5, <3>2, PlaceLemma
      <4>2. \A x \in Threads : k.q.prio[x] = Base[x]
        BY <1>6, <4>1 DEF Ranked
      <4>3. ~(k.q.prio[t] < k.q.prio[Bright])
        BY <3>2, <4>1, <4>2, BaseOrder
      <4>4. \A x \in Threads : k'.q.prio[x] = k.q.prio[x]
        BY <2>1, <4>1, <4>3 DEF Blocked
      <4> QED BY <4>2, <4>4 DEF Ranked
    <3> QED BY <1>2, <3>1, <3>2
  <2>7. Holds(k', pc')
    <3>1. pc'[k.owner] = pc[k.owner]
      BY <1>5, <1>7, <2>5, PlaceLemma DEF Moved
    <3> QED BY <1>6, <2>2, <3>1 DEF Holds
  <2>8. Waits(k', pc')
    BY <1>3, <1>5, <1>6, <1>8, <1>9, <2>2 DEF Waits, Moved
  <2> QED BY <2>1, <2>4, <2>6, <2>7, <2>8 DEF Ordered, Orderly
<1>10. CASE ~MustWait(k, t)
  <2>1. /\ k' \in Kernel /\ k'.current = k.current /\ k'.q = k.q /\ k'.owner = t
        /\ k.owner \in {t, NoThread}
        /\ k.owner = NoThread => k'.hold = 1 /\ k'.orig = k.q.prio[t]
    <3>1. k' = Taken(k, t)
      BY <1>1
    <3>2. k \in Kernel /\ Lock(k)
      BY <1>5
    <3>3. k' \in Kernel /\ k'.current = k.current
      BY <3>1, <3>2, TakenLemma
    <3>4. /\ k'.q = k.q /\ k'.owner = t /\ k.owner \in {t, NoThread}
          /\ k.owner = NoThread => k'.hold = 1 /\ k'.orig = k.q.prio[t]
      BY <1>10, <3>1, <3>2, TakenLemma
    <3> QED BY <3>3, <3>4
  <2>2. k'.armed = k.armed
    <3>1. k' = Taken(k, t)
      BY <1>1
    <3>2. k \in Kernel /\ Lock(k)
      BY <1>5
    <3> QED BY <1>10, <3>1, <3>2, TakenRest
  <2>3. k.owner = NoThread /\ late' = late
    BY <1>1, <1>7, <1>10, <2>1
  <2>4. \A x \in Threads : k.q.prio[x] = Base[x]
    <3>1. Temper \in Threads /\ Temper # NoThread
      BY PlaceLemma, QueueAssumption
    <3> QED BY <1>6, <2>3, <3>1 DEF Ranked
  <2>5. Sane(k')
    BY <1>5, <2>1, <2>2 DEF Sane, Asleep
  <2>6. Running(k', late') /\ Ranked(k', cut')
    BY <1>6, <2>1, <2>3, <2>4 DEF Running, Ranked
  <2>7. Foremost(k', pc', late', cut')
    <3>1. (k.current = Temper /\ <<Bright, "lock">> \in cut) \/ Leads(k)
      BY <1>5, <1>6 DEF Foremost, Moved
    <3>2. t = Temper /\ <<Bright, "lock">> \in cut => <<Bright, "lock">> \in cut'
      BY <1>1, PlaceLemma
    <3>3. Leads(k) => Leads(k')
      BY <2>1 DEF Leads
    <3> QED BY <1>5, <2>1, <3>1, <3>2, <3>3 DEF Foremost
  <2>8. Holds(k', pc')
    <3>1. pc'[t] = n
      BY <1>5 DEF Moved
    <3> QED BY <1>4, <1>5, <2>1, <2>3, <2>4, <3>1 DEF Holds
  <2>9. Waits(k', pc')
    BY <1>5, <1>6, <1>8, <2>1 DEF Waits, Moved
  <2> QED BY <2>5, <2>6, <2>7, <2>8, <2>9 DEF Ordered, Orderly
<1> QED BY <1>9, <1>10

\* rt_mutex_release
LEMMA ReleaseOrdered ==
    ASSUME Inv, Ordered, NEW t \in Threads, Release(t)
    PROVE  Ordered'
<1> DEFINE n == IF t = Bright THEN "recv" ELSE "send"
<1>1. /\ Step(t, "read", n) /\ k' = Released(k, t)
      /\ late' = IF WillWake(k, t) THEN late \union {t} ELSE late
      /\ cut' = cut
  BY DEF Release, CallSchedule, history
<1>2. t \in {Bright, Temper} /\ n \in Place(t) /\ n \in {"recv", "send"}
  BY <1>1, FromLemma, WhoLemma, PlaceLemma
<1> HIDE DEF n
<1>3. /\ Moved(pc, pc', t, "read", n) /\ k.current = t /\ t \notin late
      /\ t \in Threads \ {Idle} /\ k.q.stat[t] = "ready"
      /\ t \notin Range(k.q.wait["lock"]) /\ Sane(k) /\ Lock(k) /\ k \in Kernel
  BY <1>1, <1>2, OrderFrom
<1>4. /\ Running(k, late) /\ Ranked(k, cut) /\ Foremost(k, pc, late, cut)
      /\ Holds(k, pc) /\ Waits(k, pc)
  BY DEF Ordered, Orderly
<1>5. CASE k.owner # t
  <2>1. k' = Faulted(k, t, "error")
    BY <1>1, <1>5 DEF Released, Faulted
  <2>2. "error" \in Errors
    BY DEF Errors
  <2>3. k' \in Kernel /\ SameLock(k, k') /\ k'.q = k.q /\ k'.current = k.current
        /\ k'.armed = k.armed
    BY <1>3, <2>1, <2>2, FaultedLemma
  <2>4. SameKernel(k, k')
    BY <2>3 DEF SameKernel, SameLock
  <2>5. late' = late
    BY <1>1, <1>5 DEF WillWake
  <2>6. Orderly(k, pc, late, cut)
    BY DEF Ordered
  <2>7. Moved(pc, pc', k.current, "read", n)
    BY <1>3
  <2>8. Orderly(k', pc', late, cut)
    BY <1>3, <1>5, <2>3, <2>4, <2>6, <2>7, MoveOrderly
  <2> QED BY <1>1, <2>5, <2>8 DEF Ordered
<1>6. CASE k.owner = t
  <2>1. k.hold = 1 /\ k.orig = Base[t] /\ t # NoThread
    BY <1>3, <1>4, <1>6, QueueAssumption DEF Holds
  <2>2. Sane(k') /\ Passes(k, k', t)
    BY <1>1, <1>3, <1>6, <2>1, PassesSane
  <2>3. \A x \in Threads : k'.q.prio[x] = Base[x]
    BY <1>4, <1>6, <2>1, <2>2 DEF Passes, Ranked
  <2>4. k'.current = t /\ k'.q.stat[t] = "ready"
    BY <1>3, <2>2 DEF Passes
  <2>5. Running(k', late') /\ Ranked(k', cut')
    BY <1>3, <2>3, <2>4 DEF Running, Ranked
  <2>6. Range(k.q.wait["lock"]) \subseteq Threads
    BY <1>3, <1>4, RunningFree
  <2>7. Waits(k', pc')
    BY <1>3, <1>4, <2>2, <2>6 DEF Waits, Moved, Passes
  <2>8. CASE k'.owner = NoThread
    <3>1. Holds(k', pc')
      BY <2>8 DEF Holds
    <3>2. Range(k.q.wait["lock"]) = {} /\ (k.orig = k.q.prio[t] => k'.q = k.q)
      BY <2>6, <2>8, QueueAssumption, <2>2 DEF Passes
    <3>3. Foremost(k', pc', late', cut')
      <4>1. (k.current = Temper /\ <<Bright, "lock">> \in cut) \/ Leads(k)
        BY <1>3, <1>4 DEF Foremost, Moved
      <4>2. CASE k.orig = k.q.prio[t]
        BY <1>1, <1>3, <2>4, <3>2, <4>1, <4>2 DEF Foremost, Leads
      <4>3. CASE k.orig # k.q.prio[t]
        BY <1>1, <1>3, <1>4, <2>1, <2>4, <3>2, <4>3 DEF Foremost, Ranked
      <4> QED BY <4>2, <4>3
    <3> QED BY <2>2, <2>5, <2>7, <3>1, <3>3 DEF Ordered, Orderly
  <2>9. CASE k'.owner # NoThread
    <3>1. /\ k'.owner \in Range(k.q.wait["lock"]) /\ k'.owner # t /\ k'.hold = 1
          /\ k'.orig = k.q.prio[k'.owner]
      BY <2>2, <2>9 DEF Passes
    <3>2. k'.owner \in Threads /\ pc'[k'.owner] = "taking"
      BY <1>3, <1>4, <2>6, <3>1 DEF Waits, Moved
    <3>3. Holds(k', pc')
      BY <1>4, <1>6, <3>1, <3>2 DEF Holds, Ranked
    <3>4. WillWake(k, t)
      <4>1. k.q.wait["lock"] # <<>>
        BY <3>1 DEF Range
      <4> QED BY <1>6, <2>1, <4>1 DEF WillWake
    <3>5. Foremost(k', pc', late', cut')
      BY <1>1, <2>4, <3>4 DEF Foremost
    <3> QED BY <2>2, <2>5, <2>7, <3>3, <3>5 DEF Ordered, Orderly
  <2> QED BY <2>8, <2>9
<1> QED BY <1>5, <1>6

\* Threads that go on and leave the lists and the lock alone
LEMMA MovedOrdered ==
    ASSUME Inv, Ordered, NEW t \in Threads, NEW n, NEW m \in Place(t), Step(t, n, m),
           n \notin {"idle", "report", "print"}, n \in {"taking", "read"} => m = "read",
           k' \in Kernel, SameKernel(k, k'), k'.current = k.current,
           late' = late, cut' = cut
    PROVE  Ordered'
<1>1. Moved(pc, pc', k.current, n, m) /\ k.current \notin late
  BY OrderFrom
<1>2. Orderly(k, pc, late, cut)
  BY DEF Ordered
<1>3. /\ n \notin {"report", "print"}
      /\ k.owner = k.current /\ n \in {"taking", "read"} => m \in {"taking", "read"}
  OBVIOUS
<1>4. Orderly(k', pc', late, cut)
  BY <1>1, <1>2, <1>3, MoveOrderly
<1> QED BY <1>4 DEF Ordered

\* A handler that leaves the lists and the lock alone
LEMMA StayOrdered ==
    ASSUME Ordered, k' \in Kernel, SameKernel(k, k'), k'.current = k.current,
           pc' = pc, late' = late, cut' = cut
    PROVE  Ordered'
<1>1. Orderly(k, pc, late, cut)
  BY DEF Ordered
<1>2. Orderly(k', pc, late, cut)
  BY <1>1, StayOrderly
<1> QED BY <1>2 DEF Ordered

\* What wakes threads and calls rt_schedule
LEMMA RousedOrdered ==
    ASSUME Ordered, NEW m, Sane(m), Lock(m), NEW S, Roused(k, m, S), k' = Scheduled(m),
           cut \subseteq cut', late' = late,
           \A x \in S : x \in Range(k.q.wait["lock"]) => <<x, "lock">> \in cut',
           \A x \in Threads : pc'[x] = pc[x] \/ (x = k.current /\ pc[x] = "send")
    PROVE  Ordered'
<1>1. Orderly(k, pc, late, cut)
  BY DEF Ordered
<1>2. Orderly(k', pc', late, cut')
  BY <1>1, RousedOrderly
<1> QED BY <1>2 DEF Ordered

\* A thread that goes to sleep
LEMMA RestedOrdered ==
    ASSUME Inv, Ordered, NEW t \in Threads, NEW n, NEW m \in Place(t), Step(t, n, m),
           n \notin {"idle", "taking", "read"}, Sane(k'), Rested(k, k', t),
           late' = late \union {t}, cut' = cut
    PROVE  Ordered'
<1>1. Moved(pc, pc', k.current, n, m) /\ k.current \notin late /\ k.current = t
  BY OrderFrom
<1>2. Orderly(k, pc, late, cut) /\ Rested(k, k', k.current)
  BY <1>1 DEF Ordered
<1>3. n \notin {"taking", "read"}
  OBVIOUS
<1>4. Orderly(k', pc', late \union {k.current}, cut)
  BY <1>1, <1>2, <1>3, RestedOrderly
<1> QED BY <1>1, <1>4 DEF Ordered

\* The first waiter of a queue or a semaphore does not wait for the lock.
LEMMA RousedElsewhere ==
    ASSUME NEW s, Sane(s), NEW o, o = "mq" \/ o = "sem", NEW S \in SUBSET Range(s.q.wait[o])
    PROVE  \A x \in S : x \notin Range(s.q.wait["lock"])
  BY SensorAssumption DEF Sane, QueuesSound, ListsSound

\* rt_schedule
LEMMA ScheduleOrdered ==
    ASSUME Inv, Ordered, NEW t \in Threads, Schedule(t)
    PROVE  Ordered'
<1>1. /\ k.current = t /\ t \in late /\ k' = Scheduled(k) /\ late' = late \ {t}
      /\ pc' = pc /\ cut' = cut
  BY DEF Schedule, history
<1>2. Sane(k) /\ Lock(k) /\ Orderly(k, pc, late, cut)
  BY DEF Ordered, Orderly, Inv
<1>3. ~Printing(k.current)
  BY <1>1 DEF Inv, Quiet, Printing
<1>4. /\ Sane(k') /\ SameKernel(k, k') /\ Leads(k')
      /\ k'.current \in Threads /\ k'.q.stat[k'.current] = "ready"
  BY <1>1, <1>2, <1>3, ScheduledSane
<1>5. Orderly(k', pc, late', cut)
  BY <1>2, <1>4, SwitchedOrderly
<1> QED BY <1>1, <1>5 DEF Ordered

\* rt_exit_critical at the end of a line
LEMMA PrintedOrdered ==
    ASSUME Inv, Ordered, NEW t \in Threads, Printed(t)
    PROVE  Ordered'
<1>1. PICK l \in {"report", "print"}, n \in {"wait", "delay"} :
         /\ Step(t, l, n)
         /\ l = "report" => n = "delay"
         /\ l = "print" => n = IF t = Usart2 THEN "wait" ELSE "delay"
  BY DEF Printed
<1>2. k' = [k EXCEPT !.current = NextThread(k.q)] /\ late' = late /\ cut' = cut
  BY DEF Printed, history
<1>3. n \in Place(t) /\ pc[t] = l
  BY <1>1, FromLemma, WhoLemma, PlaceLemma
<1>4. /\ Sane(k) /\ Lock(k) /\ k \in Kernel /\ Orderly(k, pc, late, cut)
      /\ \A x \in Threads : pc'[x] = IF x = t THEN n ELSE pc[x]
  <2>1. \A x \in Threads : pc'[x] = IF x = t THEN n ELSE pc[x]
    BY <1>1, <1>3, StepLemma
  <2> QED BY <2>1 DEF Ordered, Orderly, Sane, Inv
<1>5. k.q \in Queues /\ QueuesSound(k.q) /\ k.q.stat[Idle] = "ready" /\ Idle \in Threads
  BY <1>4, KernelParts, PlaceLemma DEF Sane
<1>6. k' \in Kernel /\ SameLock(k, k') /\ k'.q = k.q /\ k'.current = NextThread(k.q)
  <2>1. k' = [k EXCEPT !.current = NextThread(k.q)]
    BY <1>2
  <2>2. k \in Kernel /\ Lock(k)
    BY <1>4
  <2> QED BY <2>1, <2>2, SwitchedLemma
<1>7. SameKernel(k, k')
  <2>1. k'.armed = k.armed
    BY <1>2, <1>4 DEF Kernel
  <2> QED BY <1>6, <2>1 DEF SameKernel, SameLock
<1>8. /\ k'.current \in Threads /\ k'.q.stat[k'.current] = "ready" /\ Leads(k')
  BY <1>5, <1>6, NextLeads DEF Leads
<1>9. Sane(k')
  BY <1>4, <1>6, <1>7, SaneSame
<1>10. \A x \in Threads : pc[x] \in {"taking", "read"} => pc'[x] = pc[x]
  BY <1>1, <1>3, <1>4
<1>11. Orderly(k', pc', late, cut)
  BY <1>4, <1>7, <1>8, <1>9, <1>10, SwitchedOrderly
<1> QED BY <1>2, <1>11 DEF Ordered

\* rt_thread_sleep, up to its rt_schedule
LEMMA DelayOrdered ==
    ASSUME Inv, Ordered, NEW t \in Threads, Delay(t)
    PROVE  Ordered'
<1>1. PICK l \in {"delay", "prompt"} : Step(t, l, "asleep")
  BY DEF Delay
<1>2. "asleep" \in Place(t)
  BY <1>1, FromLemma, WhoLemma, PlaceLemma
<1>3. /\ t \in Threads \ {Idle} /\ k.q.stat[t] = "ready" /\ Sane(k) /\ Lock(k) /\ k \in Kernel
  BY <1>1, <1>2, OrderFrom
<1>4. late' = late \union {t} /\ cut' = cut
  BY DEF Delay, history
<1>5. k' = Requeued(k, Suspended(k.q, t), k.armed \union {t})
  BY <1>3 DEF Delay, Requeued
<1>6. Sane(k') /\ Rested(k, k', t)
  BY <1>3, <1>5, SleepSane
<1>7. l \notin {"idle", "taking", "read"}
  OBVIOUS
<1> QED BY <1>1, <1>2, <1>4, <1>6, <1>7, RestedOrdered

\* Waits for a message and for a unit
LEMMA PartedOrdered ==
    ASSUME Inv, Ordered, NEW t \in Threads, NEW l \in {"recv", "receiving", "wait"},
           NEW n \in Place(t), Step(t, l, n), NEW o, o = "mq" \/ o = "sem",
           k' = Parted(k, o, t), late' = late \union {t}, cut' = cut
    PROVE  Ordered'
<1>1. l \notin {"idle", "taking", "read"} /\ l # "idle"
  OBVIOUS
<1>2. /\ t \in Threads \ {Idle} /\ k.q.stat[t] = "ready" /\ Sane(k) /\ Lock(k)
  BY <1>1, OrderFrom
<1>3. Sane(k') /\ Rested(k, k', t)
  BY <1>2, PartedSane
<1> QED BY <1>1, <1>3, RestedOrdered

\* The waits for a unit of a semaphore
LEMMA WaitsOrdered ==
    ASSUME Inv, Ordered, NEW t \in Threads, RecvWait(t) \/ WaitUnit(t)
    PROVE  Ordered'
<1>1. CASE RecvWait(t)
  <2>1. PICK l \in {"recv", "receiving"} : Step(t, l, "receiving")
    BY <1>1 DEF RecvWait
  <2>2. k' = Parted(k, "mq", t) /\ late' = late \union {t} /\ cut' = cut
    BY <1>1 DEF RecvWait, Parted, Faulted, history
  <2>3. "receiving" \in Place(t) /\ l \in {"recv", "receiving", "wait"}
    BY <2>1, FromLemma, WhoLemma, PlaceLemma
  <2> QED BY <2>1, <2>2, <2>3, PartedOrdered
<1>2. CASE WaitUnit(t)
  <2>1. Step(t, "wait", "waiting")
    BY <1>2 DEF WaitUnit
  <2>2. k' = Parted(k, "sem", t) /\ late' = late \union {t} /\ cut' = cut
    BY <1>2 DEF WaitUnit, Parted, Faulted, history
  <2>3. "waiting" \in Place(t) /\ "wait" \in {"recv", "receiving", "wait"}
    BY <2>1, FromLemma, WhoLemma, PlaceLemma
  <2> QED BY <2>1, <2>2, <2>3, PartedOrdered
<1> QED BY <1>1, <1>2

\* The steps that leave the kernel alone, or no more than a thread's error
LEMMA PlainOrdered ==
    ASSUME Inv, Ordered, NEW t \in Threads,
           TakeReturn(t) \/ Recv(t) \/ RecvFails(t) \/ TakeUnit(t) \/ GotUnit(t)
    PROVE  Ordered'
<1>1. k' = k /\ late' = late /\ cut' = cut
  BY DEF TakeReturn, Recv, RecvFails, TakeUnit, GotUnit, history
<1>2. k' \in Kernel /\ SameKernel(k, k') /\ k'.current = k.current
  BY <1>1 DEF SameKernel, Inv, TypeOK
<1>3. CASE TakeReturn(t)
  <2>1. Step(t, "taking", "read")
    BY <1>3 DEF TakeReturn
  <2>2. "read" \in Place(t)
    BY <2>1, FromLemma, WhoLemma, PlaceLemma
  <2> QED BY <1>1, <1>2, <2>1, <2>2, MovedOrdered
<1>4. CASE Recv(t) \/ RecvFails(t)
  <2>1. PICK l \in {"recv", "receiving"} : Step(t, l, "report")
    BY <1>4 DEF Recv, RecvFails
  <2>2. "report" \in Place(t)
    BY <2>1, FromLemma, WhoLemma, PlaceLemma
  <2>3. /\ l \notin {"idle", "report", "print"}
        /\ l \in {"taking", "read"} => "report" = "read"
    OBVIOUS
  <2> QED BY <1>1, <1>2, <2>1, <2>2, <2>3, MovedOrdered
<1>5. CASE TakeUnit(t) \/ GotUnit(t)
  <2>1. PICK l \in {"wait", "waiting"}, n \in {"wait", "print"} : Step(t, l, n)
    <3>1. TakeUnit(t) => Step(t, "wait", "print")
      BY DEF TakeUnit
    <3>2. GotUnit(t) => Step(t, "waiting", IF k.err[t] = "ok" THEN "print" ELSE "wait")
      BY DEF GotUnit
    <3> QED BY <1>5, <3>1, <3>2
  <2>2. n \in Place(t)
    BY <2>1, FromLemma, WhoLemma, PlaceLemma
  <2>3. /\ l \notin {"idle", "report", "print"}
        /\ l \in {"taking", "read"} => n = "read"
    OBVIOUS
  <2> QED BY <1>1, <1>2, <2>1, <2>2, <2>3, MovedOrdered
<1> QED BY <1>3, <1>4, <1>5

\* The return from rt_thread_sleep
LEMMA AwakeOrdered ==
    ASSUME Inv, Ordered, NEW t \in Threads, Awake(t)
    PROVE  Ordered'
<1> DEFINE n == IF t = Shell THEN "prompt" ELSE IF sensing THEN "take" ELSE "print"
           e == IF k.err[t] = "timeout" THEN "ok" ELSE k.err[t]
<1>1. Step(t, "asleep", n)
  BY DEF Awake
<1>2. k' = Faulted(k, t, e) /\ late' = late /\ cut' = cut
  BY DEF Awake, Faulted, history
<1>3. n \in Place(t)
  <2>1. t \in {Bright, Temper, Shell}
    BY <1>1, FromLemma, WhoLemma
  <2> QED BY <2>1, PlaceLemma
<1>4. k \in Kernel /\ e \in Errors
  BY KernelParts DEF Inv, TypeOK, Errors
<1> HIDE DEF n, e
<1>5. k' \in Kernel /\ SameLock(k, k') /\ k'.q = k.q /\ k'.current = k.current
      /\ k'.armed = k.armed
  <2>1. k' = Faulted(k, t, e)
    BY <1>2
  <2> QED BY <1>4, <2>1, FaultedLemma
<1>6. SameKernel(k, k')
  BY <1>5 DEF SameKernel, SameLock
<1>7. /\ "asleep" \notin {"idle", "report", "print"}
      /\ "asleep" \in {"taking", "read"} => n = "read"
  OBVIOUS
<1> QED BY <1>1, <1>2, <1>3, <1>5, <1>6, <1>7, MovedOrdered

\* rt_timer_start of another thread's timer, by the shell
LEMMA WakeUpOrdered ==
    ASSUME Inv, Ordered, NEW u \in Threads, NEW l \in {"prompt", "waking"},
           NEW n \in Place(Shell), WakeUp(Shell, u, l, n)
    PROVE  Ordered'
<1>1. Step(Shell, l, n) /\ late' = late /\ cut' = cut
  BY DEF WakeUp, history
<1>2. k \in Kernel /\ Lock(k) /\ Shell \in Threads /\ k.q \in Queues
      /\ k.armed \union {u} \in SUBSET Threads
  BY KernelParts, PlaceLemma DEF Inv, TypeOK
<1>3. k' = Requeued(k, k.q, k.armed \union {u})
  BY <1>2 DEF WakeUp, TimerStarted, Requeued, Kernel
<1>4. k' \in Kernel /\ SameLock(k, k') /\ k'.q = k.q /\ k'.current = k.current
  BY <1>2, <1>3, RequeuedLemma
<1>5. k'.armed = k.armed \union {u}
  BY <1>2, <1>3 DEF Requeued, Kernel
<1>6. SameKernel(k, k')
  BY <1>4, <1>5 DEF SameKernel, SameLock
<1>7. /\ l \notin {"idle", "report", "print"}
      /\ l \in {"taking", "read"} => n = "read"
  OBVIOUS
<1> QED BY <1>1, <1>2, <1>4, <1>6, <1>7, MovedOrdered

\* rt_mq_send
LEMMA SendOrdered ==
    ASSUME Inv, Ordered, NEW t \in Threads, Send(t)
    PROVE  Ordered'
<1>1. Step(t, "send", "delay") /\ late' = late /\ cut' = cut
      /\ (k' = k \/ k' = Scheduled(WokenFirst(k, "mq")))
  BY DEF Send, history
<1>2. "delay" \in Place(t)
  BY <1>1, FromLemma, WhoLemma, PlaceLemma
<1>3. Sane(k) /\ Lock(k) /\ k \in Kernel /\ Moved(pc, pc', k.current, "send", "delay")
  BY <1>1, <1>2, OrderFrom
<1>4. CASE k' = k
  <2>1. k' \in Kernel /\ SameKernel(k, k') /\ k'.current = k.current
    BY <1>3, <1>4 DEF SameKernel
  <2> QED BY <1>1, <1>2, <2>1, MovedOrdered
<1>5. CASE k' = Scheduled(WokenFirst(k, "mq"))
  <2> DEFINE m == WokenFirst(k, "mq")
  <2>1. "mq" \in Objects
    BY SensorAssumption
  <2>2. Sane(m) /\ Lock(m) /\ \E S \in SUBSET Range(k.q.wait["mq"]) : Roused(k, m, S)
    BY <1>3, <2>1, WokenFirstSane
  <2>3. PICK S \in SUBSET Range(k.q.wait["mq"]) : Roused(k, m, S)
    BY <2>2
  <2>4. \A x \in S : x \in Range(k.q.wait["lock"]) => <<x, "lock">> \in cut'
    BY <1>3, RousedElsewhere
  <2>5. \A x \in Threads : pc'[x] = pc[x] \/ (x = k.current /\ pc[x] = "send")
    BY <1>3 DEF Moved
  <2>6. k' = Scheduled(m) /\ cut \subseteq cut'
    BY <1>1, <1>5
  <2> HIDE DEF m
  <2> QED BY <1>1, <2>2, <2>3, <2>4, <2>5, <2>6, RousedOrdered
<1> QED BY <1>1, <1>4, <1>5

\* The handlers
LEMMA LineOrdered ==
    ASSUME Inv, Ordered, Line
    PROVE  Ordered'
<1>1. /\ pc' = pc /\ late' = late /\ cut' = cut
      /\ (k' = k \/ k' = Scheduled(WokenFirst(k, "sem")))
  BY DEF Line, history
<1>2. Sane(k) /\ Lock(k) /\ k \in Kernel
  BY DEF Inv, Ordered, Orderly, Sane
<1>3. CASE k' = k
  <2>1. k' \in Kernel /\ SameKernel(k, k') /\ k'.current = k.current
    BY <1>2, <1>3 DEF SameKernel
  <2> QED BY <1>1, <2>1, StayOrdered
<1>4. CASE k' = Scheduled(WokenFirst(k, "sem"))
  <2> DEFINE m == WokenFirst(k, "sem")
  <2>1. "sem" \in Objects
    BY SensorAssumption
  <2>2. Sane(m) /\ Lock(m) /\ \E S \in SUBSET Range(k.q.wait["sem"]) : Roused(k, m, S)
    BY <1>2, <2>1, WokenFirstSane
  <2>3. PICK S \in SUBSET Range(k.q.wait["sem"]) : Roused(k, m, S)
    BY <2>2
  <2>4. \A x \in S : x \in Range(k.q.wait["lock"]) => <<x, "lock">> \in cut'
    BY <1>2, RousedElsewhere
  <2>5. \A x \in Threads : pc'[x] = pc[x] \/ (x = k.current /\ pc[x] = "send")
    BY <1>1
  <2>6. k' = Scheduled(m) /\ cut \subseteq cut'
    BY <1>1, <1>4
  <2> HIDE DEF m
  <2> QED BY <1>1, <2>2, <2>3, <2>4, <2>5, <2>6, RousedOrdered
<1> QED BY <1>1, <1>3, <1>4

\* The interrupt of the key gives a unit and may make the waiter ready.
LEMMA KeyOrdered ==
    ASSUME Inv, Ordered, Key
    PROVE  Ordered'
<1> DEFINE a == k.armed \union {Bright, Temper}
           m == IF timer THEN k ELSE Requeued(k, k.q, a)
<1>1. pc' = pc /\ late' = late /\ cut' = cut
  BY DEF Key, history
<1>2. Sane(k) /\ Lock(k) /\ k \in Kernel
  BY DEF Inv, Ordered, Orderly, Sane
<1>3. k' = Scheduled(m)
  <2>1. TimerStarted(TimerStarted(k, Bright), Temper) = Requeued(k, k.q, a)
    BY <1>2 DEF TimerStarted, Requeued, Kernel
  <2> QED BY <2>1 DEF Key
<1>4. Sane(m) /\ Lock(m) /\ Roused(k, m, {})
  <2>1. CASE timer
    BY <1>2, <2>1 DEF Roused, SameLock
  <2>2. CASE ~timer
    <3>1. k.q \in Queues /\ a \in SUBSET Threads
      BY <1>2, KernelParts, PlaceLemma
    <3>2. m = Requeued(k, k.q, a)
      BY <2>2
    <3>3. m.armed = a
      BY <1>2, <3>2 DEF Requeued, Kernel
    <3> HIDE DEF m
    <3>4. /\ m \in Kernel /\ Lock(m) /\ SameLock(k, m)
          /\ m.q = k.q /\ m.current = k.current
      <4> HIDE DEF a
      <4> QED BY <1>2, <3>1, <3>2, RequeuedLemma
    <3>5. SameKernel(k, m) /\ Roused(k, m, {})
      BY <3>3, <3>4 DEF SameKernel, SameLock, Roused
    <3> QED BY <1>2, <3>4, <3>5, SaneSame
  <2> QED BY <2>1, <2>2
<1> HIDE DEF m
<1>5. /\ cut \subseteq cut'
      /\ \A x \in {} : x \in Range(k.q.wait["lock"]) => <<x, "lock">> \in cut'
      /\ \A x \in Threads : pc'[x] = pc[x] \/ (x = k.current /\ pc[x] = "send")
  BY <1>1
<1> QED BY <1>1, <1>3, <1>4, <1>5, RousedOrdered

\* The time-out of a thread, whatever the thread is in
LEMMA ThreadTimerOrdered ==
    ASSUME Inv, Ordered, NEW u \in Threads, ThreadTimer(u)
    PROVE  Ordered'
<1> DEFINE m == Expired(k, u)
<1>1. /\ pc' = pc /\ late' = late /\ k' = Scheduled(m) /\ cut \subseteq cut'
      /\ pc[u] = "taking" => <<u, "lock">> \in cut'
  BY DEF ThreadTimer, Expired
<1>2. Sane(k) /\ Lock(k) /\ Waits(k, pc)
  BY DEF Inv, Ordered, Orderly
<1>3. Sane(m) /\ Lock(m) /\ Roused(k, m, {u})
  BY <1>2, ExpiredSane
<1> HIDE DEF m
<1>4. \A x \in {u} : x \in Range(k.q.wait["lock"]) => <<x, "lock">> \in cut'
  BY <1>1, <1>2 DEF Waits
<1>5. \A x \in Threads : pc'[x] = pc[x] \/ (x = k.current /\ pc[x] = "send")
  BY <1>1
<1> QED BY <1>1, <1>3, <1>4, <1>5, RousedOrdered

\* The end of a time slice
LEMMA SliceOrdered ==
    ASSUME Inv, Ordered, SliceEnds
    PROVE  Ordered'
<1> DEFINE t == k.current
           p == k.q.prio[t]
           m == Rotate(k, p, t)
<1>1. /\ pc' = pc /\ late' = late /\ cut' = cut /\ k' = Scheduled(m)
      /\ t \in Range(k.q.ready[p])
  BY DEF SliceEnds, Rotate, history
<1>2. Sane(k) /\ Lock(k) /\ t \in Threads /\ k.q \in Queues /\ QueuesSound(k.q)
  BY KernelParts DEF Inv, Ordered, Orderly, Running, Sane
<1>3. p \in Prios
  BY <1>2 DEF Queues
<1>4. k.q.stat[t] = "ready"
  BY <1>1, <1>2, <1>3 DEF QueuesSound, ListsSound
<1>5. Sane(m) /\ Lock(m) /\ Roused(k, m, {})
  BY <1>2, <1>4, RotateSane
<1> HIDE DEF m
<1>6. /\ cut \subseteq cut'
      /\ \A x \in {} : x \in Range(k.q.wait["lock"]) => <<x, "lock">> \in cut'
      /\ \A x \in Threads : pc'[x] = pc[x] \/ (x = k.current /\ pc[x] = "send")
  BY <1>1
<1> QED BY <1>1, <1>5, <1>6, RousedOrdered

\* What sensor_start_convert_entry takes it gives back, and leaves the lists and the
\* timers alone.
LEMMA ConversionRest ==
    ASSUME NEW s \in Kernel, Lock(s), NEW t \in Threads, ~MustWait(s, t),
           NEW m, m = Taken(s, t), NEW r, r = Released(m, t)
    PROVE  SameKernel(s, r)
<1>1. m \in Kernel /\ Lock(m)
  BY TakenLemma
<1>2. /\ m.q = s.q /\ m.owner = t /\ s.owner \in {t, NoThread}
      /\ s.owner = t => m.hold = s.hold + 1
      /\ s.owner = NoThread => m.hold = 1 /\ m.orig = s.q.prio[t]
  BY TakenLemma
<1>3. m.armed = s.armed /\ (s.owner = t => m.orig = s.orig)
  BY TakenRest
<1>4. r.q = s.q /\ r.owner = s.owner
  BY ConversionLemma
<1>5. t # NoThread /\ s.hold \in Nat
  BY QueueAssumption, KernelParts
<1>6. CASE s.owner = t
  <2>1. m.hold > 1
    BY <1>2, <1>5, <1>6 DEF Lock
  <2>2. r.armed = m.armed /\ r.orig = m.orig /\ r.hold = m.hold - 1
    BY <1>1, <1>2, <2>1, ReleasedRest
  <2>3. r.hold = s.hold
    BY <1>2, <1>5, <1>6, <2>2
  <2> QED BY <1>3, <1>4, <1>6, <2>2, <2>3 DEF SameKernel
<1>7. CASE s.owner = NoThread
  <2>1. m.hold = 1 /\ m.q.wait["lock"] = <<>> /\ m.orig = m.q.prio[t]
    BY <1>2, <1>7 DEF Lock
  <2>2. r.armed = m.armed
    BY <1>1, <1>2, <2>1, ReleasedRest
  <2> QED BY <1>3, <1>4, <1>7, <2>2 DEF SameKernel
<1> QED BY <1>2, <1>6, <1>7

\* The ADC timer's function that finds the lock free or owned by who was interrupted
LEMMA SensorTimerOrdered ==
    ASSUME Inv, Ordered, SensorTimer, ~contended'
    PROVE  Ordered'
<1> DEFINE t == k.current
           m == Taken(k, t)
           r == Released(m, t)
<1>1. k \in Kernel /\ Lock(k) /\ t \in Threads
  BY DEF Inv, TypeOK, Ordered, Orderly, Running
<1>2. ~MustWait(k, t) /\ pc' = pc /\ late' = late /\ cut' = cut
  BY DEF SensorTimer
<1>3. k' = IF m.current = NoThread THEN m
           ELSE IF WillWake(m, m.current) THEN Scheduled(Released(m, m.current))
           ELSE Released(m, m.current)
  BY <1>2 DEF SensorTimer
<1>4. m.current = t /\ t # NoThread
  BY <1>1, TakenLemma, QueueAssumption
<1>5. r \in Kernel /\ r.current = k.current /\ ~WillWake(m, t)
  BY <1>1, <1>2, ConversionLemma
<1>6. SameKernel(k, r)
  BY <1>1, <1>2, ConversionRest
<1>7. k' = r
  BY <1>3, <1>4, <1>5
<1> HIDE DEF r
<1> QED BY <1>2, <1>5, <1>6, <1>7, StayOrdered

\* The threads that were started are ready, each on the list of its priority.
LEMMA StartedQueues ==
    ASSUME Init
    PROVE  /\ k.q \in Queues /\ QueuesSound(k.q) /\ k.q.prio = Base
           /\ k.q.wait["lock"] = <<>> /\ Highest(k.q) = 0
           /\ \A x \in Threads : k.q.stat[x] = IF x \in Started THEN "ready" ELSE "init"
<1> DEFINE In(p) == {x \in Started : Base[x] = p}
           q == k.q
<1>1. /\ q.stat = [x \in Threads |-> IF x \in Started THEN "ready" ELSE "init"]
      /\ q.prio = Base
      /\ q.ready = [p \in Prios |-> SetToSeq(In(p))]
      /\ q.group = {Base[x] : x \in Started}
      /\ q.wait = [o \in Objects |-> <<>>]
      /\ q.defunct = <<>>
  BY DEF Init
<1>2. Inv
  BY InitLemma
<1>3. q \in Queues
  BY <1>2, KernelParts DEF Inv, TypeOK
<1>4. Started \subseteq Threads /\ IsFiniteSet(Threads)
  BY ThreadsFinite, PlaceLemma DEF Started
<1>5. \A p \in Prios : Distinct(q.ready[p]) /\ Range(q.ready[p]) = In(p)
  <2> SUFFICES ASSUME NEW p \in Prios
               PROVE  Distinct(q.ready[p]) /\ Range(q.ready[p]) = In(p)
    OBVIOUS
  <2>1. In(p) \subseteq Threads
    BY <1>4
  <2> DEFINE S == In(p)
  <2>2. IsFiniteSet(S)
    BY <1>4, <2>1, FS_Subset
  <2>3. q.ready[p] = SetToSeq(S)
    BY <1>1
  <2> HIDE DEF S, q
  <2>4. /\ Range(SetToSeq(S)) = S
        /\ \A i, j \in DOMAIN SetToSeq(S) : SetToSeq(S)[i] = SetToSeq(S)[j] => i = j
    BY <2>2, SetToSeqLemma
  <2>5. Distinct(q.ready[p]) /\ Range(q.ready[p]) = S
    BY <2>3, <2>4 DEF Distinct
  <2> QED BY <2>5 DEF S
<1>6. \A x \in Threads : q.stat[x] = IF x \in Started THEN "ready" ELSE "init"
  BY <1>1
<1> HIDE DEF q
<1>7. Range(<<>>) = {} /\ Distinct(<<>>)
  BY DEF Range, Distinct
<1>8. ListsSound(q)
  BY <1>1, <1>4, <1>5, <1>6, <1>7 DEF ListsSound
<1>9. ReadyLinked(q)
  <2> SUFFICES ASSUME NEW x \in Threads, q.stat[x] = "ready"
               PROVE  x \in Range(q.ready[q.prio[x]])
    BY DEF ReadyLinked
  <2>1. x \in Started /\ q.prio[x] = Base[x] /\ Base[x] \in Prios
    BY <1>1, <1>6, BaseLemma
  <2> QED BY <1>5, <2>1
<1>10. GroupExact(q)
  <2> SUFFICES ASSUME NEW p \in Prios PROVE p \in q.group <=> q.ready[p] # <<>>
    BY DEF GroupExact
  <2>1. q.ready[p] \in Seq(Threads)
    BY <1>3 DEF Queues
  <2>2. q.ready[p] # <<>> <=> In(p) # {}
    BY <1>5, <2>1, EmptyLemma
  <2> QED BY <1>1, <2>2
<1>11. Highest(q) = 0
  <2>1. Usart2 \in Started /\ Base[Usart2] = 0
    BY PlaceLemma, DistinctLemma DEF Started, Base
  <2>2. 0 \in q.group
    BY <1>1, <2>1
  <2>3. Highest(q) \in q.group /\ Highest(q) =< 0
    BY <1>3, <2>2, HighestLemma
  <2>4. Highest(q) \in Prios
    BY <1>3, <2>3 DEF Queues
  <2> QED BY <2>3, <2>4 DEF Prios
<1>12. q.wait["lock"] = <<>>
  BY <1>1, SensorAssumption
<1> QED BY <1>1, <1>3, <1>6, <1>8, <1>9, <1>10, <1>11, <1>12 DEF QueuesSound, q

\* The order holds when the scheduler starts.
LEMMA OrderInit == Init => Ordered
<1> SUFFICES ASSUME Init PROVE Ordered
  OBVIOUS
<1>1. k.current = Usart2 /\ k.owner = NoThread /\ late = {} /\ k \in Kernel
  BY InitLemma DEF Init, Inv, TypeOK
<1>2. /\ k.q \in Queues /\ QueuesSound(k.q) /\ k.q.prio = Base
      /\ k.q.wait["lock"] = <<>> /\ Highest(k.q) = 0
      /\ \A x \in Threads : k.q.stat[x] = IF x \in Started THEN "ready" ELSE "init"
  BY StartedQueues
<1>3. Usart2 \in Started /\ Idle \in Started /\ Usart2 \in Threads /\ Idle \in Threads
      /\ Base[Usart2] = 0
  BY PlaceLemma, DistinctLemma DEF Started, Base
<1>4. Sane(k)
  BY <1>1, <1>2, <1>3 DEF Sane, Asleep
<1>5. Running(k, late) /\ Ranked(k, cut)
  BY <1>1, <1>2, <1>3 DEF Running, Ranked
<1>6. Foremost(k, pc, late, cut)
  BY <1>1, <1>2, <1>3 DEF Foremost, Leads
<1>7. Holds(k, pc) /\ Waits(k, pc)
  BY <1>1, <1>2 DEF Holds, Waits, Range
<1> QED BY <1>4, <1>5, <1>6, <1>7 DEF Ordered, Orderly

\* Until the ADC timer's function has waited, every step keeps the order.
LEMMA OrderKept ==
    ASSUME Inv, contended \/ Ordered, [Next]_vars
    PROVE  contended' \/ Ordered'
<1> SUFFICES ASSUME ~contended' PROVE Ordered'
  OBVIOUS
<1>1. CASE UNCHANGED vars
  <2>1. k' = k /\ pc' = pc /\ late' = late /\ cut' = cut /\ contended' = contended
    BY <1>1 DEF vars, history
  <2>2. Ordered
    BY <2>1
  <2> QED BY <2>1, <2>2 DEF Ordered
<1>2. CASE Next
  <2>1. Ordered
    <3>1. contended => contended'
      BY <1>2 DEF Next, ThreadStep, Sensor, Command, WakeUp, Key, Line, ThreadTimer,
                  SensorTimer, Dma, SliceEnds, Schedule, Take, TakeReturn, Release,
                  Send, Recv, RecvWait, RecvFails, Printed, Delay, Awake, TakeUnit,
                  WaitUnit, GotUnit, history
    <3> QED BY <3>1
  <2>2. ASSUME NEW t \in Threads, ThreadStep(t) PROVE Ordered'
    <3>1. CASE Sensor(t)
      BY <2>1, <3>1, TakeOrdered, ReleaseOrdered, SendOrdered, PlainOrdered, WaitsOrdered
         DEF Sensor
    <3>2. CASE ~Sensor(t)
      BY <2>1, <2>2, <3>2, ScheduleOrdered, PrintedOrdered, DelayOrdered, AwakeOrdered,
         PlainOrdered, WaitsOrdered DEF ThreadStep
    <3> QED BY <3>1, <3>2
  <2>3. ASSUME NEW t \in Threads, ThreadTimer(t) PROVE Ordered'
    BY <2>1, <2>3, ThreadTimerOrdered
  <2>4. CASE Command
    <3>1. "prompt" \in Place(Shell) /\ "waking" \in Place(Shell)
      BY PlaceLemma
    <3>2. Bright \in Threads /\ Temper \in Threads
      BY PlaceLemma
    <3>3. CASE WakeUp(Shell, Bright, "prompt", "waking")
      BY <2>1, <3>1, <3>2, <3>3, WakeUpOrdered
    <3>4. CASE WakeUp(Shell, Temper, "waking", "prompt")
      BY <2>1, <3>1, <3>2, <3>4, WakeUpOrdered
    <3> QED BY <2>4, <3>3, <3>4 DEF Command
  <2>5. CASE Key \/ Line \/ SliceEnds
    BY <2>1, <2>5, KeyOrdered, LineOrdered, SliceOrdered
  <2>6. CASE SensorTimer
    BY <2>1, <2>6, SensorTimerOrdered
  <2>7. CASE Dma
    <3>1. k' = k /\ pc' = pc /\ late' = late /\ cut' = cut
      BY <2>7 DEF Dma, history
    <3> QED BY <2>1, <3>1 DEF Ordered
  <2> QED BY <1>2, <2>2, <2>3, <2>4, <2>5, <2>6, <2>7 DEF Next
<1> QED BY <1>1, <1>2

\* The order implies what the runs check.
LEMMA OrderSound ==
    ASSUME Inv, contended \/ Ordered
    PROVE  SoundUnlessContended
<1> SUFFICES ASSUME Ordered PROVE SoundUnlessContended
  BY DEF SoundUnlessContended
<1>1. /\ QueuesSound(k.q) /\ Asleep(k) /\ Foremost(k, pc, late, cut) /\ Holds(k, pc)
      /\ k \in Kernel /\ Lock(k) /\ TypeOK
  BY DEF Ordered, Orderly, Sane, Inv
<1>2. k.current \in late \/ Printing(k.current) \/ cut # {}
      \/ k.q.prio[k.current] = Highest(k.q)
  BY <1>1 DEF Foremost, Leads, Printing
<1>3. LockFields
  <2>1. k.value \in {0, 1}
    BY <1>1, KernelParts
  <2> QED BY <1>1, <2>1 DEF LockFields, Lock, Holds
<1>4. ~Kept
  BY <1>1 DEF Kept, Holds, InSection
<1>5. \A t \in Threads : k.q.stat[t] = "suspend" => Wakeable(t)
  BY <1>1 DEF Asleep, Wakeable
<1> QED BY <1>1, <1>2, <1>3, <1>4, <1>5 DEF SoundUnlessContended

\* Until the ADC timer's function has met a taken lock (ADCTimer.c:43), the thread
\* lists are sound; the most urgent thread runs, but while the shell prints, before a
\* rt_schedule that is due, and after a release that woke nobody and gave back the
\* priority of a waiter whose own timer took it away (ipc.c:828); the fields of
\* buffer_lock agree and its owner is on its way to release it; and no thread
\* sleeps without a timer or a list to wake it from.
THEOREM SoundUntilContended == Spec => []SoundUnlessContended
<1> DEFINE InGoodOrder == contended \/ Ordered
<1>1. Init => Inv /\ InGoodOrder
  BY InitLemma, OrderInit
<1>2. Inv /\ InGoodOrder /\ [Next]_vars => (Inv /\ InGoodOrder)'
  BY InvKept, OrderKept
<1>3. Inv /\ InGoodOrder => SoundUnlessContended
  BY OrderSound
<1> HIDE DEF InGoodOrder
<1> QED BY <1>1, <1>2, <1>3, PTL DEF Spec

=============================================================================
