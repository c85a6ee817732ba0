---------------------------- MODULE MutexProofs ----------------------------
(***************************************************************************)
(* Theorems about Mutex: for any threads and mutexes, that callers of      *)
(* rt_mutex_take exclude each other and no wake-up is lost, and when the   *)
(* running thread may not be the most urgent one; and for an application   *)
(* with one mutex made with RT_IPC_FLAG_PRIO, that priorities are          *)
(* inherited and restored.                                                 *)
(***************************************************************************)
EXTENDS Mutex, ThreadQueuesProofs

-----------------------------------------------------------------------------
(* The inductive invariant                                                  *)

Waiters(m) == Range(q.wait[m])

\* The lists agree with the statuses; Idle is always ready, so rt_schedule
\* finds a thread.
Lists == /\ QueuesSound(q)
         /\ \A t \in Threads : q.stat[t] \in {"ready", "suspend"}
         /\ q.stat[current] = "ready"
         /\ q.stat[Idle] = "ready" /\ want[Idle] = NoObject
         /\ \A t \in armed : q.stat[t] = "suspend"

\* The fields of a mutex agree with each other and with its list.
FieldsAgree ==
    \A m \in Mutexes :
        /\ IF owner[m] = NoThread
           THEN value[m] = 1 /\ hold[m] = 0 /\ Waiters(m) = {}
           ELSE value[m] = 0 /\ hold[m] > 0 /\ orig[m] \in Prios
        /\ life[m] = "gone" => Waiters(m) = {}

\* Who is on the list of a mutex waits for it, was not told anything yet, and
\* does not own it.
WaitersWait ==
    \A m \in Mutexes : \A t \in Waiters(m) :
        want[t] = m /\ err[t] = "ok" /\ owner[m] # t

\* t was handed m and has not run since.
Handed(t, m) == want[t] = m /\ err[t] = "ok" /\ q.stat[t] = "ready"

\* How often t has m: as return values say, and once more when it was handed m.
Times(t, m) == took[t][m] + (IF Handed(t, m) THEN 1 ELSE 0)

\* mutex->owner and mutex->hold count that.  OwnerAgrees follows.
Counts ==
    \A t \in Threads : \A m \in Mutexes :
        Times(t, m) = IF owner[m] = t THEN hold[m] ELSE 0

Inv == TypeOK /\ Lists /\ FieldsAgree /\ WaitersWait /\ Counts

\* The two properties are parts of it.
LEMMA InvProperties ==
    ASSUME MutexAssumption, Inv
    PROVE  OwnerAgrees /\ FreeWithoutWaiters
<1>1. OwnerAgrees
  <2> SUFFICES ASSUME NEW m \in Mutexes, NEW t \in Threads
               PROVE  /\ (owner[m] = t) <=> (Times(t, m) > 0)
                      /\ owner[m] = t => hold[m] = Times(t, m)
    BY DEF OwnerAgrees, Times, Handed
  <2>1. Times(t, m) = IF owner[m] = t THEN hold[m] ELSE 0
    BY DEF Inv, Counts
  <2>2. owner[m] = t => hold[m] > 0
    BY QueueAssumption DEF Inv, FieldsAgree
  <2>3. hold[m] \in Nat
    BY MutexAssumption DEF Inv, TypeOK
  <2> HIDE DEF Times
  <2> QED BY <2>1, <2>2, <2>3
<1>2. FreeWithoutWaiters
  <2>1. \A m \in Mutexes : Waiters(m) = {} => q.wait[m] = <<>>
    BY EmptyLemma DEF Inv, TypeOK, Queues, Mutexes, Waiters
  <2> QED BY <2>1 DEF Inv, FieldsAgree, FreeWithoutWaiters
<1> QED BY <1>1, <1>2

-----------------------------------------------------------------------------
(* Facts about a state of the invariant                                     *)

\* The running thread is ready, so it is nobody's waiter.
LEMMA RunningLemma ==
    ASSUME MutexAssumption, Inv
    PROVE  /\ current \in Threads /\ Idle \in Threads /\ NoThread \notin Threads
           /\ NoObject \notin Mutexes
           /\ \A m \in Mutexes : Waiters(m) \subseteq Threads /\ current \notin Waiters(m)
           /\ \A m \in Mutexes : \A u \in Waiters(m) : q.stat[u] = "suspend"
  BY MutexAssumption, QueueAssumption, EmptyLemma
     DEF Inv, TypeOK, Lists, QueuesSound, ListsSound, Queues, Mutexes, Waiters

\* rt_schedule finds a ready thread.
LEMMA ScheduleLemma ==
    ASSUME MutexAssumption, NEW r \in Queues, QueuesSound(r), r.stat[Idle] = "ready"
    PROVE  NextThread(r) \in Threads /\ r.stat[NextThread(r)] = "ready"
  BY MutexAssumption, NextLemma

\* One entry of the table of takes changes.
LEMMA TookLemma ==
    ASSUME TypeOK, NEW t \in Threads, NEW m \in Mutexes, NEW n \in 0..MaxHold,
           took' = [took EXCEPT ![t][m] = n]
    PROVE  /\ took' \in [Threads -> [Mutexes -> 0..MaxHold]]
           /\ \A x \in Threads : \A y \in Mutexes :
                 took'[x][y] = IF x = t /\ y = m THEN n ELSE took[x][y]
  BY DEF TypeOK

-----------------------------------------------------------------------------
(* Calls that leave the thread lists alone                                  *)

LEMMA TakeFreeStep ==
    ASSUME MutexAssumption, Inv, NEW t \in Threads, NEW m \in Mutexes, TakeFree(t, m)
    PROVE  Inv'
<1>1. /\ current = t /\ want[t] = NoObject /\ owner[m] # t /\ value[m] > 0
      /\ value' = [value EXCEPT ![m] = value[m] - 1]
      /\ owner' = [owner EXCEPT ![m] = t] /\ orig' = [orig EXCEPT ![m] = q.prio[t]]
      /\ hold' = [hold EXCEPT ![m] = hold[m] + 1]
      /\ took' = [took EXCEPT ![t][m] = took[t][m] + 1]
      /\ UNCHANGED <<q, current, armed, err, want, life, by>>
  BY DEF TakeFree, Runs, Took, deletion
<1>2. owner[m] = NoThread /\ value[m] = 1 /\ hold[m] = 0 /\ Waiters(m) = {}
  BY <1>1 DEF Inv, FieldsAgree
<1>3. took[t][m] = 0 /\ MaxHold \in Nat /\ MaxHold > 0
  <2>1. Times(t, m) = 0 /\ ~Handed(t, m)
    BY <1>1, RunningLemma DEF Inv, Counts, Handed
  <2>2. took[t][m] \in 0..MaxHold
    BY DEF Inv, TypeOK
  <2> QED BY <2>1, <2>2, MutexAssumption DEF Times
<1>4. /\ took' \in [Threads -> [Mutexes -> 0..MaxHold]]
      /\ \A x \in Threads : \A y \in Mutexes :
            took'[x][y] = IF x = t /\ y = m THEN 1 ELSE took[x][y]
  <2>1. 1 \in 0..MaxHold /\ took' = [took EXCEPT ![t][m] = 1]
    BY <1>1, <1>3
  <2> QED BY <2>1, TookLemma DEF Inv
<1>5. q.prio[t] \in Prios
  BY DEF Inv, TypeOK, Queues
<1>6. /\ value'[m] = 0 /\ owner'[m] = t /\ orig'[m] = q.prio[t] /\ hold'[m] = 1
      /\ \A y \in Mutexes \ {m} : /\ value'[y] = value[y] /\ owner'[y] = owner[y]
                                  /\ orig'[y] = orig[y] /\ hold'[y] = hold[y]
  BY <1>1, <1>2 DEF Inv, TypeOK
<1>7. TypeOK'
  <2>1. value' \in [Mutexes -> {0, 1}] /\ hold' \in [Mutexes -> 0..MaxHold]
    BY <1>1, <1>2, <1>3 DEF Inv, TypeOK
  <2>2. /\ owner' \in [Mutexes -> Threads \union {NoThread}]
        /\ orig' \in [Mutexes -> Prios \union {NoPrio}]
    BY <1>1, <1>5 DEF Inv, TypeOK
  <2> QED BY <1>1, <1>4, <2>1, <2>2 DEF Inv, TypeOK
<1>8. Lists'
  BY <1>1 DEF Inv, Lists
<1>9. \A y \in Mutexes : Waiters(y)' = Waiters(y)
  BY <1>1 DEF Waiters
<1>10. FieldsAgree'
  BY <1>1, <1>2, <1>5, <1>6, <1>9, RunningLemma DEF Inv, FieldsAgree
<1>11. WaitersWait'
  BY <1>1, <1>2, <1>6, <1>9 DEF Inv, WaitersWait
<1>12. Counts'
  <2> SUFFICES ASSUME NEW x \in Threads, NEW y \in Mutexes
               PROVE  Times(x, y)' = IF owner'[y] = x THEN hold'[y] ELSE 0
    BY DEF Counts
  <2>1. Handed(x, y)' = Handed(x, y)
    BY <1>1 DEF Handed
  <2>2. ~Handed(t, m)
    BY <1>1, RunningLemma DEF Handed
  <2>3. Times(x, y) = IF owner[y] = x THEN hold[y] ELSE 0
    BY DEF Inv, Counts
  <2>4. CASE x = t /\ y = m
    BY <1>4, <1>6, <2>1, <2>2, <2>4 DEF Times
  <2>5. CASE ~(x = t /\ y = m)
    <3>1. Times(x, y)' = Times(x, y)
      BY <1>4, <2>1, <2>5 DEF Times
    <3> HIDE DEF Times
    <3> QED BY <1>2, <1>6, <2>3, <2>5, <3>1, RunningLemma
  <2> QED BY <2>4, <2>5
<1> QED BY <1>7, <1>8, <1>10, <1>11, <1>12 DEF Inv

\* Return values told an owner that runs how often it holds the mutex.
LEMMA OwnerTook ==
    ASSUME MutexAssumption, Inv, NEW t \in Threads, NEW m \in Mutexes,
           owner[m] = t, want[t] = NoObject
    PROVE  took[t][m] = hold[m] /\ hold[m] \in 0..MaxHold /\ hold[m] > 0
<1>1. Times(t, m) = hold[m] /\ ~Handed(t, m)
  BY RunningLemma DEF Inv, Counts, Handed
<1>2. took[t][m] \in 0..MaxHold /\ hold[m] \in 0..MaxHold
  BY DEF Inv, TypeOK
<1>3. hold[m] > 0
  BY RunningLemma DEF Inv, FieldsAgree
<1> QED BY <1>1, <1>2, <1>3, MutexAssumption DEF Times

\* The owner takes once more or once less: hold and what it was told go together.
LEMMA RecountStep ==
    ASSUME MutexAssumption, Inv, NEW t \in Threads, NEW m \in Mutexes,
           owner[m] = t, want[t] = NoObject,
           NEW n \in 1..MaxHold, hold' = [hold EXCEPT ![m] = n],
           took' = [took EXCEPT ![t][m] = n],
           UNCHANGED <<q, current, owner, value, orig, armed, err, want, life, by>>
    PROVE  Inv'
<1>1. t # NoThread
  BY RunningLemma
<1>2. n \in 0..MaxHold /\ n > 0 /\ n \in Int /\ hold[m] \in Int
  BY MutexAssumption DEF Inv, TypeOK
<1>4. /\ took' \in [Threads -> [Mutexes -> 0..MaxHold]]
      /\ \A x \in Threads : \A y \in Mutexes :
            took'[x][y] = IF x = t /\ y = m THEN n ELSE took[x][y]
  <2>1. took \in [Threads -> [Mutexes -> 0..MaxHold]]
    BY DEF Inv, TypeOK
  <2> QED BY <1>2, <2>1
<1>5. hold'[m] = n /\ \A y \in Mutexes \ {m} : hold'[y] = hold[y]
  BY DEF Inv, TypeOK
<1>6. TypeOK'
  <2>1. hold' \in [Mutexes -> 0..MaxHold]
    BY <1>2 DEF Inv, TypeOK
  <2> QED BY <1>4, <2>1 DEF Inv, TypeOK
<1>7. Lists'
  BY DEF Inv, Lists
<1>8. \A y \in Mutexes : Waiters(y)' = Waiters(y)
  BY DEF Waiters
<1>9. FieldsAgree'
  BY <1>1, <1>2, <1>5, <1>8 DEF Inv, FieldsAgree
<1>10. WaitersWait'
  BY <1>8 DEF Inv, WaitersWait
<1>11. Counts'
  <2> SUFFICES ASSUME NEW x \in Threads, NEW y \in Mutexes
               PROVE  Times(x, y)' = IF owner'[y] = x THEN hold'[y] ELSE 0
    BY DEF Counts
  <2>1. Handed(x, y)' = Handed(x, y)
    BY DEF Handed
  <2>2. ~Handed(t, m)
    BY <1>1, RunningLemma DEF Handed
  <2>3. Times(x, y) = IF owner[y] = x THEN hold[y] ELSE 0
    BY DEF Inv, Counts
  <2>4. CASE x = t /\ y = m
    BY <1>1, <1>2, <1>4, <1>5, <2>1, <2>2, <2>4 DEF Times
  <2>5. CASE ~(x = t /\ y = m)
    <3>1. Times(x, y)' = Times(x, y)
      BY <1>4, <2>1, <2>5 DEF Times
    <3> HIDE DEF Times
    <3> QED BY <1>1, <1>5, <2>3, <2>5, <3>1
  <2> QED BY <2>4, <2>5
<1> QED BY <1>6, <1>7, <1>9, <1>10, <1>11 DEF Inv

LEMMA TakeAgainStep ==
    ASSUME MutexAssumption, Inv, NEW t \in Threads, NEW m \in Mutexes, TakeAgain(t, m)
    PROVE  Inv'
<1> DEFINE n == hold[m] + 1
<1>1. /\ current = t /\ want[t] = NoObject /\ owner[m] = t /\ hold[m] < MaxHold
      /\ hold' = [hold EXCEPT ![m] = n]
      /\ took' = [took EXCEPT ![t][m] = took[t][m] + 1]
      /\ UNCHANGED <<q, current, owner, value, orig, armed, err, want, life, by>>
  BY DEF TakeAgain, Runs, Took, deletion
<1>2. n \in 1..MaxHold /\ took[t][m] + 1 = n
  BY <1>1, OwnerTook, MutexAssumption
<1> HIDE DEF n
<1> QED BY <1>1, <1>2, RecountStep

LEMMA ReleaseNestedStep ==
    ASSUME MutexAssumption, Inv, NEW t \in Threads, NEW m \in Mutexes, ReleaseNested(t, m)
    PROVE  Inv'
<1> DEFINE n == hold[m] - 1
<1>1. /\ current = t /\ want[t] = NoObject /\ owner[m] = t /\ hold[m] > 1
      /\ hold' = [hold EXCEPT ![m] = n]
      /\ took' = [took EXCEPT ![t][m] = took[t][m] - 1]
      /\ UNCHANGED <<q, current, owner, value, orig, armed, err, want, life, by>>
  BY DEF ReleaseNested, Runs, deletion
<1>2. n \in 1..MaxHold /\ took[t][m] - 1 = n
  BY <1>1, OwnerTook, MutexAssumption
<1> HIDE DEF n
<1> QED BY <1>1, <1>2, RecountStep

\* A thread comes back from the wait: whoever finds thread->error RT_EOK has
\* been handed the mutex.
LEMMA TakeReturnStep ==
    ASSUME MutexAssumption, Inv, NEW t \in Threads, TakeReturn(t)
    PROVE  Inv'
<1> DEFINE m == want[t]
<1>1. /\ current = t /\ m # NoObject
      /\ IF err[t] = "ok" THEN took' = [took EXCEPT ![t][m] = took[t][m] + 1]
                          ELSE took' = took
      /\ want' = [want EXCEPT ![t] = NoObject]
      /\ UNCHANGED <<q, current, owner, value, hold, orig, armed, err, life, by>>
  BY DEF TakeReturn, Took, deletion
<1>2. m \in Mutexes /\ q.stat[t] = "ready" /\ t # Idle
  BY <1>1 DEF Inv, TypeOK, Lists
<1>3. want'[t] = NoObject /\ \A x \in Threads \ {t} : want'[x] = want[x]
  BY <1>1 DEF Inv, TypeOK
<1>4. m = want[t]
  OBVIOUS
<1> HIDE DEF m
<1>5. took[t][m] \in 0..MaxHold /\ MaxHold \in Nat
  BY <1>2, MutexAssumption DEF Inv, TypeOK
<1>6. err[t] = "ok" => owner[m] = t /\ hold[m] = took[t][m] + 1 /\ hold[m] \in 0..MaxHold
  <2> SUFFICES ASSUME err[t] = "ok"
               PROVE  owner[m] = t /\ hold[m] = took[t][m] + 1 /\ hold[m] \in 0..MaxHold
    OBVIOUS
  <2>1. Times(t, m) = took[t][m] + 1
    BY <1>2, <1>4 DEF Times, Handed
  <2>2. Times(t, m) = IF owner[m] = t THEN hold[m] ELSE 0
    BY <1>2 DEF Inv, Counts
  <2>3. hold[m] \in 0..MaxHold
    BY <1>2 DEF Inv, TypeOK
  <2> HIDE DEF Times
  <2> QED BY <1>5, <2>1, <2>2, <2>3
<1>7. /\ took' \in [Threads -> [Mutexes -> 0..MaxHold]]
      /\ \A x \in Threads : \A y \in Mutexes :
            took'[x][y] = IF x = t /\ y = m /\ err[t] = "ok" THEN took[t][m] + 1
                                                             ELSE took[x][y]
  <2>1. CASE err[t] = "ok"
    <3>1. took[t][m] + 1 \in 0..MaxHold
      BY <1>6, <2>1
    <3> QED BY <1>1, <1>2, <2>1, <3>1, TookLemma DEF Inv
  <2>2. CASE err[t] # "ok"
    BY <1>1, <2>2 DEF Inv, TypeOK
  <2> QED BY <2>1, <2>2
<1>8. TypeOK'
  BY <1>1, <1>7 DEF Inv, TypeOK
<1>9. Lists'
  BY <1>1, <1>2, <1>3, RunningLemma DEF Inv, Lists
<1>10. \A y \in Mutexes : Waiters(y)' = Waiters(y)
  BY <1>1 DEF Waiters
<1>11. FieldsAgree'
  BY <1>1, <1>10 DEF Inv, FieldsAgree
<1>12. WaitersWait'
  <2>1. \A y \in Mutexes : \A x \in Waiters(y) : want'[x] = want[x]
    BY <1>1, <1>3, RunningLemma
  <2> QED BY <1>1, <1>10, <2>1 DEF Inv, WaitersWait
<1>13. Counts'
  <2> SUFFICES ASSUME NEW x \in Threads, NEW y \in Mutexes
               PROVE  Times(x, y)' = Times(x, y)
    BY <1>1 DEF Inv, Counts
  <2>1. CASE x # t
    <3>1. Handed(x, y)' = Handed(x, y)
      BY <1>1, <1>3, <2>1 DEF Handed
    <3> QED BY <1>7, <2>1, <3>1 DEF Times
  <2>2. CASE x = t
    <3>1. Handed(t, y)' = FALSE /\ (Handed(t, y) <=> y = m /\ err[t] = "ok")
      BY <1>1, <1>2, <1>3, <1>4, RunningLemma DEF Handed
    <3>2. took[t][y] \in Int
      BY MutexAssumption DEF Inv, TypeOK
    <3> QED BY <1>7, <2>2, <3>1, <3>2 DEF Times
  <2> QED BY <2>1, <2>2
<1> QED BY <1>8, <1>9, <1>11, <1>12, <1>13 DEF Inv

LEMMA DeleteCheckStep ==
    ASSUME MutexAssumption, Inv, NEW t \in Threads, NEW m \in Mutexes, DeleteCheck(t, m)
    PROVE  Inv'
<1>1. /\ life' = [life EXCEPT ![m] = IF q.wait[m] = <<>> THEN "gone" ELSE "take"]
      /\ by' = [by EXCEPT ![m] = t]
      /\ UNCHANGED <<q, current, owner, value, hold, orig, armed, err, want, took>>
  BY DEF DeleteCheck, mutexes
<1>2. \A y \in Mutexes : Waiters(y)' = Waiters(y)
  BY <1>1 DEF Waiters
<1>3. TypeOK'
  BY <1>1 DEF Inv, TypeOK
<1>4. q.wait[m] = <<>> => Waiters(m) = {}
  BY DEF Waiters, Range
<1>5. FieldsAgree'
  <2>1. \A y \in Mutexes : life'[y] = "gone" => Waiters(y) = {}
    <3> TAKE y \in Mutexes
    <3>1. CASE y = m
      BY <1>1, <1>4, <3>1 DEF Inv, TypeOK
    <3>2. CASE y # m
      BY <1>1, <3>2 DEF Inv, TypeOK, FieldsAgree
    <3> QED BY <3>1, <3>2
  <2> QED BY <1>1, <1>2, <2>1 DEF Inv, FieldsAgree
<1>6. Lists' /\ WaitersWait'
  BY <1>1, <1>2 DEF Inv, Lists, WaitersWait
<1>7. Counts'
  BY <1>1 DEF Inv, Counts, Times, Handed
<1> QED BY <1>3, <1>5, <1>6, <1>7 DEF Inv

-----------------------------------------------------------------------------
(* Calls and interrupts that change the thread lists                        *)

\* The statuses and lists after u was woken, whatever priorities changed before.
LEMMA WokenLists ==
    ASSUME MutexAssumption, Inv, NEW u \in Threads, q.stat[u] = "suspend",
           NEW r \in Queues, QueuesSound(r), r.stat = q.stat,
           \A m \in Mutexes : Range(r.wait[m]) = Waiters(m),
           q' = InsertThread(Unlinked(r, u), u), armed' = armed \ {u},
           current' = current \/ Schedule, want' = want
    PROVE  /\ Lists' /\ q' \in Queues /\ current' \in Threads /\ armed' \subseteq Threads
           /\ \A x \in Threads : q'.stat[x] = IF x = u THEN "ready" ELSE q.stat[x]
           /\ \A m \in Mutexes : Waiters(m)' = Waiters(m) \ {u}
           /\ q'.prio = r.prio
<1>1. q' \in Queues /\ QueuesSound(q') /\ WokenUp(r, q', u)
  BY WakeLemma
<1>2. \A x \in Threads : q'.stat[x] = IF x = u THEN "ready" ELSE q.stat[x]
  BY <1>1 DEF WokenUp, Queues
<1>3. \A m \in Mutexes : Waiters(m)' = Waiters(m) \ {u}
  BY <1>1 DEF WokenUp, Waiters, Mutexes
<1>4. u # Idle /\ u # current /\ current \in Threads /\ Idle \in Threads
      /\ armed \subseteq Threads
  BY RunningLemma DEF Inv, Lists, TypeOK
<1>5. current' \in Threads /\ q'.stat[current'] = "ready"
  BY <1>1, <1>2, <1>4, ScheduleLemma DEF Schedule, Inv, Lists
<1>6. Lists'
  BY <1>1, <1>2, <1>4, <1>5 DEF Inv, Lists
<1> QED BY <1>1, <1>2, <1>3, <1>4, <1>5, <1>6 DEF WokenUp

\* ... and after the running thread went to sleep.
LEMMA AsleepLists ==
    ASSUME MutexAssumption, Inv, NEW t \in Threads, t # Idle, current = t,
           q' \in Queues, QueuesSound(q'), q'.stat = [q.stat EXCEPT ![t] = "suspend"],
           armed' \subseteq armed \union {t}, Schedule, want'[Idle] = NoObject
    PROVE  /\ Lists' /\ current' \in Threads /\ armed' \subseteq Threads
           /\ \A x \in Threads : q'.stat[x] = IF x = t THEN "suspend" ELSE q.stat[x]
<1>1. \A x \in Threads : q'.stat[x] = IF x = t THEN "suspend" ELSE q.stat[x]
  BY DEF Inv, TypeOK, Queues
<1>2. Idle \in Threads /\ armed \subseteq Threads
  BY RunningLemma DEF Inv, TypeOK
<1>3. current' \in Threads /\ q'.stat[current'] = "ready"
  BY <1>1, <1>2, ScheduleLemma DEF Schedule, Inv, Lists
<1>4. Lists'
  BY <1>1, <1>2, <1>3 DEF Inv, Lists
<1> QED BY <1>1, <1>2, <1>3, <1>4

LEMMA DelayStep ==
    ASSUME MutexAssumption, Inv, NEW t \in Threads, t # Idle, Delay(t)
    PROVE  Inv'
<1>1. /\ current = t /\ want[t] = NoObject /\ q' = Suspended(q, t)
      /\ armed' = armed \union {t} /\ Schedule
      /\ UNCHANGED <<owner, value, hold, orig, err, want, took, life, by>>
  BY DEF Delay, Runs, mutexes, deletion
<1>2. q \in Queues /\ QueuesSound(q) /\ q.stat[t] = "ready"
  BY <1>1 DEF Inv, TypeOK, Lists
<1>3. /\ q' \in Queues /\ QueuesSound(q')
      /\ q'.stat = [q.stat EXCEPT ![t] = "suspend"]
      /\ \A o \in Objects : Range(q'.wait[o]) = Range(q.wait[o])
  BY <1>1, <1>2, SuspendLemma
<1>4. /\ Lists' /\ current' \in Threads /\ armed' \subseteq Threads
      /\ \A x \in Threads : q'.stat[x] = IF x = t THEN "suspend" ELSE q.stat[x]
  <2>1. want'[Idle] = NoObject
    BY <1>1 DEF Inv, Lists
  <2> QED BY <1>1, <1>3, <2>1, AsleepLists
<1>5. \A m \in Mutexes : Waiters(m)' = Waiters(m)
  BY <1>3 DEF Waiters, Mutexes
<1>6. TypeOK'
  BY <1>1, <1>3, <1>4 DEF Inv, TypeOK
<1>7. FieldsAgree' /\ WaitersWait'
  BY <1>1, <1>5 DEF Inv, FieldsAgree, WaitersWait
<1>8. Counts'
  <2>1. \A x \in Threads : \A m \in Mutexes : Handed(x, m)' = Handed(x, m)
    BY <1>1, <1>4, RunningLemma DEF Handed
  <2> QED BY <1>1, <2>1 DEF Inv, Counts, Times
<1> QED BY <1>4, <1>6, <1>7, <1>8 DEF Inv

LEMMA TimeoutStep ==
    ASSUME MutexAssumption, Inv, NEW u \in Threads, Timeout(u)
    PROVE  Inv'
<1>1. /\ u \in armed /\ q' = InsertThread(Unlinked(q, u), u)
      /\ armed' = armed \ {u} /\ err' = [err EXCEPT ![u] = "timeout"] /\ Schedule
      /\ UNCHANGED <<owner, value, hold, orig, want, took, life, by>>
  BY DEF Timeout, mutexes, deletion
<1>2. q \in Queues /\ QueuesSound(q) /\ q.stat[u] = "suspend"
  BY <1>1 DEF Inv, TypeOK, Lists
<1>3. /\ Lists' /\ q' \in Queues /\ current' \in Threads /\ armed' \subseteq Threads
      /\ \A x \in Threads : q'.stat[x] = IF x = u THEN "ready" ELSE q.stat[x]
      /\ \A m \in Mutexes : Waiters(m)' = Waiters(m) \ {u}
  <2>1. \A m \in Mutexes : Range(q.wait[m]) = Waiters(m)
    BY DEF Waiters
  <2> QED BY <1>1, <1>2, <2>1, WokenLists
<1>4. err'[u] = "timeout" /\ \A x \in Threads \ {u} : err'[x] = err[x]
  BY <1>1 DEF Inv, TypeOK
<1>5. TypeOK'
  BY <1>1, <1>3 DEF Inv, TypeOK
<1>6. FieldsAgree'
  BY <1>1, <1>3 DEF Inv, FieldsAgree
<1>7. WaitersWait'
  BY <1>1, <1>3, <1>4, RunningLemma DEF Inv, WaitersWait
<1>8. Counts'
  <2>1. \A x \in Threads : \A m \in Mutexes : Handed(x, m)' = Handed(x, m)
    BY <1>1, <1>2, <1>3, <1>4 DEF Handed
  <2> QED BY <1>1, <2>1 DEF Inv, Counts, Times
<1> QED BY <1>3, <1>5, <1>6, <1>7, <1>8 DEF Inv

LEMMA DeleteTakeStep ==
    ASSUME MutexAssumption, Inv, NEW t \in Threads, NEW m \in Mutexes, DeleteTake(t, m)
    PROVE  Inv'
<1>1. CASE q.wait[m] = <<>>
  <2>1. /\ life' = [life EXCEPT ![m] = "wild"]
        /\ UNCHANGED <<q, current, owner, value, hold, orig, armed, err, want, by, took>>
    BY <1>1 DEF DeleteTake, mutexes
  <2>2. TypeOK' /\ \A y \in Mutexes : life'[y] = "gone" => life[y] = "gone"
    BY <2>1 DEF Inv, TypeOK
  <2>3. \A y \in Mutexes : Waiters(y)' = Waiters(y)
    BY <2>1 DEF Waiters
  <2>4. Lists' /\ FieldsAgree' /\ WaitersWait'
    BY <2>1, <2>2, <2>3 DEF Inv, Lists, FieldsAgree, WaitersWait
  <2>5. Counts'
    BY <2>1 DEF Inv, Counts, Times, Handed
  <2> QED BY <2>2, <2>4, <2>5 DEF Inv
<1>2. CASE q.wait[m] # <<>>
  <2> DEFINE u == Head(q.wait[m])
  <2>1. /\ q' = Resumed(q, u) /\ armed' = armed \ {u}
        /\ err' = [err EXCEPT ![u] = "error"] /\ life' = [life EXCEPT ![m] = "check"]
        /\ UNCHANGED <<current, owner, value, hold, orig, want, by, took>>
    BY <1>2 DEF DeleteTake, mutexes
  <2>2. u \in Waiters(m)
    BY <1>2, EmptyLemma DEF Inv, TypeOK, Queues, Mutexes, Waiters
  <2> HIDE DEF u
  <2>3. u \in Threads /\ q.stat[u] = "suspend" /\ q \in Queues /\ QueuesSound(q)
    BY <2>2, RunningLemma DEF Inv, TypeOK, Lists
  <2>4. q' = InsertThread(Unlinked(q, u), u)
    BY <2>1, <2>3 DEF Resumed
  <2>5. /\ Lists' /\ q' \in Queues /\ current' \in Threads /\ armed' \subseteq Threads
        /\ \A x \in Threads : q'.stat[x] = IF x = u THEN "ready" ELSE q.stat[x]
        /\ \A y \in Mutexes : Waiters(y)' = Waiters(y) \ {u}
    <3>1. \A y \in Mutexes : Range(q.wait[y]) = Waiters(y)
      BY DEF Waiters
    <3> QED BY <2>1, <2>3, <2>4, <3>1, WokenLists
  <2>6. err'[u] = "error" /\ \A x \in Threads \ {u} : err'[x] = err[x]
    BY <2>1, <2>3 DEF Inv, TypeOK
  <2>7. TypeOK' /\ \A y \in Mutexes : life'[y] = "gone" => life[y] = "gone"
    BY <2>1, <2>5 DEF Inv, TypeOK
  <2>8. FieldsAgree'
    BY <2>1, <2>5, <2>7 DEF Inv, FieldsAgree
  <2>9. WaitersWait'
    BY <2>1, <2>5, <2>6, RunningLemma DEF Inv, WaitersWait
  <2>10. Counts'
    <3>1. \A x \in Threads : \A y \in Mutexes : Handed(x, y)' = Handed(x, y)
      BY <2>1, <2>3, <2>5, <2>6 DEF Handed
    <3> QED BY <2>1, <3>1 DEF Inv, Counts, Times
  <2> QED BY <2>5, <2>7, <2>8, <2>9, <2>10 DEF Inv
<1> QED BY <1>1, <1>2

LEMMA SliceStep ==
    ASSUME MutexAssumption, Inv, SliceEnds
    PROVE  Inv'
<1>1. /\ q' = BackOfLine(q, current) /\ Schedule
      /\ UNCHANGED <<owner, value, hold, orig, armed, err, want, took, life, by>>
  BY DEF SliceEnds, BackOfLine, mutexes, deletion
<1>2. /\ q \in Queues /\ QueuesSound(q) /\ current \in Threads
      /\ q.stat[current] = "ready" /\ Idle \in Threads
  BY RunningLemma DEF Inv, TypeOK, Lists
<1>3. /\ q' \in Queues /\ QueuesSound(q')
      /\ q'.stat = q.stat /\ q'.prio = q.prio /\ q'.wait = q.wait
  BY <1>1, <1>2, BackOfLineLemma
<1>4. current' \in Threads /\ q'.stat[current'] = "ready"
  BY <1>1, <1>2, <1>3, ScheduleLemma DEF Schedule, Inv, Lists
<1>5. \A m \in Mutexes : Waiters(m)' = Waiters(m)
  BY <1>3 DEF Waiters
<1>6. TypeOK' /\ Lists'
  BY <1>1, <1>3, <1>4 DEF Inv, TypeOK, Lists
<1>7. FieldsAgree' /\ WaitersWait'
  BY <1>1, <1>5 DEF Inv, FieldsAgree, WaitersWait
<1>8. Counts'
  BY <1>1, <1>3 DEF Inv, Counts, Times, Handed
<1> QED BY <1>6, <1>7, <1>8 DEF Inv

\* The owner u of a mutex inherits: the lists stay sound, and only the priority
\* of u changes.
LEMMA BoostedLemma ==
    ASSUME Inv, NEW t \in Threads, NEW u \in Threads, NEW r, r = Boosted(q, t, u)
    PROVE  /\ r \in Queues /\ QueuesSound(r) /\ r.stat = q.stat /\ r.wait = q.wait
           /\ \A x \in Threads \ {u} : r.prio[x] = q.prio[x]
           /\ r.prio[u] =< q.prio[t] /\ r.prio[u] =< q.prio[u]
<1>1. q \in Queues /\ QueuesSound(q) /\ \A x \in Threads : q.prio[x] \in Nat
  BY QueueAssumption DEF Inv, TypeOK, Lists, Queues, Prios
<1>2. CASE q.prio[t] < q.prio[u]
  <2> DEFINE p == q.prio[t]
  <2>1. p \in Prios /\ r = Reprioritised(q, u, p)
    BY <1>1, <1>2 DEF Boosted, Queues
  <2> HIDE DEF p
  <2>2. /\ r \in Queues /\ QueuesSound(r) /\ r.stat = q.stat /\ r.wait = q.wait
        /\ r.prio = [q.prio EXCEPT ![u] = p]
    BY <1>1, <2>1, ReprioritisedLemma
  <2>3. r.prio[u] = p /\ \A x \in Threads \ {u} : r.prio[x] = q.prio[x]
    BY <1>1, <2>2 DEF Queues
  <2> QED BY <1>1, <1>2, <2>2, <2>3 DEF p
<1>3. CASE ~(q.prio[t] < q.prio[u])
  <2>1. r = q
    BY <1>3 DEF Boosted
  <2> QED BY <1>1, <1>3, <2>1
<1> QED BY <1>2, <1>3

\* The owner gets back the priority it had when it took m.
LEMMA RestoredLemma ==
    ASSUME MutexAssumption, Inv, NEW t \in Threads, NEW m \in Mutexes, owner[m] = t,
           NEW r, r = Restored(q, t, m)
    PROVE  /\ r \in Queues /\ QueuesSound(r) /\ r.stat = q.stat /\ r.wait = q.wait
           /\ r.prio = [q.prio EXCEPT ![t] = orig[m]] /\ orig[m] \in Prios
<1>1. q \in Queues /\ QueuesSound(q) /\ orig[m] \in Prios
  BY RunningLemma DEF Inv, TypeOK, Lists, FieldsAgree
<1>2. CASE orig[m] # q.prio[t]
  <2> DEFINE p == orig[m]
  <2>1. p \in Prios /\ r = Reprioritised(q, t, p)
    BY <1>1, <1>2 DEF Restored
  <2> HIDE DEF p
  <2>2. /\ r \in Queues /\ QueuesSound(r) /\ r.stat = q.stat /\ r.wait = q.wait
        /\ r.prio = [q.prio EXCEPT ![t] = p]
    BY <1>1, <2>1, ReprioritisedLemma
  <2> QED BY <1>1, <2>2 DEF p
<1>3. CASE orig[m] = q.prio[t]
  <2>1. r = q
    BY <1>3 DEF Restored
  <2>2. q.prio = [q.prio EXCEPT ![t] = orig[m]]
    BY <1>1, <1>3 DEF Queues
  <2> QED BY <1>1, <2>1, <2>2
<1> QED BY <1>2, <1>3

\* t joins the waiters of m; rt_ipc_list_suspend works on sound lists.
LEMMA WaitLemma ==
    ASSUME MutexAssumption, Inv, NEW t \in Threads, NEW m \in Mutexes, current = t,
           owner[m] \in Threads, q' = Wait(Boosted(q, t, owner[m]), m, t)
    PROVE  /\ q' \in Queues /\ QueuesSound(q')
           /\ q'.stat = [q.stat EXCEPT ![t] = "suspend"]
           /\ \A y \in Mutexes : Waiters(y)' = IF y = m THEN Waiters(y) \union {t}
                                                       ELSE Waiters(y)
<1> DEFINE r == Boosted(q, t, owner[m])
<1>1. r \in Queues /\ QueuesSound(r) /\ r.stat = q.stat /\ r.wait = q.wait
  BY BoostedLemma
<1>2. q' = WaitPrio(r, m, t) \/ q' = WaitFifo(r, m, t)
  BY DEF Wait
<1> HIDE DEF r
<1>3. r.stat[t] = "ready" /\ m \in Objects
  BY <1>1 DEF Inv, Lists, Mutexes
<1>4. q' \in Queues /\ QueuesSound(q') /\ Queued(r, q', m, t)
  BY <1>1, <1>2, <1>3, WaitPrioLemma, WaitFifoLemma
<1>5. \A y \in Mutexes : Waiters(y)' = IF y = m THEN Waiters(y) \union {t} ELSE Waiters(y)
  BY <1>1, <1>4 DEF Queued, Waiters, Mutexes
<1> QED BY <1>1, <1>4, <1>5 DEF Queued

LEMMA TakeWaitStep ==
    ASSUME MutexAssumption, Inv, NEW t \in Threads, t # Idle, NEW m \in Mutexes,
           NEW timed \in BOOLEAN, TakeWait(t, m, timed)
    PROVE  Inv'
<1>1. /\ current = t /\ want[t] = NoObject /\ life[m] = "live" /\ owner[m] # t
      /\ value[m] = 0 /\ q' = Wait(Boosted(q, t, owner[m]), m, t)
      /\ armed' = IF timed THEN armed \union {t} ELSE armed \ {t}
      /\ err' = [err EXCEPT ![t] = "ok"] /\ want' = [want EXCEPT ![t] = m] /\ Schedule
      /\ UNCHANGED <<owner, value, hold, orig, took, life, by>>
  BY DEF TakeWait, Runs, deletion
<1>2. owner[m] \in Threads /\ owner[m] # NoThread
  BY <1>1, QueueAssumption DEF Inv, TypeOK, FieldsAgree
<1>3. /\ q' \in Queues /\ QueuesSound(q')
      /\ q'.stat = [q.stat EXCEPT ![t] = "suspend"]
      /\ \A y \in Mutexes : Waiters(y)' = IF y = m THEN Waiters(y) \union {t} ELSE Waiters(y)
  BY <1>1, <1>2, WaitLemma
<1>4. /\ err'[t] = "ok" /\ want'[t] = m
      /\ \A x \in Threads \ {t} : err'[x] = err[x] /\ want'[x] = want[x]
  BY <1>1 DEF Inv, TypeOK
<1>5. /\ Lists' /\ current' \in Threads /\ armed' \subseteq Threads
      /\ \A x \in Threads : q'.stat[x] = IF x = t THEN "suspend" ELSE q.stat[x]
  <2>1. want'[Idle] = NoObject
    BY <1>4, RunningLemma DEF Inv, Lists
  <2>2. armed' \subseteq armed \union {t}
    BY <1>1
  <2> QED BY <1>1, <1>3, <2>1, <2>2, AsleepLists
<1>6. TypeOK'
  BY <1>1, <1>3, <1>5 DEF Inv, TypeOK
<1>7. FieldsAgree'
  BY <1>1, <1>2, <1>3 DEF Inv, FieldsAgree
<1>8. WaitersWait'
  BY <1>1, <1>3, <1>4, RunningLemma DEF Inv, WaitersWait
<1>9. Counts'
  <2>1. \A x \in Threads : \A y \in Mutexes : Handed(x, y)' = Handed(x, y)
    BY <1>1, <1>4, <1>5, RunningLemma DEF Handed
  <2> QED BY <1>1, <2>1 DEF Inv, Counts, Times
<1> QED BY <1>5, <1>6, <1>7, <1>8, <1>9 DEF Inv

\* What rt_mutex_release takes back from the owner that releases for the last time
LEMMA ReleasedTook ==
    ASSUME MutexAssumption, Inv, NEW t \in Threads, NEW m \in Mutexes, ReleaseLast(t, m)
    PROVE  /\ current = t /\ want[t] = NoObject /\ owner[m] = t /\ hold[m] = 1
           /\ q.stat[t] = "ready" /\ value[m] = 0 /\ t # NoThread
           /\ UNCHANGED <<err, want, life, by>>
           /\ took' \in [Threads -> [Mutexes -> 0..MaxHold]]
           /\ \A x \in Threads : \A y \in Mutexes :
                 took'[x][y] = IF x = t /\ y = m THEN 0 ELSE took[x][y]
<1>1. /\ current = t /\ want[t] = NoObject /\ owner[m] = t /\ hold[m] = 1
      /\ took' = [took EXCEPT ![t][m] = took[t][m] - 1]
      /\ UNCHANGED <<err, want, life, by>>
  BY DEF ReleaseLast, Runs, deletion
<1>2. took[t][m] = 1 /\ t # NoThread /\ q.stat[t] = "ready" /\ value[m] = 0
  BY <1>1, OwnerTook, RunningLemma DEF Inv, Lists, FieldsAgree
<1>3. took' = [took EXCEPT ![t][m] = 0] /\ 0 \in 0..MaxHold
  BY <1>1, <1>2, MutexAssumption
<1>4. /\ took' \in [Threads -> [Mutexes -> 0..MaxHold]]
      /\ \A x \in Threads : \A y \in Mutexes :
            took'[x][y] = IF x = t /\ y = m THEN 0 ELSE took[x][y]
  BY <1>3 DEF Inv, TypeOK
<1> QED BY <1>1, <1>2, <1>4

LEMMA HandOverStep ==
    ASSUME MutexAssumption, Inv, NEW t \in Threads, NEW m \in Mutexes,
           ReleaseLast(t, m), q.wait[m] # <<>>
    PROVE  Inv'
<1>2. /\ current = t /\ want[t] = NoObject /\ owner[m] = t /\ hold[m] = 1
      /\ q.stat[t] = "ready" /\ value[m] = 0 /\ t # NoThread
      /\ UNCHANGED <<err, want, life, by>>
  BY ReleasedTook
<1>13. /\ took' \in [Threads -> [Mutexes -> 0..MaxHold]]
       /\ \A x \in Threads : \A y \in Mutexes :
             took'[x][y] = IF x = t /\ y = m THEN 0 ELSE took[x][y]
  BY ReleasedTook
<1>14. owner[m] = t
  BY <1>2
<1>3. PICK r \in Queues : /\ r = Restored(q, t, m)
                          /\ QueuesSound(r) /\ r.stat = q.stat /\ r.wait = q.wait
  BY <1>14, RestoredLemma
<1>4. PICK u \in Waiters(m) : u = Head(r.wait[m])
  BY <1>3, EmptyLemma DEF Queues, Mutexes, Waiters
<1>1. /\ owner' = [owner EXCEPT ![m] = u] /\ orig' = [orig EXCEPT ![m] = r.prio[u]]
      /\ q' = Resumed(r, u) /\ armed' = armed \ {u} /\ Schedule
      /\ UNCHANGED <<value, hold>>
  BY <1>3, <1>4 DEF ReleaseLast, HandOver
<1>5. /\ u \in Threads /\ u # t /\ u # NoThread /\ q.stat[u] = "suspend"
      /\ want[u] = m /\ err[u] = "ok" /\ r.prio[u] \in Prios
  BY <1>2, <1>3, <1>4, RunningLemma DEF Inv, WaitersWait, Queues
<1>6. q' = InsertThread(Unlinked(r, u), u)
  BY <1>1, <1>3, <1>5 DEF Resumed
<1>7. /\ Lists' /\ q' \in Queues /\ current' \in Threads /\ armed' \subseteq Threads
      /\ \A x \in Threads : q'.stat[x] = IF x = u THEN "ready" ELSE q.stat[x]
      /\ \A y \in Mutexes : Waiters(y)' = Waiters(y) \ {u}
  <2>1. \A y \in Mutexes : Range(r.wait[y]) = Waiters(y)
    BY <1>3 DEF Waiters
  <2> QED BY <1>1, <1>2, <1>3, <1>5, <1>6, <2>1, WokenLists
<1>8. /\ owner'[m] = u /\ orig'[m] = r.prio[u]
      /\ \A y \in Mutexes \ {m} : owner'[y] = owner[y] /\ orig'[y] = orig[y]
  BY <1>1 DEF Inv, TypeOK
<1>9. TypeOK'
  <2>1. /\ owner' \in [Mutexes -> Threads \union {NoThread}]
        /\ orig' \in [Mutexes -> Prios \union {NoPrio}]
    BY <1>1, <1>5 DEF Inv, TypeOK
  <2> QED BY <1>1, <1>2, <1>7, <1>13, <2>1 DEF Inv, TypeOK
<1>10. FieldsAgree'
  BY <1>1, <1>2, <1>5, <1>7, <1>8 DEF Inv, FieldsAgree
<1>11. WaitersWait'
  BY <1>2, <1>7, <1>8 DEF Inv, WaitersWait
<1>12. Counts'
  <2> SUFFICES ASSUME NEW x \in Threads, NEW y \in Mutexes
               PROVE  Times(x, y)' = IF owner'[y] = x THEN hold'[y] ELSE 0
    BY DEF Counts
  <2>1. Times(x, y) = IF owner[y] = x THEN hold[y] ELSE 0
    BY DEF Inv, Counts
  <2>2. took[u][m] = 0
    <3>1. Times(u, m) = 0
      BY <1>2, <1>5 DEF Inv, Counts
    <3>2. ~Handed(u, m) /\ took[u][m] \in 0..MaxHold
      BY <1>5 DEF Handed, Inv, TypeOK
    <3> QED BY <3>1, <3>2, MutexAssumption DEF Times
  <2>3. CASE x = u /\ y = m
    <3>1. Handed(u, m)'
      BY <1>2, <1>5, <1>7 DEF Handed
    <3>2. took'[u][m] = 0
      BY <1>5, <1>13, <2>2
    <3> QED BY <1>1, <1>2, <1>8, <2>3, <3>1, <3>2 DEF Times
  <2>4. CASE x = t /\ y = m
    <3>1. ~Handed(t, m)' /\ took'[t][m] = 0
      BY <1>2, <1>13, RunningLemma DEF Handed
    <3> QED BY <1>5, <1>8, <2>4, <3>1 DEF Times
  <2>5. CASE ~(x = u /\ y = m) /\ ~(x = t /\ y = m)
    <3>1. Handed(x, y)' = Handed(x, y)
      BY <1>2, <1>5, <1>7, <2>5 DEF Handed
    <3>2. Times(x, y)' = Times(x, y)
      BY <1>13, <2>5, <3>1 DEF Times
    <3> HIDE DEF Times
    <3> QED BY <1>1, <1>2, <1>8, <2>1, <2>5, <3>2
  <2> QED BY <2>3, <2>4, <2>5
<1> QED BY <1>7, <1>9, <1>10, <1>11, <1>12 DEF Inv

LEMMA SetFreeStep ==
    ASSUME MutexAssumption, Inv, NEW t \in Threads, NEW m \in Mutexes,
           ReleaseLast(t, m), q.wait[m] = <<>>
    PROVE  Inv'
<1>1. /\ q' = Restored(q, t, m) /\ hold' = [hold EXCEPT ![m] = 0]
      /\ value' = [value EXCEPT ![m] = value[m] + 1]
      /\ owner' = [owner EXCEPT ![m] = NoThread] /\ orig' = [orig EXCEPT ![m] = NoPrio]
      /\ UNCHANGED <<current, armed>>
  BY DEF ReleaseLast, SetFree
<1>2. /\ current = t /\ want[t] = NoObject /\ owner[m] = t /\ hold[m] = 1
      /\ q.stat[t] = "ready" /\ value[m] = 0 /\ t # NoThread
      /\ UNCHANGED <<err, want, life, by>>
  BY ReleasedTook
<1>13. /\ took' \in [Threads -> [Mutexes -> 0..MaxHold]]
       /\ \A x \in Threads : \A y \in Mutexes :
             took'[x][y] = IF x = t /\ y = m THEN 0 ELSE took[x][y]
  BY ReleasedTook
<1>14. owner[m] = t
  BY <1>2
<1>3. q' \in Queues /\ QueuesSound(q') /\ q'.stat = q.stat /\ q'.wait = q.wait
  <2>1. PICK r \in Queues : /\ r = Restored(q, t, m)
                            /\ QueuesSound(r) /\ r.stat = q.stat /\ r.wait = q.wait
    BY <1>14, RestoredLemma
  <2> QED BY <1>1, <2>1
<1>4. /\ owner'[m] = NoThread /\ value'[m] = 1 /\ hold'[m] = 0
      /\ \A y \in Mutexes \ {m} : /\ owner'[y] = owner[y] /\ value'[y] = value[y]
                                  /\ hold'[y] = hold[y] /\ orig'[y] = orig[y]
  BY <1>1, <1>2 DEF Inv, TypeOK
<1>5. Waiters(m) = {} /\ \A y \in Mutexes : Waiters(y)' = Waiters(y)
  BY <1>3 DEF Waiters, Range
<1>6. TypeOK'
  <2>1. 0 \in 0..MaxHold /\ value[m] + 1 = 1
    BY <1>2, MutexAssumption
  <2>2. /\ owner' \in [Mutexes -> Threads \union {NoThread}]
        /\ orig' \in [Mutexes -> Prios \union {NoPrio}]
        /\ hold' \in [Mutexes -> 0..MaxHold] /\ value' \in [Mutexes -> {0, 1}]
    BY <1>1, <2>1 DEF Inv, TypeOK
  <2> QED BY <1>1, <1>2, <1>3, <1>13, <2>2 DEF Inv, TypeOK
<1>7. Lists'
  BY <1>1, <1>2, <1>3 DEF Inv, Lists
<1>8. FieldsAgree'
  BY <1>2, <1>4, <1>5 DEF Inv, FieldsAgree
<1>9. WaitersWait'
  BY <1>2, <1>4, <1>5 DEF Inv, WaitersWait
<1>10. Counts'
  <2> SUFFICES ASSUME NEW x \in Threads, NEW y \in Mutexes
               PROVE  Times(x, y)' = IF owner'[y] = x THEN hold'[y] ELSE 0
    BY DEF Counts
  <2>1. Times(x, y) = IF owner[y] = x THEN hold[y] ELSE 0
    BY DEF Inv, Counts
  <2>2. Handed(x, y)' = Handed(x, y) /\ ~Handed(t, m)
    BY <1>2, <1>3, RunningLemma DEF Handed
  <2>3. CASE x = t /\ y = m
    BY <1>4, <1>13, <2>2, <2>3 DEF Times
  <2>4. CASE ~(x = t /\ y = m)
    <3>1. Times(x, y)' = Times(x, y)
      BY <1>13, <2>2, <2>4 DEF Times
    <3> HIDE DEF Times
    <3> QED BY <1>2, <1>4, <2>1, <2>4, <3>1, RunningLemma
  <2> QED BY <2>3, <2>4
<1> QED BY <1>6, <1>7, <1>8, <1>9, <1>10 DEF Inv

-----------------------------------------------------------------------------
(* The initial states                                                       *)

\* The lists of an application all of whose threads were started.
LEMMA StartedLists ==
    ASSUME MutexAssumption, Init
    PROVE  q \in Queues /\ QueuesSound(q) /\ \A t \in Threads : q.stat[t] = "ready"
<1> DEFINE At(p) == {t \in Threads : Base[t] = p}
           f == [p \in Prios |-> SetToSeq(At(p))]
           g == {Base[t] : t \in Threads}
           w == [o \in Objects |-> <<>>]
           d == [t \in Threads |-> "ready"]
           e == <<>>
<1>1. q = [stat |-> d, prio |-> Base, ready |-> f, group |-> g, wait |-> w, defunct |-> e]
  BY DEF Init, Mutexes
<1>2. ASSUME NEW p \in Prios
      PROVE  f[p] \in Seq(Threads) /\ Distinct(f[p]) /\ Range(f[p]) = At(p)
  <2>1. IsFiniteSet(At(p))
    BY MutexAssumption, FS_Subset
  <2>2. f[p] = SetToSeq(At(p))
    OBVIOUS
  <2> HIDE DEF f
  <2>3. f[p] \in Seq(At(p)) /\ Range(f[p]) = At(p) /\ Distinct(f[p])
    <3> HIDE DEF At
    <3> QED BY <2>1, <2>2, SetToSeqLemma DEF Distinct
  <2>4. At(p) \subseteq Threads
    OBVIOUS
  <2> QED BY <2>3, <2>4
<1>3. /\ f \in [Prios -> Seq(Threads)] /\ g \in SUBSET Prios
      /\ w \in [Objects -> Seq(Threads)] /\ d \in [Threads -> Stats] /\ e \in Seq(Threads)
      /\ Base \in [Threads -> Prios]
  <2>1. e \in Seq(Threads)
    OBVIOUS
  <2>2. f = [p \in Prios |-> f[p]]
    OBVIOUS
  <2> HIDE DEF f, e, At
  <2>3. f \in [Prios -> Seq(Threads)]
    BY <1>2, <2>2
  <2> QED BY <2>1, <2>3, MutexAssumption DEF Stats, e
<1>4. \A o \in Objects : w[o] = <<>>
  OBVIOUS
<1>5. \A t \in Threads : d[t] = "ready"
  OBVIOUS
<1>6. \A t \in Threads : \A p \in Prios : t \in At(p) <=> Base[t] = p
  OBVIOUS
<1>7. \A p \in Prios : p \in g <=> At(p) # {}
  OBVIOUS
<1>8. e = <<>> /\ Range(<<>>) = {} /\ Distinct(<<>>)
  BY DEF Range, Distinct
<1>9. \A p \in Prios : At(p) \subseteq Threads
  OBVIOUS
<1> HIDE DEF f, g, w, d, e, At
<1>10. q \in Queues
  BY <1>1, <1>3, QueuesIntro
<1>11. /\ q.stat = d /\ q.prio = Base /\ q.ready = f /\ q.group = g /\ q.wait = w
       /\ q.defunct = e
  BY <1>1
<1>12. ListsSound(q)
  BY <1>2, <1>4, <1>5, <1>6, <1>8, <1>9, <1>11 DEF ListsSound
<1>13. ReadyLinked(q)
  BY <1>2, <1>3, <1>6, <1>11 DEF ReadyLinked
<1>14. GroupExact(q)
  <2>1. \A p \in Prios : f[p] # <<>> <=> At(p) # {}
    BY <1>2, EmptyLemma
  <2> QED BY <1>7, <1>11, <2>1 DEF GroupExact
<1> QED BY <1>5, <1>10, <1>11, <1>12, <1>13, <1>14 DEF QueuesSound

LEMMA InitLemma ==
    ASSUME MutexAssumption, Init
    PROVE  Inv
<1>1. /\ owner = [m \in Mutexes |-> NoThread] /\ value = [m \in Mutexes |-> 1]
      /\ hold = [m \in Mutexes |-> 0] /\ orig = [m \in Mutexes |-> NoPrio]
      /\ armed = {} /\ err = [t \in Threads |-> "ok"]
      /\ want = [t \in Threads |-> NoObject]
      /\ life = [m \in Mutexes |-> "live"] /\ by = [m \in Mutexes |-> NoThread]
      /\ took = [t \in Threads |-> [m \in Mutexes |-> 0]]
      /\ current = NextThread(q) /\ q.wait = [m \in Mutexes |-> <<>>]
  BY DEF Init
<1>2. q \in Queues /\ QueuesSound(q) /\ \A t \in Threads : q.stat[t] = "ready"
  BY StartedLists
<1>3. current \in Threads /\ q.stat[current] = "ready" /\ Idle \in Threads
  BY <1>1, <1>2, ScheduleLemma, MutexAssumption
<1>4. \A m \in Mutexes : Waiters(m) = {}
  BY <1>1 DEF Waiters, Range
<1>5. TypeOK
  <2>1. 0 \in 0..MaxHold
    BY MutexAssumption
  <2> QED BY <1>1, <1>2, <1>3, <2>1 DEF TypeOK
<1>6. Lists
  BY <1>1, <1>2, <1>3 DEF Lists
<1>7. FieldsAgree
  BY <1>1, <1>4 DEF FieldsAgree
<1>8. WaitersWait
  BY <1>4 DEF WaitersWait
<1>9. Counts
  <2>1. \A t \in Threads : \A m \in Mutexes : ~Handed(t, m)
    BY <1>1, MutexAssumption DEF Handed, Mutexes
  <2>2. \A t \in Threads : NoThread # t
    BY QueueAssumption
  <2> QED BY <1>1, <2>1, <2>2 DEF Counts, Times
<1> QED BY <1>5, <1>6, <1>7, <1>8, <1>9 DEF Inv

-----------------------------------------------------------------------------
(* The theorems for any threads and mutexes                                 *)

\* Every step of a thread is one of the lemmas' above.
LEMMA InvKept ==
    ASSUME MutexAssumption, Inv, Next
    PROVE  Inv'
<1>1. ASSUME NEW t \in Threads, NEW m \in Mutexes, Take(t, m)
      PROVE  Inv'
  <2>1. t # Idle
    <3>1. Calls[t] # {}
      BY <1>1 DEF Take
    <3> QED BY <3>1, MutexAssumption
  <2>2. CASE TakeFree(t, m) \/ TakeAgain(t, m)
    BY <2>2, TakeFreeStep, TakeAgainStep
  <2>3. CASE TakeWait(t, m, FALSE)
    <3>1. PICK timed \in BOOLEAN : TakeWait(t, m, timed)
      BY <2>3
    <3> QED BY <2>1, <3>1, TakeWaitStep
  <2>4. CASE TakeWait(t, m, TRUE)
    <3>1. PICK timed \in BOOLEAN : TakeWait(t, m, timed)
      BY <2>4
    <3> QED BY <2>1, <3>1, TakeWaitStep
  <2> QED BY <1>1, <2>2, <2>3, <2>4 DEF Take
<1>2. ASSUME NEW t \in Threads, NEW m \in Mutexes, Release(t, m)
      PROVE  Inv'
  <2>1. CASE ReleaseNested(t, m)
    BY <2>1, ReleaseNestedStep
  <2>2. CASE ReleaseLast(t, m)
    BY <2>2, HandOverStep, SetFreeStep
  <2> QED BY <1>2, <2>1, <2>2 DEF Release
<1>3. ASSUME NEW t \in Threads, NEW m \in Mutexes, DeleteCheck(t, m) \/ DeleteTake(t, m)
      PROVE  Inv'
  BY <1>3, DeleteCheckStep, DeleteTakeStep
<1>4. ASSUME NEW t \in Threads, "delay" \in Calls[t] /\ Delay(t)
      PROVE  Inv'
  <2>1. t # Idle
    BY <1>4, MutexAssumption
  <2> QED BY <1>4, <2>1, DelayStep
<1>5. ASSUME NEW t \in Threads, TakeReturn(t) \/ Timeout(t)
      PROVE  Inv'
  BY <1>5, TakeReturnStep, TimeoutStep
<1>6. ASSUME SliceEnds
      PROVE  Inv'
  BY <1>6, SliceStep
<1> QED BY <1>1, <1>2, <1>3, <1>4, <1>5, <1>6 DEF Next

\* The invariant holds in every reachable state.
LEMMA InvHolds == ASSUME MutexAssumption PROVE Spec => []Inv
<1>1. Init => Inv
  BY InitLemma
<1>2. Inv /\ [Next]_vars => Inv'
  <2>1. ASSUME Inv, UNCHANGED vars PROVE Inv'
    <3>1. /\ q' = q /\ current' = current /\ owner' = owner /\ value' = value
          /\ hold' = hold /\ orig' = orig /\ armed' = armed /\ err' = err
          /\ want' = want /\ life' = life /\ by' = by /\ took' = took
      BY <2>1 DEF vars, mutexes, deletion
    <3>2. TypeOK' /\ Lists'
      BY <2>1, <3>1 DEF Inv, TypeOK, Lists
    <3>3. \A m \in Mutexes : Waiters(m)' = Waiters(m)
      BY <3>1 DEF Waiters
    <3>4. FieldsAgree' /\ WaitersWait'
      BY <2>1, <3>1, <3>3 DEF Inv, FieldsAgree, WaitersWait
    <3>5. Counts'
      BY <2>1, <3>1 DEF Inv, Counts, Times, Handed
    <3> QED BY <3>2, <3>4, <3>5 DEF Inv
  <2> QED BY <2>1, InvKept
<1> QED BY <1>1, <1>2, PTL DEF Spec

\* Mutual exclusion of the callers of rt_mutex_take: mutex->owner and mutex->hold
\* say what return values told the threads, whatever times out, is handed over
\* or is deleted in between.
THEOREM Exclusion == ASSUME MutexAssumption PROVE Spec => []OwnerAgrees
<1>1. Inv => OwnerAgrees
  BY InvProperties
<1> QED BY <1>1, InvHolds, PTL

\* A mutex that nobody owns has no waiters, one that is deleted neither, and the
\* variables keep their types.
THEOREM NoLostWakeUp == ASSUME MutexAssumption PROVE Spec => []FreeWithoutWaiters
<1>1. Inv => FreeWithoutWaiters
  BY InvProperties
<1> QED BY <1>1, InvHolds, PTL

-----------------------------------------------------------------------------
(* When the running thread may not be the most urgent one                   *)

\* Nothing else became less urgent or unready when the running thread t went from
\* priority q.prio[t] to a lower number, so rt_schedule would still pick it.
LEMMA StillFirst ==
    ASSUME NEW r \in Queues, QueuesSound(r), NEW t \in Threads, t = NextThread(q),
           q \in Queues, QueuesSound(q), q.stat[t] = "ready", r.stat = q.stat,
           \A x \in Threads \ {t} : r.prio[x] = q.prio[x], r.prio[t] < q.prio[t]
    PROVE  NextThread(r) = t
<1>1. PICK n \in Threads : /\ n = NextThread(r) /\ r.stat[n] = "ready"
                           /\ r.prio[n] =< r.prio[t]
  BY NextLemma
<1>2. SUFFICES ASSUME n # t PROVE FALSE
  BY <1>1
<1>3. q.prio[t] =< q.prio[n]
  BY <1>1, NextLemma
<1>4. r.prio[n] = q.prio[n] /\ q.prio[n] \in Nat /\ q.prio[t] \in Nat /\ r.prio[t] \in Nat
  BY <1>2, QueueAssumption DEF Queues, Prios
<1> QED BY <1>1, <1>3, <1>4

\* A release that wakes nobody: t is not the thread to run any more only if it
\* got less urgent.
LEMMA LateRelease ==
    ASSUME MutexAssumption, Inv, NEW t \in Threads, NEW m \in Mutexes,
           ReleaseLast(t, m), q.wait[m] = <<>>,
           current = NextThread(q), current' # NextThread(q')
    PROVE  /\ current' = current /\ q'.stat = q.stat
           /\ q.prio[current] < q'.prio[current]
           /\ owner[m] = current /\ owner'[m] = NoThread
<1>1. /\ q' = Restored(q, t, m) /\ owner' = [owner EXCEPT ![m] = NoThread]
      /\ current' = current
  BY DEF ReleaseLast, SetFree
<1>2. current = t /\ owner[m] = t /\ q.stat[t] = "ready"
  BY ReleasedTook
<1>3. owner[m] = t
  BY <1>2
<1>4. PICK r \in Queues : /\ r = Restored(q, t, m) /\ QueuesSound(r) /\ r.stat = q.stat
                          /\ r.prio = [q.prio EXCEPT ![t] = orig[m]]
  BY <1>3, RestoredLemma
<1>5. q \in Queues /\ QueuesSound(q)
  BY DEF Inv, TypeOK, Lists
<1>6. \A x \in Threads \ {t} : r.prio[x] = q.prio[x]
  BY <1>4, <1>5 DEF Queues
<1>7. q.prio[t] \in Nat /\ r.prio[t] \in Nat
  BY <1>5, QueueAssumption DEF Queues, Prios
<1>8. NextThread(r) # t /\ t = NextThread(q)
  BY <1>1, <1>2, <1>4
<1>9. ~(r.prio[t] < q.prio[t])
  BY <1>2, <1>4, <1>5, <1>6, <1>8, StillFirst
<1>10. r.prio[t] # q.prio[t]
  <2>1. orig[m] = q.prio[t] => r = q
    BY <1>4 DEF Restored
  <2>2. r.prio[t] = orig[m]
    BY <1>4, <1>5 DEF Queues
  <2> QED BY <1>8, <2>1, <2>2
<1>11. owner'[m] = NoThread
  BY <1>1 DEF Inv, TypeOK
<1> QED BY <1>1, <1>2, <1>4, <1>7, <1>9, <1>10, <1>11

\* The two calls that change the lists and do not call rt_schedule.
LEMMA LateStep ==
    ASSUME MutexAssumption, Inv, Next, current = NextThread(q), current' # NextThread(q')
    PROVE  /\ current' = current
           /\ \/ /\ q'.stat = q.stat /\ q.prio[current] < q'.prio[current]
                 /\ \E m \in Mutexes : owner[m] = current /\ owner'[m] = NoThread
              \/ \E m \in Mutexes : life[m] = "take" /\ by[m] = current
<1>1. ~Schedule /\ ~(q' = q /\ current' = current)
  BY DEF Schedule
<1>2. \E t \in Threads : \E m \in Mutexes : ReleaseLast(t, m) \/ DeleteTake(t, m)
  <2>1. ~SliceEnds /\ \A t \in Threads : ~Delay(t) /\ ~Timeout(t) /\ ~TakeReturn(t)
    BY <1>1 DEF SliceEnds, Delay, Timeout, TakeReturn
  <2>2. \A t \in Threads : \A m \in Mutexes : ~DeleteCheck(t, m) /\ ~ReleaseNested(t, m)
    BY <1>1 DEF DeleteCheck, ReleaseNested
  <2>3. \A t \in Threads : \A m \in Mutexes : ~Take(t, m)
    BY <1>1 DEF Take, TakeFree, TakeAgain, TakeWait
  <2> QED BY <2>1, <2>2, <2>3 DEF Next, Release
<1>3. PICK t \in Threads, m \in Mutexes : ReleaseLast(t, m) \/ DeleteTake(t, m)
  BY <1>2
<1>4. CASE ReleaseLast(t, m)
  <2>1. q.wait[m] = <<>>
    BY <1>1, <1>4 DEF ReleaseLast, HandOver
  <2> QED BY <1>4, <2>1, LateRelease
<1>5. CASE DeleteTake(t, m)
  BY <1>5 DEF DeleteTake
<1> QED BY <1>3, <1>4, <1>5

\* The running thread stops being the most urgent ready one only in a release
\* that wakes nobody and takes from it what it had inherited, or in rt_mutex_delete;
\* every other call and interrupt ends with rt_schedule.
THEOREM LateRunner == ASSUME MutexAssumption PROVE Spec => LateOnlyAfterRestore
<1> DEFINE Late ==
      current = NextThread(q) /\ current' # NextThread(q') =>
          /\ current' = current
          /\ \/ /\ q'.stat = q.stat /\ q.prio[current] < q'.prio[current]
                /\ \E m \in Mutexes : owner[m] = current /\ owner'[m] = NoThread
             \/ \E m \in Mutexes : life[m] = "take" /\ by[m] = current
<1>1. Inv /\ [Next]_vars => [Late]_vars
  BY LateStep
<1> QED BY <1>1, InvHolds, PTL DEF Spec, LateOnlyAfterRestore

-----------------------------------------------------------------------------
(* One mutex made with RT_IPC_FLAG_PRIO: inheritance                        *)

SingleMutex == \E m \in Mutexes : Mutexes = {m} /\ Ordered = {m}

\* Its waiters are in the order of their priorities: only an owner's changes, and
\* an owner does not wait for what it owns.
Sorted == \A m \in Mutexes : InOrder(q.wait[m], q.prio)

\* original_priority is what the owner was made with: nothing else could have
\* changed its priority before the take.
Original == \A m \in Mutexes : owner[m] # NoThread => orig[m] = Base[owner[m]]

SingleInv == Inv /\ Sorted /\ Original /\ Inherits /\ RestoredAll

\* Priorities stay, and threads may leave the list: a time-out, a deletion, a delay.
LEMMA PriosKept ==
    ASSUME MutexAssumption, SingleInv, Inv', q'.prio = q.prio,
           UNCHANGED <<owner, orig>>,
           \A m \in Mutexes : \/ q'.wait[m] = q.wait[m]
                              \/ \E u : q'.wait[m] = Unlink(q.wait[m], u)
    PROVE  SingleInv'
<1>1. \A m \in Mutexes : q.wait[m] \in Seq(Threads) /\ Distinct(q.wait[m])
  BY DEF SingleInv, Inv, TypeOK, Lists, QueuesSound, ListsSound, Queues, Mutexes
<1>2. ASSUME NEW m \in Mutexes
      PROVE  InOrder(q'.wait[m], q.prio) /\ Range(q'.wait[m]) \subseteq Range(q.wait[m])
  <2>1. InOrder(q.wait[m], q.prio)
    BY DEF SingleInv, Sorted
  <2>2. CASE q'.wait[m] = q.wait[m]
    BY <2>1, <2>2
  <2>3. CASE \E u : q'.wait[m] = Unlink(q.wait[m], u)
    <3>1. PICK u : q'.wait[m] = Unlink(q.wait[m], u)
      BY <2>3
    <3> QED BY <1>1, <2>1, <3>1, UnlinkInOrder, UnlinkLemma
  <2> QED BY <2>2, <2>3
<1>3. Sorted'
  BY <1>2 DEF Sorted
<1>4. Original' /\ RestoredAll'
  BY DEF SingleInv, Original, RestoredAll
<1>5. Inherits'
  BY <1>2 DEF SingleInv, Inherits
<1> QED BY <1>3, <1>4, <1>5 DEF SingleInv

\* Waking u takes it off the list it is on.
LEMMA WokenWait ==
    ASSUME NEW r \in Queues, NEW u \in Threads
    PROVE  \A o \in Objects : InsertThread(Unlinked(r, u), u).wait[o] = Unlink(r.wait[o], u)
<1>1. InsertThread(Unlinked(r, u), u).wait = Unlinked(r, u).wait
  BY DEF InsertThread, Unlinked, Queues
<1>2. Unlinked(r, u).wait = [o \in Objects |-> Unlink(r.wait[o], u)]
  BY DEF Unlinked, Queues
<1> QED BY <1>1, <1>2

\* A free mutex is taken at the priority the thread was made with.
LEMMA SingleTakeFree ==
    ASSUME MutexAssumption, SingleMutex, SingleInv, Inv',
           NEW t \in Threads, NEW m \in Mutexes, TakeFree(t, m)
    PROVE  SingleInv'
<1>1. /\ q' = q /\ owner' = [owner EXCEPT ![m] = t] /\ orig' = [orig EXCEPT ![m] = q.prio[t]]
      /\ owner[m] # t /\ value[m] > 0
  BY DEF TakeFree
<1>2. owner'[m] = t /\ orig'[m] = q.prio[t]
  BY <1>1 DEF SingleInv, Inv, TypeOK
<1>3. \A y \in Mutexes : y = m
  BY DEF SingleMutex
<1>4. owner[m] = NoThread /\ Waiters(m) = {}
  BY <1>1 DEF SingleInv, Inv, FieldsAgree
<1>5. q.prio[t] = Base[t]
  BY <1>1, <1>3 DEF SingleInv, RestoredAll
<1>6. Sorted' /\ Original'
  BY <1>1, <1>2, <1>3, <1>5 DEF SingleInv, Sorted, Original
<1>7. Inherits'
  BY <1>1, <1>3, <1>4 DEF Inherits, Waiters
<1>8. RestoredAll'
  BY <1>1, <1>2, <1>3, <1>4, RunningLemma DEF SingleInv, RestoredAll
<1> QED BY <1>6, <1>7, <1>8 DEF SingleInv

\* A waiter joins the list in its place, and the owner is at least as urgent.
LEMMA SingleTakeWait ==
    ASSUME MutexAssumption, SingleMutex, SingleInv, Inv',
           NEW t \in Threads, NEW m \in Mutexes, NEW timed \in BOOLEAN,
           TakeWait(t, m, timed)
    PROVE  SingleInv'
<1>1. /\ current = t /\ owner[m] # t /\ value[m] = 0
      /\ q' = Wait(Boosted(q, t, owner[m]), m, t)
      /\ UNCHANGED <<owner, orig>>
  BY DEF TakeWait, Runs
<1>2. PICK w \in Threads : w = owner[m] /\ w # NoThread
  BY <1>1, QueueAssumption DEF SingleInv, Inv, TypeOK, FieldsAgree
<1>3. PICK r \in Queues :
         /\ r = Boosted(q, t, w) /\ QueuesSound(r) /\ r.stat = q.stat /\ r.wait = q.wait
         /\ \A x \in Threads \ {w} : r.prio[x] = q.prio[x]
         /\ r.prio[w] =< q.prio[t] /\ r.prio[w] =< q.prio[w]
  BY BoostedLemma DEF SingleInv
<1>4. \A y \in Mutexes : y = m
  BY DEF SingleMutex
<1>5. q' = WaitPrio(r, m, t)
  <2>1. m \in Ordered
    BY DEF SingleMutex
  <2> QED BY <1>1, <1>2, <1>3, <2>1 DEF Wait
<1>6. r.stat[t] = "ready" /\ m \in Objects
  BY <1>1, <1>3 DEF SingleInv, Inv, Lists, Mutexes
<1>7. PICK i : /\ PlaceFor(r, r.wait[m], t, i) /\ q'.wait[m] = InsertAt(r.wait[m], i, t)
               /\ q'.prio = r.prio /\ Range(q'.wait[m]) = Range(r.wait[m]) \union {t}
  <2>1. /\ Queued(r, q', m, t)
        /\ \E i : /\ PlaceFor(r, r.wait[m], t, i)
                  /\ \A x \in Objects :
                        q'.wait[x] = IF x = m THEN InsertAt(r.wait[m], i, t) ELSE r.wait[x]
    BY <1>3, <1>5, <1>6, WaitPrioLemma
  <2> QED BY <1>6, <2>1 DEF Queued
<1>8. \A x \in Range(q.wait[m]) : x \in Threads /\ x # w /\ r.prio[x] = q.prio[x]
  <2>1. \A x \in Range(q.wait[m]) : x \in Threads /\ x # w
    BY <1>2, RunningLemma DEF SingleInv, Inv, WaitersWait, Waiters
  <2> QED BY <1>3, <2>1
<1>9. q.wait[m] \in Seq(Threads) /\ InOrder(q.wait[m], q.prio)
  BY <1>6 DEF SingleInv, Inv, TypeOK, Queues, Sorted
<1>10. Sorted'
  <2>1. InOrder(q.wait[m], r.prio)
    BY <1>8, <1>9, OrderSame
  <2>2. InOrder(q'.wait[m], r.prio)
    BY <1>3, <1>7, <1>9, <2>1, InsertInOrder
  <2> QED BY <1>4, <1>7, <2>2 DEF Sorted
<1>11. Inherits'
  <2>1. \A x \in Threads : q.prio[x] \in Nat /\ r.prio[x] \in Nat
    BY <1>3, QueueAssumption DEF SingleInv, Inv, TypeOK, Queues, Prios
  <2>2. ASSUME NEW x \in Range(q.wait[m]) PROVE r.prio[w] =< r.prio[x]
    <3>1. q.prio[w] =< q.prio[x]
      BY <1>2 DEF SingleInv, Inherits
    <3>2. x \in Threads /\ r.prio[x] = q.prio[x]
      BY <1>8
    <3>3. r.prio[w] =< q.prio[w]
      BY <1>3
    <3> QED BY <2>1, <3>1, <3>2, <3>3
  <2>3. r.prio[w] =< r.prio[t]
    BY <1>1, <1>2, <1>3
  <2>4. \A x \in Range(q'.wait[m]) : q'.prio[w] =< q'.prio[x]
    BY <1>3, <1>7, <2>2, <2>3
  <2>5. owner'[m] = w
    BY <1>1, <1>2
  <2> QED BY <1>4, <2>4, <2>5 DEF Inherits
<1>12. Original'
  BY <1>1 DEF SingleInv, Original
<1>13. RestoredAll'
  <2> SUFFICES ASSUME NEW x \in Threads, owner[m] # x PROVE r.prio[x] = Base[x]
    BY <1>1, <1>7 DEF RestoredAll
  <2>1. q.prio[x] = Base[x]
    BY <1>4 DEF SingleInv, RestoredAll
  <2> QED BY <1>2, <1>3, <2>1
<1> QED BY <1>10, <1>11, <1>12, <1>13 DEF SingleInv

\* The owner is back at its own priority; the new one is the most urgent waiter.
LEMMA SingleHandOver ==
    ASSUME MutexAssumption, SingleMutex, SingleInv, Inv',
           NEW t \in Threads, NEW m \in Mutexes, ReleaseLast(t, m), q.wait[m] # <<>>
    PROVE  SingleInv'
<1>1. current = t /\ owner[m] = t /\ t # NoThread
  BY ReleasedTook DEF SingleInv
<1>2. owner[m] = t
  BY <1>1
<1>3. PICK r \in Queues : /\ r = Restored(q, t, m) /\ QueuesSound(r) /\ r.stat = q.stat
                          /\ r.wait = q.wait /\ r.prio = [q.prio EXCEPT ![t] = orig[m]]
  BY <1>2, RestoredLemma DEF SingleInv
<1>4. \A y \in Mutexes : y = m
  BY DEF SingleMutex
<1>5. /\ q.wait[m] \in Seq(Threads) /\ Distinct(q.wait[m]) /\ InOrder(q.wait[m], q.prio)
      /\ q.prio \in [Threads -> Prios] /\ m \in Objects
  BY DEF SingleInv, Inv, TypeOK, Lists, QueuesSound, ListsSound, Queues, Sorted, Mutexes
<1>6. PICK u \in Threads : /\ u = Head(q.wait[m]) /\ u \in Range(q.wait[m])
                           /\ \A x \in Range(q.wait[m]) : q.prio[u] =< q.prio[x]
  <2>1. q.prio \in [Threads -> Nat]
    BY <1>5, QueueAssumption DEF Prios
  <2> QED BY <1>5, <2>1, OrderHead, EmptyLemma
<1>7. /\ owner' = [owner EXCEPT ![m] = u] /\ orig' = [orig EXCEPT ![m] = r.prio[u]]
      /\ q' = Resumed(r, u)
  BY <1>3, <1>6 DEF ReleaseLast, HandOver
<1>8. \A x \in Range(q.wait[m]) : x \in Threads /\ x # t /\ q.stat[x] = "suspend"
  BY <1>2, RunningLemma DEF SingleInv, Inv, WaitersWait, Waiters
<1>9. /\ q'.prio = r.prio /\ q'.wait[m] = Unlink(q.wait[m], u)
  <2>1. q' = InsertThread(Unlinked(r, u), u) /\ r.stat[u] = "suspend"
    BY <1>3, <1>6, <1>7, <1>8 DEF Resumed
  <2>2. q'.prio = r.prio
    <3>1. r \in Queues /\ QueuesSound(r)
      BY <1>3
    <3>2. WokenUp(r, q', u)
      BY <2>1, <3>1, WakeLemma
    <3> QED BY <3>2 DEF WokenUp
  <2>3. InsertThread(Unlinked(r, u), u).wait[m] = Unlink(r.wait[m], u)
    BY <1>3, <1>5, <1>6, WokenWait
  <2> QED BY <1>3, <2>1, <2>2, <2>3
<1>10. /\ InOrder(Unlink(q.wait[m], u), q.prio)
       /\ Range(Unlink(q.wait[m], u)) = Range(q.wait[m]) \ {u}
       /\ Unlink(q.wait[m], u) \in Seq(Threads)
  BY <1>5, UnlinkInOrder, UnlinkLemma
<1>11. \A x \in Threads : r.prio[x] = IF x = t THEN Base[t] ELSE q.prio[x]
  <2>1. orig[m] = Base[t]
    BY <1>1 DEF SingleInv, Original
  <2> QED BY <1>3, <1>5, <2>1
<1>12. owner'[m] = u /\ orig'[m] = r.prio[u]
  BY <1>7 DEF SingleInv, Inv, TypeOK
<1>13. Sorted'
  <2>1. \A x \in Range(Unlink(q.wait[m], u)) : r.prio[x] = q.prio[x]
    BY <1>8, <1>10, <1>11
  <2>2. InOrder(Unlink(q.wait[m], u), r.prio)
    BY <1>10, <2>1, OrderSame
  <2> QED BY <1>4, <1>9, <2>2 DEF Sorted
<1>14. Inherits'
  <2>1. \A x \in Range(q'.wait[m]) : q'.prio[u] =< q'.prio[x]
    BY <1>6, <1>8, <1>9, <1>10, <1>11
  <2> QED BY <1>4, <1>12, <2>1 DEF Inherits
<1>15. \A x \in Threads : r.prio[x] = Base[x]
  <2> SUFFICES ASSUME NEW x \in Threads, x # t PROVE q.prio[x] = Base[x]
    BY <1>11
  <2> QED BY <1>2, <1>4 DEF SingleInv, RestoredAll
<1>16. Original' /\ RestoredAll'
  BY <1>4, <1>6, <1>9, <1>12, <1>15 DEF Original, RestoredAll
<1> QED BY <1>13, <1>14, <1>16 DEF SingleInv

LEMMA SingleSetFree ==
    ASSUME MutexAssumption, SingleMutex, SingleInv, Inv',
           NEW t \in Threads, NEW m \in Mutexes, ReleaseLast(t, m), q.wait[m] = <<>>
    PROVE  SingleInv'
<1>1. /\ q' = Restored(q, t, m) /\ owner' = [owner EXCEPT ![m] = NoThread]
      /\ orig' = [orig EXCEPT ![m] = NoPrio]
  BY DEF ReleaseLast, SetFree
<1>2. current = t /\ owner[m] = t /\ t # NoThread
  BY ReleasedTook DEF SingleInv
<1>3. owner[m] = t
  BY <1>2
<1>4. q'.wait = q.wait /\ q'.prio = [q.prio EXCEPT ![t] = orig[m]]
  <2>1. PICK r \in Queues : /\ r = Restored(q, t, m) /\ r.wait = q.wait
                            /\ r.prio = [q.prio EXCEPT ![t] = orig[m]]
    BY <1>3, RestoredLemma DEF SingleInv
  <2> QED BY <1>1, <2>1
<1>5. \A y \in Mutexes : y = m
  BY DEF SingleMutex
<1>6. owner'[m] = NoThread
  BY <1>1 DEF SingleInv, Inv, TypeOK
<1>7. Sorted' /\ Inherits'
  <2>1. DOMAIN q'.wait[m] = {} /\ Range(q'.wait[m]) = {}
    BY <1>4 DEF Range
  <2> QED BY <1>5, <2>1 DEF Sorted, InOrder, Inherits
<1>8. Original'
  BY <1>5, <1>6 DEF Original
<1>9. RestoredAll'
  <2>1. q.prio \in [Threads -> Prios]
    BY DEF SingleInv, Inv, TypeOK, Queues
  <2>2. orig[m] = Base[t]
    BY <1>2 DEF SingleInv, Original
  <2>3. \A x \in Threads : x # t => q.prio[x] = Base[x]
    BY <1>2, <1>5 DEF SingleInv, RestoredAll
  <2> QED BY <1>4, <2>1, <2>2, <2>3 DEF RestoredAll
<1> QED BY <1>7, <1>8, <1>9 DEF SingleInv

\* A thread is woken without being handed anything.
LEMMA SingleWoken ==
    ASSUME MutexAssumption, SingleInv, Inv', NEW u \in Threads, q.stat[u] = "suspend",
           q' = InsertThread(Unlinked(q, u), u), UNCHANGED <<owner, orig>>
    PROVE  SingleInv'
<1>1. q \in Queues /\ QueuesSound(q)
  BY DEF SingleInv, Inv, TypeOK, Lists
<1>2. q'.prio = q.prio
  BY <1>1, WakeLemma DEF WokenUp
<1>3. \A m \in Mutexes : q'.wait[m] = Unlink(q.wait[m], u)
  BY <1>1, WokenWait DEF Mutexes
<1> QED BY <1>2, <1>3, PriosKept

LEMMA SingleKept ==
    ASSUME MutexAssumption, SingleMutex, SingleInv, Next, Inv'
    PROVE  SingleInv'
<1>1. ASSUME UNCHANGED <<q, owner, orig>>
      PROVE  SingleInv'
  BY <1>1, PriosKept
<1>2. ASSUME NEW t \in Threads, NEW m \in Mutexes, Take(t, m)
      PROVE  SingleInv'
  <2>1. CASE TakeFree(t, m)
    BY <2>1, SingleTakeFree
  <2>2. CASE TakeAgain(t, m)
    BY <1>1, <2>2 DEF TakeAgain
  <2>3. CASE \E timed \in BOOLEAN : TakeWait(t, m, timed)
    BY <2>3, SingleTakeWait
  <2> QED BY <1>2, <2>1, <2>2, <2>3 DEF Take
<1>3. ASSUME NEW t \in Threads, NEW m \in Mutexes, Release(t, m)
      PROVE  SingleInv'
  <2>1. CASE ReleaseNested(t, m)
    BY <1>1, <2>1 DEF ReleaseNested
  <2>2. CASE ReleaseLast(t, m)
    BY <2>2, SingleHandOver, SingleSetFree
  <2> QED BY <1>3, <2>1, <2>2 DEF Release
<1>4. ASSUME NEW t \in Threads, NEW m \in Mutexes, DeleteCheck(t, m)
      PROVE  SingleInv'
  BY <1>1, <1>4 DEF DeleteCheck, mutexes
<1>5. ASSUME NEW t \in Threads, NEW m \in Mutexes, DeleteTake(t, m)
      PROVE  SingleInv'
  <2>1. CASE q.wait[m] = <<>>
    BY <1>1, <1>5, <2>1 DEF DeleteTake, mutexes
  <2>2. CASE q.wait[m] # <<>>
    <3>1. PICK u : u = Head(q.wait[m]) /\ u \in Waiters(m)
      BY <2>2, EmptyLemma DEF SingleInv, Inv, TypeOK, Queues, Mutexes, Waiters
    <3>2. q' = Resumed(q, u) /\ UNCHANGED <<owner, orig>>
      BY <1>5, <2>2, <3>1 DEF DeleteTake, mutexes
    <3>3. u \in Threads /\ q.stat[u] = "suspend"
      BY <3>1, RunningLemma DEF SingleInv
    <3>4. q' = InsertThread(Unlinked(q, u), u)
      BY <3>2, <3>3 DEF Resumed
    <3> QED BY <3>2, <3>3, <3>4, SingleWoken
  <2> QED BY <2>1, <2>2
<1>6. ASSUME NEW t \in Threads, Delay(t)
      PROVE  SingleInv'
  <2>1. /\ current = t /\ q' = Suspended(q, t) /\ UNCHANGED <<owner, orig>>
    BY <1>6 DEF Delay, Runs, mutexes
  <2>2. q \in Queues /\ QueuesSound(q) /\ q.stat[t] = "ready"
    BY <2>1 DEF SingleInv, Inv, TypeOK, Lists
  <2>3. q'.prio = q.prio /\ q'.wait = q.wait
    BY <2>1, <2>2, SuspendLemma, WaitKept
  <2> QED BY <2>1, <2>3, PriosKept
<1>7. ASSUME NEW u \in Threads, Timeout(u)
      PROVE  SingleInv'
  <2>1. u \in armed /\ q' = InsertThread(Unlinked(q, u), u) /\ UNCHANGED <<owner, orig>>
    BY <1>7 DEF Timeout, mutexes
  <2>2. q.stat[u] = "suspend"
    BY <2>1 DEF SingleInv, Inv, Lists
  <2> QED BY <2>1, <2>2, SingleWoken
<1>8. ASSUME SliceEnds
      PROVE  SingleInv'
  <2>1. q' = BackOfLine(q, current) /\ UNCHANGED <<owner, orig>>
    BY <1>8 DEF SliceEnds, BackOfLine, mutexes
  <2>2. q \in Queues /\ QueuesSound(q) /\ current \in Threads /\ q.stat[current] = "ready"
    BY DEF SingleInv, Inv, TypeOK, Lists
  <2>3. q'.prio = q.prio /\ q'.wait = q.wait
    BY <2>1, <2>2, BackOfLineLemma
  <2> QED BY <2>1, <2>3, PriosKept
<1>9. ASSUME NEW t \in Threads, TakeReturn(t)
      PROVE  SingleInv'
  BY <1>1, <1>9 DEF TakeReturn
<1> QED BY <1>2, <1>3, <1>4, <1>5, <1>6, <1>7, <1>8, <1>9 DEF Next

LEMMA SingleHolds == ASSUME MutexAssumption, SingleMutex PROVE Spec => []SingleInv
<1>1. Init => SingleInv
  <2> SUFFICES ASSUME Init PROVE SingleInv
    OBVIOUS
  <2>1. Inv /\ q.prio = Base /\ owner = [m \in Mutexes |-> NoThread]
    BY InitLemma DEF Init
  <2>2. \A m \in Mutexes : DOMAIN q.wait[m] = {} /\ Range(q.wait[m]) = {}
    BY DEF Init, Range
  <2>3. Sorted /\ Inherits
    BY <2>2 DEF Sorted, InOrder, Inherits
  <2> QED BY <2>1, <2>3 DEF SingleInv, Original, RestoredAll
<1>2. SingleInv /\ [Next]_vars /\ Inv' => SingleInv'
  <2>1. ASSUME SingleInv, Inv', UNCHANGED vars PROVE SingleInv'
    <3>1. UNCHANGED <<q, owner, orig>>
      BY <2>1 DEF vars, mutexes
    <3> QED BY <2>1, <3>1, PriosKept
  <2> QED BY <2>1, SingleKept
<1> QED BY <1>1, <1>2, InvHolds, PTL DEF Spec

\* With one mutex made with RT_IPC_FLAG_PRIO, as Lock.c makes it, no owner is less
\* urgent than one of its waiters, also right after the mutex was handed over.
THEOREM OwnerInherits ==
    ASSUME MutexAssumption, SingleMutex PROVE Spec => []Inherits
<1>1. SingleInv => Inherits
  BY DEF SingleInv
<1> QED BY <1>1, SingleHolds, PTL

\* ... and who does not own it is back at the priority it was made with.
THEOREM OwnerRestored ==
    ASSUME MutexAssumption, SingleMutex PROVE Spec => []RestoredAll
<1>1. SingleInv => RestoredAll
  BY DEF SingleInv
<1> QED BY <1>1, SingleHolds, PTL
=============================================================================
