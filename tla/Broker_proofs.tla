--------------------------- MODULE Broker_proofs ---------------------------
(* Proofs about the read brokers, for any set of calls, any deadline, any  *)
(* life of a table and whatever tables Ceph has.                           *)
EXTENDS Broker, CephArgs_proofs, SequenceTheorems

USE TimesAssumption, NoCallAssumption

LEMMA InitOK == Init => TimedInv
<1> SUFFICES ASSUME Init PROVE TimedInv
  OBVIOUS
<1>0. << >> \in Seq(Calls)
  BY EmptySeq
<1>1. TypeOK
  <2>1. /\ now \in 0..MaxTime /\ commands \in Tables
        /\ tableAt \in 0..now /\ readAt \in 0..tableAt
    BY DEF Init
  <2>2. stage \in [Calls -> Stages] /\ start \in [Calls -> 0..now] /\ heldAt \in [Calls -> 0..now]
    BY DEF Init, Stages
  <2> QED
    BY <1>0, <2>1, <2>2 DEF Init, TypeOK
<1>2. Exclusive
  BY DEF Init, Exclusive, InTable, IsInjective
<1>3. WaitsBounded /\ CallsAreBounded /\ ReadsAreRecent /\ JudgedByRecentTable /\ ReadsAreNeeded
  BY DEF Init, WaitsBounded, CallsAreBounded, ReadsAreRecent, JudgedByRecentTable, ReadsAreNeeded
<1> QED
  BY <1>1, <1>2, <1>3 DEF TimedInv

-----------------------------------------------------------------------------
(* The mutex.                                                              *)

\* The queue as the mutex reads it.
LEMMA QueueFacts ==
    ASSUME TypeOK
    PROVE  /\ DOMAIN queue = 1..Len(queue) /\ Len(queue) \in Nat
           /\ \A i \in 1..Len(queue) : queue[i] \in Calls
           /\ queue # << >> => /\ Len(queue) >= 1 /\ Head(queue) = queue[1]
                               /\ Tail(queue) \in Seq(Calls) /\ Len(Tail(queue)) = Len(queue) - 1
                               /\ DOMAIN Tail(queue) = 1..Len(queue) - 1
                               /\ \A i \in 1..Len(queue) - 1 : Tail(queue)[i] = queue[i + 1]
  BY LenProperties, HeadTailProperties, EmptySeq DEF TypeOK

MutexTyped ==
    /\ holder \in Calls \cup {NoCall} /\ starving \in BOOLEAN
    /\ queue \in Seq(Calls)
    /\ stage \in [Calls -> Stages]

\* A call that arrives takes the mutex or its place in the queue.
LEMMA LockOK ==
    ASSUME TimedInv, NEW c \in Calls, stage[c] = "idle", Lock(c),
           now' = now, start' = [start EXCEPT ![c] = now]
    PROVE  MutexTyped' /\ Exclusive' /\ WaitsBounded'
<1> USE DEF TimedInv
<1>q. /\ DOMAIN queue = 1..Len(queue) /\ Len(queue) \in Nat
      /\ \A i \in 1..Len(queue) : queue[i] \in Calls /\ queue[i] # c
  BY QueueFacts DEF Exclusive
<1>t. start \in [Calls -> 0..now] /\ now \in Nat /\ \A d \in Calls : start'[d] \in 0..now
  BY DEF TypeOK
<1>1. CASE holder = NoCall
  <2>1. /\ holder' = c /\ queue' = queue /\ starving' = (queue # << >>)
        /\ stage' = [stage EXCEPT ![c] = "table"]
    BY <1>1 DEF Lock
  <2>2. MutexTyped'
    BY <2>1 DEF MutexTyped, TypeOK, Stages
  <2>3. Exclusive'
    BY <1>1, <1>q, <2>1, <1>t DEF Exclusive, InTable, TypeOK, IsInjective, Contains
  <2>4. WaitsBounded'
    <3>1. \A d \in Calls : stage'[d] = "queued" => queue # << >> /\ stage[d] = "queued" /\ d # c
      BY <2>1, <1>q DEF Exclusive, Contains, TypeOK
    <3>2. \A d \in Calls : stage'[d] = "queued" => start'[c] <= start'[d] + CallTimeout
      BY <3>1, <1>1, <1>t DEF WaitsBounded, TypeOK
    <3> QED
      BY <2>1, <3>1, <3>2 DEF WaitsBounded
  <2> QED
    BY <2>2, <2>3, <2>4
<1>2. CASE holder # NoCall
  <2>1. /\ queue' = Append(queue, c) /\ holder' = holder /\ starving' = starving
        /\ stage' = [stage EXCEPT ![c] = "queued"]
    BY <1>2 DEF Lock
  <2>2. /\ queue' \in Seq(Calls) /\ Len(queue') = Len(queue) + 1
        /\ DOMAIN queue' = 1..Len(queue) + 1
        /\ \A i \in 1..Len(queue) : queue'[i] = queue[i]
        /\ queue'[Len(queue) + 1] = c
    BY <2>1, AppendProperties, LenProperties DEF TypeOK
  <2>3. MutexTyped'
    BY <2>1, <2>2 DEF MutexTyped, TypeOK, Stages
  <2>4. Exclusive'
    <3>1. \A d \in Calls : stage'[d] \in InTable <=> holder' = d
      BY <2>1 DEF Exclusive, InTable, TypeOK
    <3>2. \A d \in Calls : stage'[d] = "queued" => Contains(queue', d)
      BY <2>1, <2>2, <1>q DEF Exclusive, Contains, TypeOK
    <3>3. \A i \in DOMAIN queue' : stage'[queue'[i]] = "queued"
      BY <2>1, <2>2, <1>q DEF Exclusive, TypeOK
    <3>4. IsInjective(queue')
      BY <2>2, <1>q DEF Exclusive, IsInjective
    <3>5. \A i, j \in DOMAIN queue' : i < j => start'[queue'[i]] <= start'[queue'[j]]
      <4> TAKE i, j \in DOMAIN queue'
      <4> HAVE i < j
      <4>1. i \in 1..Len(queue) /\ queue'[i] = queue[i] /\ start'[queue[i]] = start[queue[i]]
        BY <2>2, <1>q, <1>t
      <4>2. CASE j = Len(queue) + 1
        BY <4>1, <4>2, <2>2, <1>q, <1>t
      <4>3. CASE j # Len(queue) + 1
        <5>1. j \in 1..Len(queue) /\ queue'[j] = queue[j] /\ start'[queue[j]] = start[queue[j]]
          BY <4>3, <2>2, <1>q, <1>t
        <5> QED
          BY <4>1, <5>1, <1>q DEF Exclusive
      <4> QED
        BY <4>2, <4>3
    <3> QED
      BY <3>1, <3>2, <3>3, <3>4, <3>5 DEF Exclusive
  <2>5. WaitsBounded'
    <3>1. holder \in Calls /\ holder # c
      BY <1>2 DEF TypeOK, Exclusive, InTable
    <3>2. start'[holder] = start[holder] /\ start[holder] \in 0..now /\ start'[c] = now
      BY <3>1, <1>t
    <3> SUFFICES ASSUME NEW d \in Calls, stage'[d] = "queued"
                 PROVE  /\ ~starving => now <= start'[d] + CallTimeout
                        /\ ~starving => start'[holder] <= start'[d]
                        /\ start'[holder] <= start'[d] + CallTimeout
      BY <2>1, <1>2 DEF WaitsBounded
    <3>3. CASE d = c
      <4>1. start'[d] = now /\ start'[holder] <= now /\ now <= now + CallTimeout
            /\ start'[holder] <= now + CallTimeout
        BY <3>2, <3>3, <1>t
      <4> QED
        BY <4>1
    <3>4. CASE d # c
      <4>1. stage[d] = "queued" /\ start'[d] = start[d]
        BY <3>4, <2>1, <1>t DEF TypeOK
      <4> QED
        BY <4>1, <3>2, <1>2 DEF WaitsBounded
    <3> QED
      BY <3>3, <3>4
  <2> QED
    BY <2>3, <2>4, <2>5
<1> QED
  BY <1>1, <1>2

\* The first waiter gets the mutex: the queue without its first call.
LEMMA HandOver ==
    ASSUME TimedInv, queue # << >>, queue' = Tail(queue), holder' = Head(queue),
           \A d \in Calls :
              /\ stage'[d] = "queued" <=> stage[d] = "queued" /\ d # Head(queue)
              /\ stage'[d] \in InTable <=> d = Head(queue)
              /\ stage[d] = "queued" => start'[d] = start[d]
    PROVE  /\ Exclusive'
           /\ \A d \in Calls :
                 stage'[d] = "queued" => start[Head(queue)] <= start[d] /\ Len(queue) > 1
<1> USE DEF TimedInv
<1>q. /\ DOMAIN queue = 1..Len(queue) /\ Len(queue) \in Nat /\ Len(queue) >= 1
      /\ \A i \in 1..Len(queue) : queue[i] \in Calls /\ stage[queue[i]] = "queued"
      /\ Head(queue) = queue[1] /\ Head(queue) \in Calls
      /\ DOMAIN queue' = 1..Len(queue) - 1 /\ Len(queue') = Len(queue) - 1
      /\ \A i \in 1..Len(queue) - 1 : queue'[i] = queue[i + 1]
  BY QueueFacts DEF Exclusive
<1>s. \A i \in 2..Len(queue) : queue[i] # Head(queue)
  BY <1>q DEF Exclusive, IsInjective
<1>w. ASSUME NEW d \in Calls, stage'[d] = "queued"
      PROVE  \E i \in 2..Len(queue) : queue[i] = d
  BY <1>q, <1>w DEF Exclusive, Contains
<1>1. \A d \in Calls : stage'[d] = "queued" => Contains(queue', d)
  <2> SUFFICES ASSUME NEW d \in Calls, stage'[d] = "queued" PROVE Contains(queue', d)
    OBVIOUS
  <2>1. PICK i \in 2..Len(queue) : queue[i] = d
    BY <1>w
  <2>2. i - 1 \in 1..Len(queue') /\ queue'[i - 1] = d
    BY <2>1, <1>q
  <2> QED
    BY <2>2 DEF Contains
<1>2. \A i \in DOMAIN queue' : stage'[queue'[i]] = "queued"
  BY <1>q, <1>s
<1>3. \A i, j \in DOMAIN queue' : queue'[i] = queue'[j] => i = j
  <2> TAKE i, j \in DOMAIN queue'
  <2> HAVE queue'[i] = queue'[j]
  <2>1. /\ i + 1 \in DOMAIN queue /\ j + 1 \in DOMAIN queue /\ i \in Nat /\ j \in Nat
        /\ queue[i + 1] = queue[j + 1]
    BY <1>q
  <2>2. i + 1 = j + 1
    BY <2>1 DEF Exclusive, IsInjective
  <2> QED
    BY <2>1, <2>2
<1>4. \A i, j \in DOMAIN queue' : i < j => start'[queue'[i]] <= start'[queue'[j]]
  <2> TAKE i, j \in DOMAIN queue'
  <2> HAVE i < j
  <2>1. /\ i + 1 \in DOMAIN queue /\ j + 1 \in DOMAIN queue /\ i + 1 < j + 1
        /\ queue'[i] = queue[i + 1] /\ queue'[j] = queue[j + 1]
    BY <1>q
  <2>2. start[queue[i + 1]] <= start[queue[j + 1]]
    BY <2>1 DEF Exclusive
  <2>3. start'[queue[i + 1]] = start[queue[i + 1]] /\ start'[queue[j + 1]] = start[queue[j + 1]]
    BY <2>1, <1>q
  <2> QED
    BY <2>1, <2>2, <2>3
<1>5. Exclusive'
  BY <1>1, <1>2, <1>3, <1>4 DEF Exclusive, IsInjective
<1>6. ASSUME NEW d \in Calls, stage'[d] = "queued"
      PROVE  start[Head(queue)] <= start[d] /\ Len(queue) > 1
  <2>1. PICK i \in 2..Len(queue) : queue[i] = d
    BY <1>w, <1>6
  <2>2. 1 \in DOMAIN queue /\ i \in DOMAIN queue /\ 1 < i
    BY <2>1, <1>q
  <2> QED
    BY <2>1, <2>2, <1>q DEF Exclusive
<1> QED
  BY <1>5, <1>6

\* The holder's leave: the mutex is free or the first waiter's.
LEMMA UnlockOK ==
    ASSUME TimedInv, NEW c \in Calls, stage[c] \in InTable, NEW next \in {"judge", "write"},
           Unlock(c, next), now' = now, \A d \in Calls : d # c => start'[d] = start[d]
    PROVE  MutexTyped' /\ Exclusive' /\ WaitsBounded'
<1> USE DEF TimedInv
<1>h. holder = c /\ stage[c] # "queued"
  BY DEF Exclusive, InTable
<1>t. start \in [Calls -> 0..now] /\ now \in Nat
  BY DEF TypeOK
<1>1. CASE starving /\ queue # << >>
  <2>1. /\ holder' = Head(queue) /\ queue' = Tail(queue) /\ starving' = (Len(queue) > 1)
        /\ stage' = [stage EXCEPT ![c] = next, ![Head(queue)] = "table"]
    BY <1>1 DEF Unlock
  <2>2. Head(queue) \in Calls /\ stage[Head(queue)] = "queued"
    BY <1>1, QueueFacts DEF Exclusive
  <2>3. \A d \in Calls : stage'[d] = IF d = Head(queue) THEN "table" ELSE IF d = c THEN next ELSE stage[d]
    BY <2>1, <2>2 DEF TypeOK
  <2>4. \A d \in Calls :
           /\ stage'[d] = "queued" <=> stage[d] = "queued" /\ d # Head(queue)
           /\ stage'[d] \in InTable <=> d = Head(queue)
           /\ stage[d] = "queued" => start'[d] = start[d]
    BY <2>3, <1>h DEF Exclusive, InTable
  <2>5. /\ Exclusive'
        /\ \A d \in Calls :
              stage'[d] = "queued" => start[Head(queue)] <= start[d] /\ Len(queue) > 1
    BY <1>1, <2>1, <2>4, HandOver
  <2>6. MutexTyped'
    <3>1. starving' \in BOOLEAN
      BY <2>1
    <3>2. queue' \in Seq(Calls)
      BY <1>1, <2>1, QueueFacts
    <3>3. stage' \in [Calls -> Stages]
      BY <2>1, <2>2 DEF TypeOK, Stages
    <3> QED
      BY <2>1, <2>2, <3>1, <3>2, <3>3 DEF MutexTyped
  <2>7. WaitsBounded'
    <3>1. holder' \in Calls /\ holder' # NoCall /\ start'[holder'] = start[Head(queue)]
      BY <2>1, <2>2, <2>4
    <3>2. ASSUME NEW d \in Calls, stage'[d] = "queued"
          PROVE  starving' /\ start'[holder'] <= start'[d] + CallTimeout
      <4>1. start'[d] = start[d] /\ start[d] \in Nat /\ start[Head(queue)] \in Nat
        BY <2>2, <2>4, <3>2, <1>t
      <4>2. start[Head(queue)] <= start[d] /\ Len(queue) > 1
        BY <2>5, <3>2
      <4>3. start'[holder'] <= start'[d] + CallTimeout
        BY <4>1, <4>2, <3>1
      <4> QED
        BY <2>1, <4>2, <4>3
    <3> QED
      BY <3>1, <3>2 DEF WaitsBounded
  <2> QED
    BY <2>5, <2>6, <2>7
<1>2. CASE ~(starving /\ queue # << >>)
  <2>1. /\ holder' = NoCall /\ starving' = FALSE /\ queue' = queue
        /\ stage' = [stage EXCEPT ![c] = next]
    BY <1>2 DEF Unlock
  <2>2. \A i \in DOMAIN queue : queue[i] \in Calls /\ queue[i] # c
    BY <1>h, QueueFacts DEF Exclusive
  <2>3. MutexTyped'
    BY <2>1 DEF MutexTyped, TypeOK, Stages
  <2>4. Exclusive'
    BY <1>h, <2>1, <2>2 DEF Exclusive, InTable, TypeOK, Contains, IsInjective
  <2>5. \A d \in Calls : stage'[d] = "queued" =>
           stage[d] = "queued" /\ ~starving /\ start'[d] = start[d]
    BY <1>2, <1>h, <2>1, QueueFacts DEF Exclusive, Contains, TypeOK
  <2>6. WaitsBounded'
    BY <2>1, <2>5 DEF WaitsBounded
  <2> QED
    BY <2>3, <2>4, <2>6
<1> QED
  BY <1>1, <1>2

\* Where it leaves the calls.
LEMMA UnlockStages ==
    ASSUME TimedInv, NEW c \in Calls, stage[c] \in InTable, NEW next \in {"judge", "write"},
           Unlock(c, next)
    PROVE  \A d \in Calls :
              \/ d = c /\ stage'[d] = next
              \/ d # c /\ stage'[d] = stage[d]
              \/ d # c /\ stage[d] = "queued" /\ stage'[d] = "table"
<1>1. CASE starving /\ queue # << >>
  <2>1. Head(queue) \in Calls /\ stage[Head(queue)] = "queued" /\ Head(queue) # c
    BY <1>1, QueueFacts DEF TimedInv, Exclusive, InTable
  <2>2. stage' = [stage EXCEPT ![c] = next, ![Head(queue)] = "table"]
    BY <1>1 DEF Unlock
  <2>3. stage \in [Calls -> Stages]
    BY DEF TimedInv, TypeOK
  <2> QED
    BY <2>1, <2>2, <2>3
<1>2. CASE ~(starving /\ queue # << >>)
  <2>1. stage' = [stage EXCEPT ![c] = next]
    BY <1>2 DEF Unlock
  <2>2. stage \in [Calls -> Stages]
    BY DEF TimedInv, TypeOK
  <2> QED
    BY <2>1, <2>2
<1> QED
  BY <1>1, <1>2

-----------------------------------------------------------------------------
(* The steps of a call.                                                    *)

LEMMA ArrivesOK == ASSUME TimedInv, NEW c \in Calls, CephArrives(c) PROVE TimedInv'
<1> USE DEF TimedInv, CephArrives, cached
<1>1. MutexTyped' /\ Exclusive' /\ WaitsBounded'
  BY LockOK
<1>2. TypeOK'
  <2>1. now \in Nat /\ start' \in [Calls -> 0..now]
    BY DEF TypeOK
  <2> QED
    BY <1>1, <2>1 DEF TypeOK, MutexTyped
<1>3. /\ \A d \in Calls \ {c} : stage'[d] = stage[d] /\ start'[d] = start[d]
      /\ stage'[c] \in {"table", "queued"} /\ start'[c] = now
  BY DEF Lock, TypeOK
<1>4. CallsAreBounded' /\ ReadsAreRecent' /\ JudgedByRecentTable'
  BY <1>3 DEF CallsAreBounded, ReadsAreRecent, JudgedByRecentTable, TypeOK
<1>5. ReadsAreNeeded'
  BY <1>3 DEF ReadsAreNeeded, Fresh
<1> QED
  BY <1>1, <1>2, <1>4, <1>5

LEMMA WokenOK == ASSUME TimedInv, NEW c \in Calls, Woken(c) PROVE TimedInv'
<1> USE DEF TimedInv, Woken, cached, locals
<1>1. stage[c] = "queued" /\ \A d \in Calls : stage'[d] = IF d = c THEN "table" ELSE stage[d]
  BY QueueFacts DEF Exclusive, TypeOK
<1>2. \A d \in Calls :
         /\ stage'[d] = "queued" <=> stage[d] = "queued" /\ d # Head(queue)
         /\ stage'[d] \in InTable <=> d = Head(queue)
  BY <1>1 DEF Exclusive, InTable
<1>3. Exclusive' /\ \A d \in Calls : stage'[d] = "queued" => start[c] <= start[d]
  BY <1>2, HandOver
<1>4. TypeOK'
  BY QueueFacts DEF TypeOK, Stages
<1>5. WaitsBounded'
  <2>1. start[c] \in Nat /\ \A d \in Calls : start[d] \in Nat
    BY DEF TypeOK
  <2> QED
    BY <1>2, <1>3, <2>1 DEF WaitsBounded
<1>6. CallsAreBounded' /\ ReadsAreRecent' /\ JudgedByRecentTable' /\ ReadsAreNeeded'
  BY <1>1 DEF CallsAreBounded, ReadsAreRecent, JudgedByRecentTable, ReadsAreNeeded, Fresh
<1> QED
  BY <1>3, <1>4, <1>5, <1>6

\* The table's steps hand the mutex on or keep it.
LEMMA CachedOK == ASSUME TimedInv, NEW c \in Calls, TableCached(c) PROVE TimedInv'
<1> USE DEF TimedInv, TableCached, cached
<1>1. MutexTyped' /\ Exclusive' /\ WaitsBounded'
  BY UnlockOK DEF InTable
<1>2. TypeOK'
  <2>1. heldAt' \in [Calls -> 0..now]
    BY DEF TypeOK
  <2> QED
    BY <1>1, <2>1 DEF TypeOK, MutexTyped
<1>3. \A d \in Calls :
         \/ d = c /\ stage'[d] = "judge"
         \/ d # c /\ stage'[d] = stage[d]
         \/ d # c /\ stage[d] = "queued" /\ stage'[d] = "table"
  BY UnlockStages DEF InTable
<1>4. CallsAreBounded' /\ ReadsAreRecent' /\ ReadsAreNeeded'
  BY <1>3 DEF CallsAreBounded, ReadsAreRecent, ReadsAreNeeded, Fresh, TypeOK
<1>5. JudgedByRecentTable'
  <2>1. now - readAt < TableLife + CallTimeout
    BY DEF Fresh, ReadsAreRecent, TypeOK
  <2> QED
    BY <1>3, <2>1 DEF JudgedByRecentTable, TypeOK
<1> QED
  BY <1>1, <1>2, <1>4, <1>5

LEMMA StoredOK == ASSUME TimedInv, NEW c \in Calls, TableStored(c) PROVE TimedInv'
<1> USE DEF TimedInv, TableStored, locals
<1>1. MutexTyped' /\ Exclusive' /\ WaitsBounded'
  BY UnlockOK DEF InTable
<1>2. TypeOK'
  <2>1. tableAt' \in 0..now /\ readAt' \in 0..tableAt'
    BY DEF TypeOK
  <2> QED
    BY <1>1, <2>1 DEF TypeOK, MutexTyped
<1>3. \A d \in Calls :
         \/ d = c /\ stage'[d] = "judge"
         \/ d # c /\ stage'[d] = stage[d]
         \/ d # c /\ stage[d] = "queued" /\ stage'[d] = "table"
  BY UnlockStages DEF InTable
<1>4. CallsAreBounded'
  BY <1>3 DEF CallsAreBounded
<1>5. start[c] \in Nat /\ heldAt[c] \in Nat /\ now <= heldAt[c] + CallTimeout /\ now \in Nat
  BY DEF ReadsAreRecent, TypeOK
<1>6. ReadsAreRecent' /\ JudgedByRecentTable'
  BY <1>3, <1>5 DEF ReadsAreRecent, JudgedByRecentTable
<1>7. ReadsAreNeeded'
  BY <1>3 DEF ReadsAreNeeded, Exclusive, InTable
<1> QED
  BY <1>1, <1>2, <1>4, <1>6, <1>7

LEMMA ReadFailsOK == ASSUME TimedInv, NEW c \in Calls, ReadFails(c) PROVE TimedInv'
<1> USE DEF TimedInv, ReadFails, Forget, cached
<1>1. MutexTyped' /\ Exclusive' /\ WaitsBounded'
  BY UnlockOK DEF InTable, TypeOK
<1>2. TypeOK'
  <2>1. start' \in [Calls -> 0..now] /\ heldAt' \in [Calls -> 0..now]
    BY DEF TypeOK
  <2> QED
    BY <1>1, <2>1 DEF TypeOK, MutexTyped
<1>3. \A d \in Calls :
         \/ d = c /\ stage'[d] = "write"
         \/ d # c /\ stage'[d] = stage[d]
         \/ d # c /\ stage[d] = "queued" /\ stage'[d] = "table"
  BY UnlockStages DEF InTable
<1>4. CallsAreBounded' /\ ReadsAreRecent' /\ JudgedByRecentTable' /\ ReadsAreNeeded'
  BY <1>3 DEF CallsAreBounded, ReadsAreRecent, JudgedByRecentTable, ReadsAreNeeded, Fresh, TypeOK
<1> QED
  BY <1>1, <1>2, <1>4

LEMMA ReadOK == ASSUME TimedInv, NEW c \in Calls, ReadStarts(c) \/ CephLists(c) PROVE TimedInv'
<1> USE DEF TimedInv, cached, locals, mutex
<1>1. /\ UNCHANGED <<now, commands, table, tableAt, readAt, holder, queue, starving, start>>
      /\ stage[c] \in {"table", "read"} /\ holder = c
      /\ \A d \in Calls : d # c => stage'[d] = stage[d] /\ heldAt'[d] = heldAt[d]
  BY DEF ReadStarts, CephLists, TypeOK, Exclusive, InTable
<1>2. /\ stage' \in [Calls -> Stages] /\ heldAt' \in [Calls -> 0..now]
      /\ \/ stage'[c] = "read" /\ ~Fresh
         \/ stage'[c] = "parsed" /\ stage[c] = "read" /\ heldAt'[c] = now /\ ~Expired(c)
  <2>1. CASE ReadStarts(c)
    BY <2>1 DEF ReadStarts, TypeOK, Stages, Waits
  <2>2. CASE CephLists(c)
    BY <2>2 DEF CephLists, TypeOK, Stages, Waits
  <2> QED
    BY <2>1, <2>2
<1>3. TypeOK'
  BY <1>1, <1>2 DEF TypeOK
<1>4. Exclusive'
  BY <1>1, <1>2, QueueFacts DEF Exclusive, InTable, Contains, IsInjective
<1>5. WaitsBounded'
  BY <1>1, <1>2 DEF WaitsBounded
<1>6. CallsAreBounded' /\ JudgedByRecentTable'
  BY <1>1, <1>2 DEF CallsAreBounded, JudgedByRecentTable
<1>7. ReadsAreRecent'
  BY <1>1, <1>2 DEF ReadsAreRecent, Expired, TypeOK
<1>8. ReadsAreNeeded'
  BY <1>1, <1>2 DEF ReadsAreNeeded, Fresh
<1> QED
  BY <1>3, <1>4, <1>5, <1>6, <1>7, <1>8

\* What happens away from the mutex.
LEMMA AwayOK ==
    ASSUME TimedInv, NEW c \in Calls,
           Allowed(c) \/ Refused(c) \/ ForwardStarts(c) \/ Answered(c) \/ Delivered(c)
    PROVE  TimedInv'
<1> USE DEF TimedInv, cached, mutex
<1>1. /\ UNCHANGED <<now, commands, table, tableAt, readAt, holder, queue, starving>>
      /\ stage[c] \in {"idle", "judge", "run", "write"} /\ stage'[c] \in {"idle", "run", "write"}
      /\ stage' \in [Calls -> Stages] /\ start' \in [Calls -> 0..now] /\ heldAt' \in [Calls -> 0..now]
      /\ stage'[c] = "run" => start'[c] = now \/ (start'[c] = start[c] /\ stage[c] = "judge")
      /\ \A d \in Calls : d # c => /\ stage'[d] = stage[d] /\ heldAt'[d] = heldAt[d]
                                  /\ start'[d] = start[d]
  <2>1. CASE Allowed(c)
    BY <2>1 DEF Allowed, TypeOK, Stages, Waits
  <2>2. CASE Refused(c)
    BY <2>2 DEF Refused, Forget, TypeOK, Stages
  <2>3. CASE ForwardStarts(c)
    BY <2>3 DEF ForwardStarts, TypeOK, Stages, Waits
  <2>4. CASE Answered(c)
    BY <2>4 DEF Answered, Forget, TypeOK, Stages
  <2>5. CASE Delivered(c)
    BY <2>5 DEF Delivered, locals, TypeOK, Stages
  <2> QED
    BY <2>1, <2>2, <2>3, <2>4, <2>5
<1>2. TypeOK'
  BY <1>1 DEF TypeOK
<1>3. \A i \in DOMAIN queue : queue[i] \in Calls /\ queue[i] # c
  BY <1>1, QueueFacts DEF Exclusive
<1>4. Exclusive'
  <2>1. /\ \A d \in Calls : stage'[d] \in InTable <=> holder = d
        /\ \A d \in Calls : stage'[d] = "queued" => Contains(queue, d)
    BY <1>1 DEF Exclusive, InTable
  <2>2. /\ \A i \in DOMAIN queue : stage'[queue[i]] = "queued"
        /\ \A i, j \in DOMAIN queue : i < j => start'[queue[i]] <= start'[queue[j]]
    BY <1>1, <1>3 DEF Exclusive
  <2>3. IsInjective(queue')
    BY <1>1 DEF Exclusive
  <2> QED
    BY <1>1, <2>1, <2>2, <2>3 DEF Exclusive
<1>5. WaitsBounded'
  BY <1>1 DEF WaitsBounded, Exclusive, InTable, TypeOK
<1>6. CallsAreBounded'
  <2>1. now \in Nat /\ now <= now + 2 * CallTimeout
    BY DEF TypeOK
  <2>2. ASSUME NEW d \in Calls, stage'[d] \notin {"idle", "write"} PROVE now <= start'[d] + 2 * CallTimeout
    BY <1>1, <2>1, <2>2 DEF CallsAreBounded
  <2> QED
    BY <1>1, <2>2 DEF CallsAreBounded
<1>7. JudgedByRecentTable' /\ ReadsAreRecent' /\ ReadsAreNeeded'
  BY <1>1 DEF JudgedByRecentTable, ReadsAreRecent, ReadsAreNeeded, Fresh
<1> QED
  BY <1>2, <1>4, <1>5, <1>6, <1>7

\* A step that changes none of what the calls share leaves the invariant.
LEMMA UpgradeOK == TimedInv /\ (Upgrade \/ UNCHANGED vars) => TimedInv'
<1> SUFFICES ASSUME TimedInv, Upgrade \/ UNCHANGED vars PROVE TimedInv'
  OBVIOUS
<1> USE DEF TimedInv
<1>1. /\ commands' \in Tables
      /\ UNCHANGED <<now, table, tableAt, readAt, holder, queue, starving, stage, start, heldAt>>
  BY DEF Upgrade, vars, cached, mutex, locals, TypeOK
<1>2. TypeOK'
  BY <1>1 DEF TypeOK
<1>3. Exclusive'
  BY <1>1 DEF Exclusive, Contains, IsInjective
<1>4. WaitsBounded' /\ CallsAreBounded'
  BY <1>1 DEF WaitsBounded, CallsAreBounded
<1>5. ReadsAreRecent' /\ JudgedByRecentTable' /\ ReadsAreNeeded'
  BY <1>1 DEF ReadsAreRecent, JudgedByRecentTable, ReadsAreNeeded, Fresh
<1> QED
  BY <1>2, <1>3, <1>4, <1>5

\* Time passes only when nobody is about to take, leave or use the table.
LEMMA TickOK == TimedInv /\ Tick => TimedInv'
<1> SUFFICES ASSUME TimedInv, Tick PROVE TimedInv'
  OBVIOUS
<1> USE DEF TimedInv, Tick, cached, mutex, locals
<1>1. /\ now \in Nat /\ now' = now + 1
      /\ \A d \in Calls : start[d] \in Nat /\ start[d] <= now /\ heldAt[d] \in Nat /\ heldAt[d] <= now
  BY DEF TypeOK
<1>2. TypeOK'
  BY DEF TypeOK
<1>3. Exclusive'
  BY DEF Exclusive, InTable, Contains, IsInjective
<1>4. ASSUME NEW d \in Calls, stage[d] \in Waits PROVE now + 1 <= start[d] + CallTimeout
  BY <1>1, <1>4 DEF Expired, Waits
<1>5. ASSUME NEW d \in Calls, stage[d] = "queued"
      PROVE  /\ holder \in Calls /\ now + 1 <= start[holder] + CallTimeout
             /\ holder # NoCall
  <2>1. holder # NoCall
    BY <1>5 DEF Waits
  <2>2. holder \in Calls /\ stage[holder] \in InTable
    BY <2>1 DEF TypeOK, Exclusive
  <2>3. stage[holder] \in Waits
    BY <2>2 DEF InTable, Waits
  <2> QED
    BY <2>1, <2>2, <2>3, <1>4
<1>6. WaitsBounded'
  <2> SUFFICES ASSUME NEW d \in Calls, stage[d] = "queued", ~starving
               PROVE  now + 1 <= start[d] + CallTimeout
    BY <1>1 DEF WaitsBounded
  <2>1. start[holder] <= start[d] /\ holder \in Calls /\ now + 1 <= start[holder] + CallTimeout
    BY <1>5 DEF WaitsBounded
  <2> QED
    BY <2>1, <1>1
<1>7. CallsAreBounded'
  <2> SUFFICES ASSUME NEW d \in Calls, stage[d] \notin {"idle", "write"}
               PROVE  now + 1 <= start[d] + 2 * CallTimeout
    BY <1>1 DEF CallsAreBounded
  <2>1. CASE stage[d] \in Waits
    BY <1>1, <1>4, <2>1
  <2>2. CASE stage[d] = "queued"
    <3>1. /\ start[holder] <= start[d] + CallTimeout /\ holder \in Calls
          /\ now + 1 <= start[holder] + CallTimeout
      BY <1>5, <2>2 DEF WaitsBounded
    <3> QED
      BY <3>1, <1>1
  <2> QED
    BY <2>1, <2>2 DEF TypeOK
<1>8. ReadsAreRecent'
  BY <1>1, <1>4 DEF ReadsAreRecent, Waits
<1>9. JudgedByRecentTable' /\ ReadsAreNeeded'
  BY <1>1 DEF JudgedByRecentTable, ReadsAreNeeded, Fresh, Waits, TypeOK
<1> QED
  BY <1>2, <1>3, <1>6, <1>7, <1>8, <1>9

-----------------------------------------------------------------------------
(* The tables.                                                             *)

\* However Ceph's commands are listed, the list is a sequence of them.
LEMMA ListsAreSeqs ==
    ASSUME NEW S, IsFiniteSet(S), NEW t \in SetToSeqs(S)
    PROVE  t \in Seq(S)
<1>1. Cardinality(S) \in Nat
  BY FS_CardinalityType
<1>2. t \in [1..Cardinality(S) -> S]
  BY DEF SetToSeqs
<1> QED
  BY <1>1, <1>2

LEMMA ListedOK == TimedInv /\ Listed /\ [Next]_vars => Listed'
<1> SUFFICES ASSUME TimedInv, Listed, [Next]_vars PROVE Listed'
  OBVIOUS
<1> DEFINE Lists == Seq(UNION Tables)
<1>0. << >> \in Lists /\ table \in Lists /\ held \in [Calls -> Lists]
  BY EmptySeq DEF Listed
<1>1. ASSUME NEW t \in SetToSeqs(commands) PROVE t \in Lists
  <2>1. commands \in Tables /\ IsFiniteSet(commands)
    BY TablesAssumption DEF TimedInv, TypeOK
  <2>2. t \in Seq(commands)
    BY <2>1, ListsAreSeqs
  <2>3. commands \subseteq UNION Tables
    BY <2>1
  <2> QED
    BY <2>2, <2>3
<1> HIDE DEF Lists
<1> SUFFICES table' \in Lists /\ held' \in [Calls -> Lists]
  BY DEF Listed, Lists
<1>2. CASE Tick \/ Upgrade \/ UNCHANGED vars
  BY <1>0, <1>2 DEF Tick, Upgrade, vars, cached, locals
<1>3. ASSUME NEW c \in Calls, CallStep(c) PROVE table' \in Lists /\ held' \in [Calls -> Lists]
  <2>1. CASE CephArrives(c) \/ Woken(c) \/ ReadStarts(c) \/ ForwardStarts(c) \/ Delivered(c)
    BY <1>0, <2>1 DEF CephArrives, Woken, ReadStarts, ForwardStarts, Delivered, cached, locals
  <2>2. CASE TableCached(c)
    BY <1>0, <2>2 DEF TableCached, cached
  <2>3. CASE CephLists(c)
    BY <1>0, <1>1, <2>3 DEF CephLists, cached
  <2>4. CASE TableStored(c)
    BY <1>0, <2>4 DEF TableStored, locals
  <2>5. CASE ReadFails(c) \/ Allowed(c) \/ Refused(c) \/ Answered(c)
    BY <1>0, <2>5 DEF ReadFails, Allowed, Refused, Answered, Forget, cached
  <2> QED
    BY <1>3, <2>1, <2>2, <2>3, <2>4, <2>5 DEF CallStep
<1> QED
  BY <1>2, <1>3 DEF Next, Over

-----------------------------------------------------------------------------
\* The inductive invariant of the broker's table, mutex and deadlines
\* (Server.cephTable and its callers) holds in every reachable state.
THEOREM BrokerInductive == Spec => []IndInv
<1>1. ASSUME TimedInv, [Next]_vars PROVE TimedInv'
  <2>1. ASSUME NEW c \in Calls, CallStep(c) PROVE TimedInv'
    BY <1>1, <2>1, ArrivesOK, WokenOK, CachedOK, ReadOK, StoredOK, ReadFailsOK, AwayOK DEF CallStep
  <2> QED
    BY <1>1, <2>1, TickOK, UpgradeOK DEF Next, Over
<1>2. Init => IndInv
  BY InitOK, EmptySeq DEF Init, IndInv, Listed
<1>3. IndInv /\ [Next]_vars => IndInv'
  BY <1>1, ListedOK DEF IndInv
<1> QED
  BY <1>2, <1>3, PTL DEF Spec

\* No call, however many wait with it, works longer than twice its deadline before
\* its answer is ready to be written, though the mutex it waits for does not know
\* the deadline (Server.cephTable).
THEOREM CallsBounded == Spec => []CallsAreBounded
<1>1. IndInv => CallsAreBounded
  BY DEF IndInv, TimedInv
<1> QED
  BY BrokerInductive, <1>1, PTL

\* No call is judged by a table older than its life and one deadline.
THEOREM TablesRecent == Spec => []JudgedByRecentTable
<1>1. IndInv => JudgedByRecentTable
  BY DEF IndInv, TimedInv
<1> QED
  BY BrokerInductive, <1>1, PTL

\* Nobody reads the table again while it can be used.
THEOREM ReadsNeeded == Spec => []ReadsAreNeeded
<1>1. IndInv => ReadsAreNeeded
  BY DEF IndInv, TimedInv
<1> QED
  BY BrokerInductive, <1>1, PTL

\* cephTable's mutex is what it is for: at most one command that reads the table
\* runs at a time, and no call is left waiting for a mutex that forgot it.
ReadsAlone ==
    /\ \A c, d \in Calls : stage[c] \in {"read", "parsed"} /\ stage[d] \in {"read", "parsed"} => c = d
    /\ \A c \in Calls : stage[c] = "queued" =>
          \/ holder \in Calls /\ stage[holder] \in InTable
          \/ holder = NoCall /\ queue # << >> /\ stage[Head(queue)] = "queued"

THEOREM OneReadAtATime == Spec => []ReadsAlone
<1>1. IndInv => ReadsAlone
  <2> SUFFICES ASSUME IndInv PROVE ReadsAlone
    OBVIOUS
  <2>1. /\ \A c \in Calls : stage[c] \in InTable <=> holder = c
        /\ \A c \in Calls : stage[c] = "queued" => Contains(queue, c)
        /\ \A i \in DOMAIN queue : stage[queue[i]] = "queued"
        /\ holder \in Calls \cup {NoCall} /\ queue \in Seq(Calls)
    BY DEF IndInv, TimedInv, Exclusive, TypeOK
  <2>2. \A c, d \in Calls : stage[c] \in {"read", "parsed"} /\ stage[d] \in {"read", "parsed"} => c = d
    BY <2>1 DEF InTable
  <2>3. ASSUME NEW c \in Calls, stage[c] = "queued", holder = NoCall
        PROVE  queue # << >> /\ stage[Head(queue)] = "queued"
    <3>1. PICK i \in 1..Len(queue) : queue[i] = c
      BY <2>1, <2>3 DEF Contains
    <3>2. 1 \in DOMAIN queue /\ Head(queue) = queue[1] /\ queue # << >>
      BY <2>1, <3>1
    <3> QED
      BY <2>1, <3>2
  <2> QED
    BY <2>1, <2>2, <2>3 DEF ReadsAlone
<1> QED
  BY BrokerInductive, <1>1, PTL

\* CheckCephArgs gives every call the verdict that the commands Ceph listed
\* call for, whatever the order a Go map yielded them in, for tables of any
\* length and every argument list.
THEOREM VerdictOrderFree == Spec => []VerdictIsOrderFree
<1>1. \A c \in UNION Tables : IsCommand(c)
  BY TablesAssumption
<1>2. ASSUME IndInv, NEW c \in Calls, NEW a \in ArgLists
      PROVE  CheckCephArgs(held[c], a) <=> ReadOnly(ToSet(held[c]), a)
  <2>1. held[c] \in Seq(UNION Tables)
    BY <1>2 DEF IndInv, Listed
  <2>2. a \in Seq(STRING)
    BY <1>2, ArgsAssumption
  <2> QED
    BY <1>1, <2>1, <2>2, VerdictIsRight
<1>3. IndInv => VerdictIsOrderFree
  BY <1>2 DEF VerdictIsOrderFree
<1> QED
  BY BrokerInductive, <1>3, PTL
=============================================================================
