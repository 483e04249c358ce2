------------------------------- MODULE Broker -------------------------------
(***************************************************************************)
(* The read brokers of internal/broker: concurrent calls from sandboxes,   *)
(* each with a deadline of CallTimeout.  prom and host calls only forward; *)
(* ceph calls share Ceph's command table, which is read by an external     *)
(* command while its mutex is held and kept for TableLife.                 *)
(*                                                                         *)
(* The mutex is Go's: a call that arrives may take a free mutex before the *)
(* waiter that was woken for it; that waiter, having waited long, then     *)
(* makes the mutex starving, and it is handed over in order until nobody   *)
(* waits.  Time passes only while every call waits for something outside   *)
(* the broker: the commands and sources end with the deadline, a client    *)
(* that reads its answer slowly or not at all is under none.  Ceph may be  *)
(* upgraded at any time, which changes its table; the table is listed in a *)
(* random order (a Go map's).                                              *)
(***************************************************************************)
EXTENDS CephArgs

CONSTANTS
    Calls,        \* the calls under way, one after another each
    CallTimeout,  \* CallTimeout
    TableLife,    \* the hour a table is kept
    Tables,       \* the sets of commands Ceph may have, {} when it lists none
    ArgLists,     \* the argument lists of ceph calls
    MaxTime,      \* bound on the clock
    NoCall        \* nobody holds the mutex

ASSUME TimesAssumption ==
    CallTimeout \in Nat \ {0} /\ TableLife \in Nat \ {0} /\ MaxTime \in Nat
ASSUME TablesAssumption ==
    \A t \in Tables : IsFiniteSet(t) /\ \A c \in t : IsCommand(c)
ASSUME ArgsAssumption == ArgLists \subseteq Seq(STRING)
ASSUME NoCallAssumption == NoCall \notin Calls

VARIABLES
    now,       \* the clock
    commands,  \* the commands Ceph has now
    table,     \* Server.table, nil being << >>
    tableAt,   \* Server.tableAt
    readAt,    \* when Ceph answered with that table
    holder,    \* who holds Server.mu
    queue,     \* who waits for it, first come first
    starving,  \* the mutex is handed over in order
    stage,     \* per call: where its handler is
    start,     \* per call: when it began
    held,      \* per call: the table it is judged by
    heldAt     \* per call: when Ceph answered with that one

mutex == <<holder, queue, starving>>
cached == <<table, tableAt, readAt>>
locals == <<start, held, heldAt>>
vars == <<now, commands, cached, mutex, stage, locals>>

Waits == {"read", "parsed", "run"}  \* for a command or a source
Stages == {"idle", "queued", "table", "judge", "write"} \cup Waits

TypeOK ==
    /\ now \in 0..MaxTime
    /\ commands \in Tables
    /\ tableAt \in 0..now /\ readAt \in 0..tableAt
    /\ holder \in Calls \cup {NoCall} /\ starving \in BOOLEAN
    /\ queue \in Seq(Calls)
    /\ stage \in [Calls -> Stages]
    /\ start \in [Calls -> 0..now]
    /\ heldAt \in [Calls -> 0..now]

Init ==
    /\ now = 0
    /\ commands \in Tables
    /\ table = << >> /\ tableAt = 0 /\ readAt = 0
    /\ holder = NoCall /\ queue = << >> /\ starving = FALSE
    /\ stage = [c \in Calls |-> "idle"]
    /\ start = [c \in Calls |-> 0]
    /\ held = [c \in Calls |-> << >>]
    /\ heldAt = [c \in Calls |-> 0]

-----------------------------------------------------------------------------
(* Time and Ceph.                                                          *)

\* Mutant: the command that reads the table is run without the call's context.
ExpiredDeaf(c) == stage[c] = "run" /\ now >= start[c] + CallTimeout

Expired(c) == now >= start[c] + CallTimeout

\* A call lets time pass while it is idle, queued for a held mutex, writes its
\* answer, or waits for what its deadline will end.
Tick ==
    /\ now < MaxTime
    /\ \A c \in Calls :
          \/ stage[c] \in {"idle", "write"}
          \/ (stage[c] = "queued" /\ holder # NoCall)
          \/ (stage[c] \in Waits /\ ~Expired(c))
    /\ now' = now + 1
    /\ UNCHANGED <<commands, cached, mutex, stage, locals>>

Upgrade ==
    /\ commands' \in Tables \ {commands}
    /\ UNCHANGED <<now, cached, mutex, stage, locals>>

-----------------------------------------------------------------------------
(* The mutex of the table.                                                 *)

\* The handler has recorded the call and needs nothing of it any more.
Forget(c) ==
    /\ start' = [start EXCEPT ![c] = 0]
    /\ held' = [held EXCEPT ![c] = << >>]
    /\ heldAt' = [heldAt EXCEPT ![c] = 0]

\* A call arrives at the mutex: it takes a free one, even from under a woken
\* waiter, or queues.
Lock(c) ==
    IF holder = NoCall
      THEN /\ holder' = c
           /\ stage' = [stage EXCEPT ![c] = "table"]
           /\ starving' = (queue # << >>)
           /\ UNCHANGED queue
      ELSE /\ queue' = Append(queue, c)
           /\ stage' = [stage EXCEPT ![c] = "queued"]
           /\ UNCHANGED <<holder, starving>>

\* The holder goes on to next; a starving mutex goes straight to the first
\* waiter.
Unlock(c, next) ==
    IF starving /\ queue # << >>
      THEN /\ holder' = Head(queue)
           /\ queue' = Tail(queue)
           /\ starving' = (Len(queue) > 1)
           /\ stage' = [stage EXCEPT ![c] = next, ![Head(queue)] = "table"]
      ELSE /\ holder' = NoCall
           /\ starving' = FALSE
           /\ UNCHANGED queue
           /\ stage' = [stage EXCEPT ![c] = next]

\* Mutant: the mutex is forgotten on the failing path.
ReadFailsLocked(c) ==
    /\ stage[c] \in {"read", "parsed"}
    /\ stage' = [stage EXCEPT ![c] = "write"]
    /\ Forget(c)
    /\ UNCHANGED <<now, commands, cached, mutex>>

\* The first waiter, woken, finds the mutex free.
Woken(c) ==
    /\ queue # << >> /\ Head(queue) = c
    /\ holder = NoCall
    /\ holder' = c
    /\ queue' = Tail(queue)
    /\ stage' = [stage EXCEPT ![c] = "table"]
    /\ UNCHANGED <<now, commands, cached, starving, locals>>

-----------------------------------------------------------------------------
(* A ceph call.                                                            *)

\* Arguments that decode: the deadline starts before the mutex is taken.
CephArrives(c) ==
    /\ now + 2 * CallTimeout <= MaxTime
    /\ stage[c] = "idle"
    /\ start' = [start EXCEPT ![c] = now]
    /\ Lock(c)
    /\ UNCHANGED <<now, commands, cached, held, heldAt>>

Fresh == table # << >> /\ now - tableAt < TableLife

\* Mutant: a table that is used stays fresh.
TableCachedSliding(c) ==
    /\ stage[c] = "table"
    /\ Fresh
    /\ held' = [held EXCEPT ![c] = table]
    /\ heldAt' = [heldAt EXCEPT ![c] = readAt]
    /\ tableAt' = now
    /\ Unlock(c, "judge")
    /\ UNCHANGED <<now, commands, table, readAt, start>>

\* cephTable finds a table to use ...
TableCached(c) ==
    /\ stage[c] = "table"
    /\ Fresh
    /\ held' = [held EXCEPT ![c] = table]
    /\ heldAt' = [heldAt EXCEPT ![c] = readAt]
    /\ Unlock(c, "judge")
    /\ UNCHANGED <<now, commands, cached, start>>

\* Mutant: whether the table is fresh is decided before the mutex is taken,
\* so a call that had to queue reads it again.
ReadStartsUnchecked(c) ==
    /\ stage[c] = "table"
    /\ stage' = [stage EXCEPT ![c] = "read"]
    /\ UNCHANGED <<now, commands, cached, mutex, locals>>

\* ... or starts the command that reads it, the mutex held.
ReadStarts(c) ==
    /\ stage[c] = "table"
    /\ ~Fresh
    /\ stage' = [stage EXCEPT ![c] = "read"]
    /\ UNCHANGED <<now, commands, cached, mutex, locals>>

\* Ceph answers with the commands it has, in some order.
CephLists(c) ==
    /\ stage[c] = "read"
    /\ ~Expired(c)
    /\ stage' = [stage EXCEPT ![c] = "parsed"]
    /\ \E t \in SetToSeqs(commands) : held' = [held EXCEPT ![c] = t]
    /\ heldAt' = [heldAt EXCEPT ![c] = now]
    /\ UNCHANGED <<now, commands, cached, mutex, start>>

\* The command ends and its table is stored, empty or not.
TableStored(c) ==
    /\ stage[c] = "parsed"
    /\ table' = held[c]
    /\ tableAt' = now
    /\ readAt' = heldAt[c]
    /\ Unlock(c, "judge")
    /\ UNCHANGED <<now, commands, locals>>

\* The command fails or the deadline kills it, at once when the deadline
\* passed in the queue: nothing is stored, the call is refused.
ReadFails(c) ==
    /\ stage[c] \in {"read", "parsed"}
    /\ Unlock(c, "write")
    /\ Forget(c)
    /\ UNCHANGED <<now, commands, cached>>

\* What a call asks matters here first.
Verdicts(c) == {CheckCephArgs(held[c], a) : a \in ArgLists}

\* CheckCephArgs lets the call's command run ...
Allowed(c) ==
    /\ stage[c] = "judge"
    /\ TRUE \in Verdicts(c)
    /\ stage' = [stage EXCEPT ![c] = "run"]
    /\ held' = [held EXCEPT ![c] = << >>]
    /\ heldAt' = [heldAt EXCEPT ![c] = 0]
    /\ UNCHANGED <<now, commands, cached, mutex, start>>

\* ... or the call is refused.
Refused(c) ==
    /\ stage[c] = "judge"
    /\ FALSE \in Verdicts(c)
    /\ stage' = [stage EXCEPT ![c] = "write"]
    /\ Forget(c)
    /\ UNCHANGED <<now, commands, cached, mutex>>

\* A prom or host call whose request its checks let through.
ForwardStarts(c) ==
    /\ now + 2 * CallTimeout <= MaxTime
    /\ stage[c] = "idle"
    /\ start' = [start EXCEPT ![c] = now]
    /\ stage' = [stage EXCEPT ![c] = "run"]
    /\ UNCHANGED <<now, commands, cached, mutex, held, heldAt>>

\* The command or the source answers, fails or runs into the deadline; the
\* call is recorded, then its answer is written.
Answered(c) ==
    /\ stage[c] = "run"
    /\ stage' = [stage EXCEPT ![c] = "write"]
    /\ Forget(c)
    /\ UNCHANGED <<now, commands, cached, mutex>>

\* The answer or the refusal is written, or its client has gone: no deadline
\* covers the write.
Delivered(c) ==
    /\ stage[c] = "write"
    /\ stage' = [stage EXCEPT ![c] = "idle"]
    /\ UNCHANGED <<now, commands, cached, mutex, locals>>

-----------------------------------------------------------------------------
CallStep(c) ==
    \/ CephArrives(c) \/ Woken(c) \/ TableCached(c) \/ ReadStarts(c)
    \/ CephLists(c) \/ TableStored(c) \/ ReadFails(c) \/ Allowed(c)
    \/ Refused(c) \/ ForwardStarts(c) \/ Answered(c)
    \/ Delivered(c)

Over == now = MaxTime /\ (\A c \in Calls : stage[c] = "idle") /\ UNCHANGED vars

Next == Tick \/ Upgrade \/ Over \/ \E c \in Calls : CallStep(c)

Spec == Init /\ [][Next]_vars

-----------------------------------------------------------------------------
(* Properties.                                                             *)

\* A ceph command runs only if the commands Ceph listed mark every best
\* reading of its words read-only; the order in which a Go map yields them
\* decides no call, and no such read is refused.
VerdictIsOrderFree ==
    \A c \in Calls : stage[c] = "judge" =>
        \A a \in ArgLists :
            CheckCephArgs(held[c], a) <=> ReadOnly(ToSet(held[c]), a)

\* No call is judged by what Ceph said longer ago than the hour and the one
\* call that read it: an upgrade that turns a read into a write is noticed.
JudgedByRecentTable ==
    \A c \in Calls :
        stage[c] = "judge" => now - heldAt[c] < TableLife + CallTimeout

\* While a usable table is there nobody reads it again: calls that queued
\* behind the read use what it brought.
ReadsAreNeeded == \A c \in Calls : stage[c] \in {"read", "parsed"} => ~Fresh

\* The mutex does not know deadlines, but no call works longer than twice its
\* own before its answer is ready to be written: the calls before it in the queue
\* end with theirs, and at most one call can slip in front of it.  A client that
\* does not read its answer holds its own call up, and no other.
CallsAreBounded ==
    \A c \in Calls : stage[c] \notin {"idle", "write"} => now <= start[c] + 2 * CallTimeout

-----------------------------------------------------------------------------
(* The inductive invariant behind them.                                    *)

\* One call at a time is at the table, and the others that got to the mutex
\* are in its queue, each once, in the order they came.
InTable == {"table", "read", "parsed"}
Exclusive ==
    /\ \A c \in Calls : stage[c] \in InTable <=> holder = c
    /\ \A c \in Calls : stage[c] = "queued" => Contains(queue, c)
    /\ \A i \in DOMAIN queue : stage[queue[i]] = "queued"
    /\ IsInjective(queue)
    /\ \A i, j \in DOMAIN queue : i < j => start[queue[i]] <= start[queue[j]]

\* While the mutex is handed out as it comes, whoever holds it came before
\* those that wait; a call that slipped in came within their deadline.
WaitsBounded ==
    /\ holder = NoCall => ~starving
    /\ \A c \in Calls : stage[c] = "queued" =>
          /\ ~starving => now <= start[c] + CallTimeout
          /\ ~starving /\ holder # NoCall => start[holder] <= start[c]
          /\ holder # NoCall => start[holder] <= start[c] + CallTimeout

\* What is stored is at most one deadline old.
ReadsAreRecent ==
    /\ tableAt <= readAt + CallTimeout
    /\ \A c \in Calls :
          stage[c] = "parsed" => start[c] <= heldAt[c] /\ now <= start[c] + CallTimeout

TimedInv ==
    /\ TypeOK
    /\ Exclusive
    /\ WaitsBounded
    /\ CallsAreBounded
    /\ ReadsAreRecent
    /\ JudgedByRecentTable
    /\ ReadsAreNeeded

\* Whatever is cached or judged by lists commands that Ceph had.
Listed ==
    /\ table \in Seq(UNION Tables)
    /\ held \in [Calls -> Seq(UNION Tables)]

IndInv == TimedInv /\ Listed
=============================================================================
