------------------------------ MODULE FlapGuard ------------------------------
(***************************************************************************)
(* How often an agent connects: Backoff and FlapGuard of                   *)
(* pkg/tunnel/backoff.go as the loop of cmd/agent/run.go uses them, for    *)
(* several agents that share one identity, so that the SaaS ends the       *)
(* session of the others whenever one connects.                            *)
(*                                                                         *)
(* Time is a Tick that moves every running timer; connecting and noticing  *)
(* an ended session take none.  Delays are whole units and jitter is in    *)
(* hundredths, any value in its range being possible.  Connects that fail  *)
(* and sessions that end for other reasons are faults, MaxFaults of them.  *)
(***************************************************************************)
EXTENDS Integers

CONSTANTS
    Agents,     \* the processes that hold the identity
    Ramp,       \* DefaultBackoff: between failed connects
    Guard,      \* DefaultFlapGuard's Backoff: after a session that died young
    Threshold,  \* DefaultFlapGuard's Threshold
    MaxCount,   \* the count from which on a delay no longer grows
    MaxFaults   \* bound on faults

Backoffs == [min : Int, max : Int, factor : Int, jitter : 0..100]

ASSUME BackoffAssumption ==
    /\ Ramp \in Backoffs /\ Guard \in Backoffs
    /\ Ramp.min > 0 /\ Guard.min > 0
    /\ Ramp.jitter > 0 /\ Guard.jitter > 0
ASSUME BoundAssumption ==
    Threshold \in Nat \ {0} /\ MaxCount \in Nat /\ MaxFaults \in Nat

-----------------------------------------------------------------------------
(* Backoff.Delay.                                                          *)

\* The settings Delay falls back to.
Min(b) == IF b.min <= 0 THEN 1 ELSE b.min
Max(b) == IF b.max <= 0 \/ b.max < Min(b) THEN Min(b) ELSE b.max
Factor(b) == IF b.factor < 1 THEN 2 ELSE b.factor

\* The wait before attempt n, before jitter.
Nominal(b, n) ==
    LET d == Min(b) * Factor(b) ^ n IN IF d > Max(b) THEN Max(b) ELSE d

\* Mutant: the jittered delay is not clamped.
DelaysUnclamped(b, n) ==
    LET d == Nominal(b, n)
        spread == (d * b.jitter) \div 100
    IN  IF b.jitter > 0 THEN (d - spread) .. (d + spread) ELSE {d}

\* Delay's results: symmetric jitter, clamped at min from below.
Delays(b, n) ==
    LET d == Nominal(b, n)
        spread == (d * b.jitter) \div 100
    IN  IF b.jitter > 0
          THEN {IF r < Min(b) THEN Min(b) ELSE r : r \in (d - spread) .. (d + spread)}
          ELSE {d}

-----------------------------------------------------------------------------
VARIABLES
    phase,    \* per agent: connecting, up, ended, or in one of the waits
    left,     \* per agent: what is left of its wait
    age,      \* per agent: its session's lifetime, up to Threshold
    flaps,    \* per agent: FlapGuard.flaps, up to MaxCount
    attempt,  \* per agent: Reconnect's attempt, up to MaxCount
    quiet,    \* per agent: the time since it last tried to connect, up to Spacing
    apart,    \* per agent: the time since it last connected, up to Gap
    faults    \* the faults so far

vars == <<phase, left, age, flaps, attempt, quiet, apart, faults>>

\* What the properties compare those times with.
Smaller(x, y) == IF x < y THEN x ELSE y
Gap == Smaller(Guard.min, Threshold)
Spacing == Smaller(Ramp.min, Gap)

Phases == {"connect", "up", "ended", "ramp", "wait"}
Waiting == {"ramp", "wait"}

TypeOK ==
    /\ phase \in [Agents -> Phases]
    /\ left \in [Agents -> Nat]
    /\ age \in [Agents -> 0..Threshold]
    /\ flaps \in [Agents -> 0..MaxCount]
    /\ attempt \in [Agents -> 0..MaxCount]
    /\ quiet \in [Agents -> 0..Spacing]
    /\ apart \in [Agents -> 0..Gap]
    /\ faults \in 0..MaxFaults

Init ==
    /\ phase = [a \in Agents |-> "connect"]
    /\ left = [a \in Agents |-> 0]
    /\ age = [a \in Agents |-> 0]
    /\ flaps = [a \in Agents |-> 0]
    /\ attempt = [a \in Agents |-> 0]
    /\ quiet = [a \in Agents |-> Spacing]
    /\ apart = [a \in Agents |-> Gap]
    /\ faults = 0

Upto(bound, x) == IF x < bound THEN x + 1 ELSE x

Tick ==
    /\ \A a \in Agents : phase[a] \notin {"connect", "ended"}
    /\ \A a \in Agents : phase[a] \in Waiting => left[a] > 0
    /\ left' = [a \in Agents |-> IF phase[a] \in Waiting THEN left[a] - 1 ELSE left[a]]
    /\ age' = [a \in Agents |-> IF phase[a] = "up" THEN Upto(Threshold, age[a]) ELSE age[a]]
    /\ quiet' = [a \in Agents |-> Upto(Spacing, quiet[a])]
    /\ apart' = [a \in Agents |-> Upto(Gap, apart[a])]
    /\ UNCHANGED <<phase, flaps, attempt, faults>>

\* Reconnect succeeds; the SaaS ends whatever session the identity had.
Connects(a) ==
    /\ phase[a] = "connect"
    /\ phase' = [b \in Agents |->
                   IF b = a THEN "up"
                   ELSE IF phase[b] = "up" THEN "ended" ELSE phase[b]]
    /\ age' = [age EXCEPT ![a] = 0]
    /\ attempt' = [attempt EXCEPT ![a] = 0]
    /\ quiet' = [quiet EXCEPT ![a] = 0]
    /\ apart' = [apart EXCEPT ![a] = 0]
    /\ UNCHANGED <<left, flaps, faults>>

\* A connect fails: Reconnect waits and counts.
ConnectFails(a) ==
    /\ faults < MaxFaults
    /\ faults' = faults + 1
    /\ phase[a] = "connect"
    /\ phase' = [phase EXCEPT ![a] = "ramp"]
    /\ \E d \in Delays(Ramp, attempt[a]) : left' = [left EXCEPT ![a] = d]
    /\ attempt' = [attempt EXCEPT ![a] = Upto(MaxCount, @)]
    /\ quiet' = [quiet EXCEPT ![a] = 0]
    /\ UNCHANGED <<age, flaps, apart>>

\* The session ends for another reason than a newer one.
SessionDrops(a) ==
    /\ faults < MaxFaults
    /\ faults' = faults + 1
    /\ phase[a] = "up"
    /\ phase' = [phase EXCEPT ![a] = "ended"]
    /\ UNCHANGED <<left, age, flaps, attempt, quiet, apart>>

\* SessionEnded after a session that lived.
LivedLong(a) ==
    /\ phase[a] = "ended"
    /\ age[a] >= Threshold
    /\ flaps' = [flaps EXCEPT ![a] = 0]
    /\ phase' = [phase EXCEPT ![a] = "connect"]
    /\ UNCHANGED <<left, age, attempt, quiet, apart, faults>>

\* Mutant: the flap is not counted.
DiedYoungUncounted(a) ==
    /\ phase[a] = "ended"
    /\ age[a] < Threshold
    /\ \E d \in Delays(Guard, flaps[a]) : left' = [left EXCEPT ![a] = d]
    /\ phase' = [phase EXCEPT ![a] = "wait"]
    /\ UNCHANGED <<age, flaps, attempt, quiet, apart, faults>>

\* Mutant: the first young death is forgiven.
DiedYoungUnguarded(a) ==
    /\ phase[a] = "ended"
    /\ age[a] < Threshold
    /\ flaps' = [flaps EXCEPT ![a] = Upto(MaxCount, @)]
    /\ IF flaps[a] = 0
         THEN phase' = [phase EXCEPT ![a] = "connect"] /\ UNCHANGED left
         ELSE /\ \E d \in Delays(Guard, flaps[a] - 1) : left' = [left EXCEPT ![a] = d]
              /\ phase' = [phase EXCEPT ![a] = "wait"]
    /\ UNCHANGED <<age, attempt, quiet, apart, faults>>

\* SessionEnded after one that died young: the delay of this flap, counted.
DiedYoung(a) ==
    /\ phase[a] = "ended"
    /\ age[a] < Threshold
    /\ \E d \in Delays(Guard, flaps[a]) : left' = [left EXCEPT ![a] = d]
    /\ flaps' = [flaps EXCEPT ![a] = Upto(MaxCount, @)]
    /\ phase' = [phase EXCEPT ![a] = "wait"]
    /\ UNCHANGED <<age, attempt, quiet, apart, faults>>

\* A timer fires: Reconnect tries again, or run.go calls it anew.
WaitOver(a) ==
    /\ phase[a] \in Waiting
    /\ left[a] = 0
    /\ phase' = [phase EXCEPT ![a] = "connect"]
    /\ UNCHANGED <<left, age, flaps, attempt, quiet, apart, faults>>

AgentStep(a) == Connects(a) \/ LivedLong(a) \/ DiedYoung(a) \/ WaitOver(a)
Fault(a) == ConnectFails(a) \/ SessionDrops(a)

Next == Tick \/ \E a \in Agents : AgentStep(a) \/ Fault(a)

\* Time passes, timers fire, and a SaaS that is there answers.
Fairness == WF_vars(Tick) /\ \A a \in Agents : WF_vars(AgentStep(a))

Spec == Init /\ [][Next]_vars /\ Fairness

-----------------------------------------------------------------------------
(* Properties.                                                             *)

\* No agent, however many share its identity and however its sessions die,
\* connects twice within the guard's floor (or within Threshold, when that is
\* less): the pair cannot fight at reconnect speed.
ConnectsAreSpaced ==
    [][ \A a \in Agents :
          (phase[a] = "connect" /\ phase'[a] = "up") => apart[a] >= Gap ]_vars

\* No agent tries to connect twice within the ramp's floor, whatever fails:
\* jitter never makes the wait a busy loop.
AttemptsAreSpaced ==
    [][ \A a \in Agents :
          (phase[a] = "connect" /\ phase'[a] # "connect") => quiet[a] >= Spacing ]_vars

\* However the agents fight, again and again one of their sessions lives to
\* Threshold: the escalating waits make room for it.
FightSettles == []<>(\E a \in Agents : phase[a] = "up" /\ age[a] >= Threshold)

-----------------------------------------------------------------------------
\* Behind the two distances: what is left of a wait makes up for what is
\* missing of them, and a session that is up is as old as it is apart.
Spaced ==
    \A a \in Agents :
        /\ phase[a] = "ramp" => quiet[a] + left[a] >= Spacing
        /\ phase[a] = "wait" => quiet[a] + left[a] >= Spacing /\ apart[a] + left[a] >= Gap
        /\ phase[a] = "connect" => quiet[a] >= Spacing
        /\ phase[a] \in {"connect", "ramp"} => apart[a] >= Gap
        /\ phase[a] \in {"up", "ended"} =>
              /\ apart[a] >= Smaller(age[a], Gap)
              /\ quiet[a] >= Smaller(age[a], Spacing)

\* No wait is longer than its ceiling and the jitter on top of it, however many
\* connects have failed and sessions died before it.
Longest(b) == Max(b) + (Max(b) * b.jitter) \div 100

WaitsEnd ==
    \A a \in Agents :
        /\ phase[a] = "ramp" => left[a] <= Longest(Ramp)
        /\ phase[a] = "wait" => left[a] <= Longest(Guard)

IndInv == TypeOK /\ Spaced /\ WaitsEnd
=============================================================================
