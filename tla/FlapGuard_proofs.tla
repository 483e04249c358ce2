-------------------------- MODULE FlapGuard_proofs --------------------------
(* Proofs that the reconnect loop is never a busy loop, for any number of  *)
(* agents, any backoffs with a floor and a jitter, and any threshold.      *)
EXTENDS FlapGuard, TLAPS

USE DEF Phases, Waiting

\* Whatever the attempt and the jitter, a delay is at least the floor.
LEMMA DelayFloor ==
    ASSUME NEW b \in Backoffs, b.min > 0, b.jitter > 0, NEW n, NEW d \in Delays(b, n)
    PROVE  d \in Nat /\ d >= b.min
<1>1. Min(b) = b.min /\ b.min \in Nat
  BY DEF Min, Backoffs
<1>2. PICK r \in Int : d = IF r < Min(b) THEN Min(b) ELSE r
  BY DEF Delays
<1> QED
  BY <1>1, <1>2

\* And never longer than the ceiling with the jitter on top: however often the
\* delay has been multiplied, jitter is taken of what the ceiling left of it.
LEMMA DelayCeiling ==
    ASSUME NEW b \in Backoffs, b.min > 0, b.jitter > 0, NEW n \in Nat, NEW d \in Delays(b, n)
    PROVE  d <= Longest(b)
<1> DEFINE nominal == Nominal(b, n)
<1> DEFINE spread == (nominal * b.jitter) \div 100
<1> DEFINE most == (Max(b) * b.jitter) \div 100
<1>1. /\ Min(b) \in Nat \ {0} /\ Max(b) \in Nat /\ Min(b) <= Max(b)
      /\ Factor(b) \in Nat \ {0} /\ b.jitter \in 0..100
  BY DEF Min, Max, Factor, Backoffs
<1>2. Factor(b) ^ n \in Int
  BY <1>1
<1>3. Min(b) * Factor(b) ^ n \in Int
  BY <1>1, <1>2
<1>4. nominal \in Int /\ nominal <= Max(b)
  BY <1>1, <1>3 DEF Nominal
<1> HIDE DEF nominal
<1>5. /\ nominal * b.jitter \in Int /\ Max(b) * b.jitter \in Nat
      /\ nominal * b.jitter <= Max(b) * b.jitter
  BY <1>1, <1>4
<1>6. spread \in Int /\ most \in Nat /\ spread <= most
  BY <1>5
<1>7. PICK r \in (nominal - spread) .. (nominal + spread) : d = IF r < Min(b) THEN Min(b) ELSE r
  BY DEF Delays, nominal
<1> HIDE DEF spread, most
<1>8. r \in Int /\ r <= nominal + spread
  BY <1>4, <1>6, <1>7
<1>9. d <= Max(b) + most
  BY <1>1, <1>4, <1>6, <1>7, <1>8
<1> QED
  BY <1>9 DEF Longest, most

LEMMA Ceilings == Longest(Ramp) \in Int /\ Longest(Guard) \in Int
<1> SUFFICES ASSUME NEW b \in Backoffs PROVE Longest(b) \in Int
  BY BackoffAssumption
<1>1. Max(b) \in Int /\ b.jitter \in Int
  BY DEF Max, Min, Backoffs
<1>2. Max(b) * b.jitter \in Int
  BY <1>1
<1> QED
  BY <1>1, <1>2 DEF Longest

LEMMA Distances ==
    /\ Ramp \in Backoffs /\ Guard \in Backoffs
    /\ Ramp.min \in Nat \ {0} /\ Guard.min \in Nat \ {0}
    /\ Gap \in Nat /\ Spacing \in Nat
    /\ Gap <= Guard.min /\ Gap <= Threshold
    /\ Spacing <= Ramp.min /\ Spacing <= Gap
  BY BackoffAssumption, BoundAssumption DEF Backoffs, Gap, Spacing, Smaller

LEMMA InitOK == Init => IndInv
  BY Distances, BoundAssumption DEF Init, IndInv, TypeOK, Spaced, WaitsEnd

LEMMA TickOK == IndInv /\ Tick => IndInv'
<1> SUFFICES ASSUME IndInv, Tick PROVE IndInv'
  OBVIOUS
<1> USE Distances, BoundAssumption DEF IndInv, Tick, Upto
<1>1. TypeOK'
  BY DEF TypeOK
<1>2. Spaced'
  BY DEF Spaced, TypeOK, Smaller
<1>3. WaitsEnd'
  BY Ceilings DEF WaitsEnd, TypeOK
<1> QED
  BY <1>1, <1>2, <1>3

LEMMA ConnectsOK ==
    ASSUME IndInv, NEW a \in Agents, Connects(a)
    PROVE  IndInv'
<1> USE Distances, BoundAssumption DEF IndInv, Connects
<1>1. TypeOK'
  BY DEF TypeOK
<1>2. Spaced'
  BY DEF Spaced, TypeOK, Smaller
<1>3. WaitsEnd'
  BY DEF WaitsEnd, TypeOK
<1> QED
  BY <1>1, <1>2, <1>3

LEMMA ConnectFailsOK ==
    ASSUME IndInv, NEW a \in Agents, ConnectFails(a)
    PROVE  IndInv'
<1> USE Distances, BoundAssumption DEF IndInv, ConnectFails, Upto
<1>1. PICK d \in Delays(Ramp, attempt[a]) : left' = [left EXCEPT ![a] = d]
  OBVIOUS
<1>2. d \in Nat /\ d >= Ramp.min /\ d <= Longest(Ramp)
  BY DelayFloor, DelayCeiling, BackoffAssumption DEF TypeOK
<1>3. TypeOK'
  BY <1>1, <1>2 DEF TypeOK
<1>4. Spaced'
  BY <1>1, <1>2 DEF Spaced, TypeOK, Smaller
<1>5. WaitsEnd'
  BY <1>1, <1>2 DEF WaitsEnd, TypeOK
<1> QED
  BY <1>3, <1>4, <1>5

LEMMA DiedYoungOK ==
    ASSUME IndInv, NEW a \in Agents, DiedYoung(a)
    PROVE  IndInv'
<1> USE Distances, BoundAssumption DEF IndInv, DiedYoung, Upto
<1>1. PICK d \in Delays(Guard, flaps[a]) : left' = [left EXCEPT ![a] = d]
  OBVIOUS
<1>2. d \in Nat /\ d >= Guard.min /\ d <= Longest(Guard)
  BY DelayFloor, DelayCeiling, BackoffAssumption DEF TypeOK
<1>3. TypeOK'
  BY <1>1, <1>2 DEF TypeOK
<1>4. Spaced'
  BY <1>1, <1>2 DEF Spaced, TypeOK, Smaller
<1>5. WaitsEnd'
  BY <1>1, <1>2 DEF WaitsEnd, TypeOK
<1> QED
  BY <1>3, <1>4, <1>5

\* The steps that only change phases: a drop, a long life, a timer.
LEMMA PhaseStepOK ==
    ASSUME IndInv, NEW a \in Agents, SessionDrops(a) \/ LivedLong(a) \/ WaitOver(a)
    PROVE  IndInv'
<1> USE Distances, BoundAssumption DEF IndInv, SessionDrops, LivedLong, WaitOver
<1>1. TypeOK'
  BY DEF TypeOK
<1>2. Spaced'
  BY DEF Spaced, TypeOK, Smaller
<1>3. WaitsEnd'
  BY DEF WaitsEnd, TypeOK
<1> QED
  BY <1>1, <1>2, <1>3

LEMMA NextOK == IndInv /\ [Next]_vars => IndInv'
<1> SUFFICES ASSUME IndInv, [Next]_vars PROVE IndInv'
  OBVIOUS
<1>1. CASE UNCHANGED vars
  BY <1>1 DEF vars, IndInv, TypeOK, Spaced, WaitsEnd
<1> QED
  BY <1>1, TickOK, ConnectsOK, ConnectFailsOK, DiedYoungOK, PhaseStepOK
     DEF Next, AgentStep, Fault

\* The inductive invariant holds in every reachable state.
THEOREM SpacingInductive == Spec => []IndInv
<1>1. Init => IndInv
  BY InitOK
<1>2. IndInv /\ [Next]_vars => IndInv'
  BY NextOK
<1> QED
  BY <1>1, <1>2, PTL DEF Spec

\* However long the SaaS stays away, and however the sessions die, the agent is
\* at most one ceiling and its jitter from its next try (Backoff.Delay).
THEOREM WaitsBounded == Spec => []WaitsEnd
<1>1. IndInv => WaitsEnd
  BY DEF IndInv
<1> QED
  BY <1>1, SpacingInductive, PTL

\* No agent connects twice within the guard's floor.
THEOREM ConnectsSpaced == Spec => ConnectsAreSpaced
<1>1. IndInv /\ [Next]_vars =>
        [ \A a \in Agents :
            (phase[a] = "connect" /\ phase'[a] = "up") => apart[a] >= Gap ]_vars
  BY DEF IndInv, Spaced
<1> QED
  BY <1>1, SpacingInductive, PTL DEF Spec, ConnectsAreSpaced

\* No agent tries to connect twice within the ramp's floor.
THEOREM AttemptsSpaced == Spec => AttemptsAreSpaced
<1>1. IndInv /\ [Next]_vars =>
        [ \A a \in Agents :
            (phase[a] = "connect" /\ phase'[a] # "connect") => quiet[a] >= Spacing ]_vars
  BY DEF IndInv, Spaced
<1> QED
  BY <1>1, SpacingInductive, PTL DEF Spec, AttemptsAreSpaced
=============================================================================
