--------------------------- MODULE ToolRun_proofs ---------------------------
(* Proofs about one tool call, for any output cap, any limits and any time *)
(* systemd takes to start and stop a unit.                                 *)
EXTENDS ToolRun, TLAPS

LEMMA Times ==
    /\ ToolTimeout \in Nat \ {0} /\ CallTimeout \in Nat /\ StartDelay \in Nat
    /\ StopGrace \in Nat /\ MaxClock \in Nat /\ Cap \in Nat \ {0} /\ MaxWritten \in Nat
    /\ PipeSize \in Nat \ {0}
  BY CapAssumption, LadderAssumption

LEMMA InitOK == Init => IndInv
<1> SUFFICES ASSUME Init PROVE IndInv
  OBVIOUS
<1> USE Times DEF Init, NoRecord, InPipe
<1>1. TypeOK
  <2>1. record \in Records /\ kept \in BOOLEAN
    BY Zenon DEF Records
  <2> QED
    BY <2>1 DEF TypeOK, Never
<1>2. Staged /\ CleanIsComplete /\ AnswerMatchesRecord
  BY DEF Staged, CleanIsComplete, AnswerMatchesRecord
<1>3. TimeoutsApart /\ Timed
  BY DEF TimeoutsApart, Timed, Patience
<1> QED
  BY <1>1, <1>2, <1>3 DEF IndInv

\* The steps of Registry.Call itself.
LEMMA AgentOK == IndInv /\ Agent => IndInv'
<1> SUFFICES ASSUME IndInv, Agent PROVE IndInv'
  OBVIOUS
<1> USE Times DEF procVars, readVars, InPipe, ReadOver
<1>a. TypeOK /\ Staged /\ CleanIsComplete /\ AnswerMatchesRecord /\ TimeoutsApart /\ Timed
  BY DEF IndInv
<1>1. CASE Refuse
  <2>1. TypeOK'
    BY <1>1, <1>a DEF Refuse, TypeOK, Records
  <2>2. Staged' /\ CleanIsComplete' /\ AnswerMatchesRecord'
    BY <1>1, <1>a DEF Refuse, Staged, CleanIsComplete, AnswerMatchesRecord, Complete, NoRecord
  <2>3. TimeoutsApart' /\ Timed'
    BY <1>1, <1>a DEF Refuse, TimeoutsApart, Timed, Staged
  <2> QED
    BY <2>1, <2>2, <2>3 DEF IndInv
<1>2. CASE Start
  <2>1. TypeOK'
    BY <1>2, <1>a DEF Start, TypeOK
  <2>2. Staged' /\ CleanIsComplete' /\ AnswerMatchesRecord'
    BY <1>2, <1>a DEF Start, Staged, CleanIsComplete, AnswerMatchesRecord, NoRecord
  <2>3. TimeoutsApart' /\ Timed'
    BY <1>2, <1>a DEF Start, TimeoutsApart, Timed, Staged, Patience
  <2> QED
    BY <2>1, <2>2, <2>3 DEF IndInv
<1>3. CASE StartFails
  <2>1. TypeOK'
    BY <1>3, <1>a DEF StartFails, TypeOK
  <2>2. Staged' /\ CleanIsComplete' /\ AnswerMatchesRecord'
    BY <1>3, <1>a DEF StartFails, Staged, CleanIsComplete, AnswerMatchesRecord, NoRecord
  <2>3. TimeoutsApart' /\ Timed'
    BY <1>3, <1>a DEF StartFails, TimeoutsApart, Timed, Patience
  <2> QED
    BY <2>1, <2>2, <2>3 DEF IndInv
<1>4. CASE Read
  <2>1. TypeOK'
    BY <1>4, <1>a DEF Read, Taking, ctlVars, TypeOK
  <2>2. Staged' /\ CleanIsComplete' /\ AnswerMatchesRecord'
    BY <1>4, <1>a DEF Read, Taking, ctlVars, Staged, CleanIsComplete, AnswerMatchesRecord,
       NoRecord, TypeOK
  <2>3. TimeoutsApart' /\ Timed'
    BY <1>4, <1>a DEF Read, ctlVars, TimeoutsApart, Timed, Patience
  <2> QED
    BY <2>1, <2>2, <2>3 DEF IndInv
<1>9. CASE Drain
  <2>1. TypeOK'
    BY <1>9, <1>a DEF Drain, ctlVars, TypeOK
  <2>2. Staged' /\ CleanIsComplete' /\ AnswerMatchesRecord'
    BY <1>9, <1>a DEF Drain, ctlVars, Staged, CleanIsComplete, AnswerMatchesRecord, NoRecord,
       TypeOK
  <2>3. TimeoutsApart' /\ Timed'
    BY <1>9, <1>a DEF Drain, ctlVars, TimeoutsApart, Timed, Patience
  <2> QED
    BY <2>1, <2>2, <2>3 DEF IndInv
<1>5. CASE ReadEnds
  <2>1. TypeOK'
    BY <1>5, <1>a DEF ReadEnds, TypeOK
  <2>2. Staged' /\ CleanIsComplete' /\ AnswerMatchesRecord'
    BY <1>5, <1>a DEF ReadEnds, Staged, CleanIsComplete, AnswerMatchesRecord, NoRecord, PipeClosed
  <2>3. TimeoutsApart' /\ Timed'
    BY <1>5, <1>a DEF ReadEnds, TimeoutsApart, Timed, Patience
  <2> QED
    BY <2>1, <2>2, <2>3 DEF IndInv
<1>6. CASE WaitEnds
  <2>1. TypeOK'
    BY <1>6, <1>a DEF WaitEnds, TypeOK
  <2>2. Staged' /\ AnswerMatchesRecord'
    BY <1>6, <1>a DEF WaitEnds, Staged, AnswerMatchesRecord, NoRecord
  <2>3. CleanIsComplete'
    BY <1>6, <1>a DEF WaitEnds, Staged, CleanIsComplete, Complete, NoRecord, TypeOK
  <2>4. TimeoutsApart' /\ Timed'
    BY <1>6, <1>a DEF WaitEnds, TimeoutsApart, Timed, Patience
  <2> QED
    BY <2>1, <2>2, <2>3, <2>4 DEF IndInv
<1>7. CASE Record
  <2>1. TypeOK'
    BY <1>7, <1>a DEF Record, Verdict, TypeOK, Records
  <2>2. Staged' /\ AnswerMatchesRecord'
    BY <1>7, <1>a DEF Record, Verdict, Staged, AnswerMatchesRecord, NoRecord
  <2>3. CleanIsComplete'
    BY <1>7, <1>a DEF Record, Verdict, Staged, CleanIsComplete, Complete, TypeOK
  <2>4. TimeoutsApart' /\ Timed'
    BY <1>7, <1>a DEF Record, Verdict, TimeoutsApart, Timed, Patience
  <2> QED
    BY <2>1, <2>2, <2>3, <2>4 DEF IndInv
<1>8. CASE Return
  <2>1. TypeOK'
    BY <1>8, <1>a DEF Return, TypeOK, Records, Staged
  <2>2. Staged' /\ AnswerMatchesRecord'
    BY <1>8, <1>a DEF Return, Staged, AnswerMatchesRecord, NoRecord, TypeOK, Records
  <2>3. CleanIsComplete'
    BY <1>8, <1>a DEF Return, Staged, CleanIsComplete, Complete, TypeOK, Records
  <2>4. TimeoutsApart' /\ Timed'
    BY <1>8, <1>a DEF Return, TimeoutsApart, Timed, Patience
  <2> QED
    BY <2>1, <2>2, <2>3, <2>4 DEF IndInv
<1> QED
  BY <1>1, <1>2, <1>3, <1>4, <1>5, <1>6, <1>7, <1>8, <1>9 DEF Agent

\* The context, and what ends the agent or the client from outside.
LEMMA ContextOK == IndInv /\ (ContextDone \/ KillClient \/ AgentDies) => IndInv'
<1> SUFFICES ASSUME IndInv, ContextDone \/ KillClient \/ AgentDies PROVE IndInv'
  OBVIOUS
<1> USE Times DEF procVars, ctlVars, readVars, InPipe, ReadOver, PipeClosed, Complete
<1>a. TypeOK /\ Staged /\ CleanIsComplete /\ AnswerMatchesRecord /\ TimeoutsApart /\ Timed
  BY DEF IndInv
<1>1. CASE ContextDone
  <2>1. TypeOK'
    BY <1>1, <1>a DEF ContextDone, TypeOK
  <2>2. Staged' /\ CleanIsComplete' /\ AnswerMatchesRecord'
    BY <1>1, <1>a DEF ContextDone, Staged, CleanIsComplete, AnswerMatchesRecord
  <2>3. TimeoutsApart' /\ Timed'
    BY <1>1, <1>a DEF ContextDone, TimeoutsApart, Timed, Patience, TypeOK
  <2> QED
    BY <2>1, <2>2, <2>3 DEF IndInv
<1>2. CASE KillClient
  <2>1. TypeOK'
    BY <1>2, <1>a DEF KillClient, TypeOK, Ends
  <2>2. Staged' /\ CleanIsComplete' /\ AnswerMatchesRecord'
    BY <1>2, <1>a DEF KillClient, Staged, CleanIsComplete, AnswerMatchesRecord
  <2>3. TimeoutsApart' /\ Timed'
    BY <1>2, <1>a DEF KillClient, TimeoutsApart, Timed, Patience
  <2> QED
    BY <2>1, <2>2, <2>3 DEF IndInv
<1>3. CASE AgentDies
  <2>1. TypeOK'
    BY <1>3, <1>a DEF AgentDies, TypeOK
  <2>2. Staged' /\ CleanIsComplete' /\ AnswerMatchesRecord'
    BY <1>3, <1>a DEF AgentDies, Staged, CleanIsComplete, AnswerMatchesRecord
  <2>3. TimeoutsApart' /\ Timed'
    BY <1>3, <1>a DEF AgentDies, TimeoutsApart, Timed, Patience
  <2> QED
    BY <2>1, <2>2, <2>3 DEF IndInv
<1> QED
  BY <1>1, <1>2, <1>3

\* systemd and the command.
LEMMA SandboxOK ==
    IndInv /\ (UnitStarts \/ UnitWrites \/ UnitEnds \/ RuntimeMax \/ UnitStops \/ ClientExits)
    => IndInv'
<1> SUFFICES ASSUME IndInv,
                    UnitStarts \/ UnitWrites \/ UnitEnds \/ RuntimeMax \/ UnitStops \/ ClientExits
             PROVE  IndInv'
  OBVIOUS
<1> USE Times DEF ctlVars, readVars, InPipe, ReadOver, PipeClosed, Complete
<1>a. TypeOK /\ Staged /\ CleanIsComplete /\ AnswerMatchesRecord /\ TimeoutsApart /\ Timed
  BY DEF IndInv
<1>1. CASE UnitStarts
  <2>1. TypeOK'
    BY <1>1, <1>a DEF UnitStarts, TypeOK, RuntimeMaxSec, Never
  <2>2. Staged' /\ CleanIsComplete' /\ AnswerMatchesRecord'
    BY <1>1, <1>a DEF UnitStarts, Staged, CleanIsComplete, AnswerMatchesRecord
  <2>3. TimeoutsApart' /\ Timed'
    BY <1>1, <1>a DEF UnitStarts, TimeoutsApart, Timed, Patience, RuntimeMaxSec, TypeOK
  <2> QED
    BY <2>1, <2>2, <2>3 DEF IndInv
<1>2. CASE UnitWrites
  <2>1. TypeOK'
    BY <1>2, <1>a DEF UnitWrites, TypeOK
  <2>2. Staged' /\ CleanIsComplete' /\ AnswerMatchesRecord'
    BY <1>2, <1>a DEF UnitWrites, Staged, CleanIsComplete, AnswerMatchesRecord, TypeOK, NoRecord
  <2>3. TimeoutsApart' /\ Timed'
    BY <1>2, <1>a DEF UnitWrites, TimeoutsApart, Timed, Patience
  <2> QED
    BY <2>1, <2>2, <2>3 DEF IndInv
<1>3. CASE UnitEnds
  <2>1. TypeOK'
    BY <1>3, <1>a DEF UnitEnds, TypeOK, Ends, Never
  <2>2. Staged' /\ CleanIsComplete' /\ AnswerMatchesRecord'
    BY <1>3, <1>a DEF UnitEnds, Staged, CleanIsComplete, AnswerMatchesRecord
  <2>3. TimeoutsApart' /\ Timed'
    BY <1>3, <1>a DEF UnitEnds, TimeoutsApart, Timed, Patience
  <2> QED
    BY <2>1, <2>2, <2>3 DEF IndInv
<1>4. CASE RuntimeMax
  <2>1. TypeOK'
    BY <1>4, <1>a DEF RuntimeMax, TypeOK, Never
  <2>2. Staged' /\ CleanIsComplete' /\ AnswerMatchesRecord'
    BY <1>4, <1>a DEF RuntimeMax, Staged, CleanIsComplete, AnswerMatchesRecord
  <2>3. TimeoutsApart' /\ Timed'
    BY <1>4, <1>a DEF RuntimeMax, TimeoutsApart, Timed, Patience, TypeOK
  <2> QED
    BY <2>1, <2>2, <2>3 DEF IndInv
<1>5. CASE UnitStops
  <2>1. TypeOK'
    BY <1>5, <1>a DEF UnitStops, TypeOK, Ends, Never
  <2>2. Staged' /\ CleanIsComplete' /\ AnswerMatchesRecord'
    BY <1>5, <1>a DEF UnitStops, Staged, CleanIsComplete, AnswerMatchesRecord
  <2>3. TimeoutsApart' /\ Timed'
    BY <1>5, <1>a DEF UnitStops, TimeoutsApart, Timed, Patience
  <2> QED
    BY <2>1, <2>2, <2>3 DEF IndInv
<1>6. CASE ClientExits
  <2>1. TypeOK'
    BY <1>6, <1>a DEF ClientExits, TypeOK, Ends
  <2>2. Staged' /\ CleanIsComplete' /\ AnswerMatchesRecord'
    BY <1>6, <1>a DEF ClientExits, Staged, CleanIsComplete, AnswerMatchesRecord, Ends
  <2>3. TimeoutsApart' /\ Timed'
    BY <1>6, <1>a DEF ClientExits, TimeoutsApart, Timed, Patience, Ends
  <2> QED
    BY <2>1, <2>2, <2>3 DEF IndInv
<1> QED
  BY <1>1, <1>2, <1>3, <1>4, <1>5, <1>6

\* When nothing is urgent, every timer still has time to run; and the call is
\* over once none has.
LEMMA TickOK == IndInv /\ Tick => IndInv'
<1> SUFFICES ASSUME IndInv, Tick PROVE IndInv'
  OBVIOUS
<1> USE Times DEF Tick, ctlVars, procVars, readVars
<1>a. TypeOK /\ Staged /\ CleanIsComplete /\ AnswerMatchesRecord /\ TimeoutsApart /\ Timed
  BY DEF IndInv
<1>1. TypeOK'
  BY <1>a DEF TypeOK
<1>2. Staged'
  BY <1>a DEF Staged, Urgent, PipeClosed, InPipe, ReadOver
<1>3. CleanIsComplete' /\ AnswerMatchesRecord'
  BY <1>a DEF CleanIsComplete, AnswerMatchesRecord, Complete
<1>4. TimeoutsApart'
  BY <1>a DEF TimeoutsApart, TypeOK
<1>5. Timed'
  <2>1. client = "running" /\ unit = "none" => clock + 1 <= StartDelay
    BY <1>a DEF Timed, Urgent, TypeOK
  <2>2. /\ unit = "running" => clock + 1 <= due /\ due <= StartDelay + ToolTimeout
        /\ unit = "stopping" => clock + 1 <= due /\ due <= Patience
    BY <1>a DEF Timed, Urgent, TypeOK
  <2>3. st \notin {"returned", "dead"} => clock + 1 <= Patience
    <3> SUFFICES ASSUME st \notin {"returned", "dead"}, clock >= Patience PROVE FALSE
      BY <1>a DEF TypeOK, Patience
    <3>1. st \in {"reading", "waiting"}
      BY <1>a DEF Urgent, TypeOK
    <3>2. clock >= ToolTimeout
      BY <1>a DEF TypeOK, Patience
    <3>3. ctxErr # "none" /\ client # "running"
      BY <3>1, <3>2, <1>a DEF Urgent
    <3>4. unit \notin {"running", "stopping"}
      BY <1>a DEF Urgent, Timed, TypeOK, Patience
    <3>5. PipeClosed
      BY <3>1, <3>3, <3>4, <1>a DEF PipeClosed, Staged
    <3> QED
      BY <3>1, <3>3, <3>5, <1>a DEF Urgent, Taking, ReadOver, InPipe, Staged, TypeOK
  <2> QED
    BY <2>1, <2>2, <2>3 DEF Timed, Patience
<1> QED
  BY <1>1, <1>2, <1>3, <1>4, <1>5 DEF IndInv

LEMMA StutterOK == IndInv /\ UNCHANGED vars => IndInv'
  BY DEF vars, ctlVars, procVars, readVars, InPipe, ReadOver, IndInv, TypeOK, Staged, CleanIsComplete, Complete, PipeClosed,
         AnswerMatchesRecord, TimeoutsApart, Timed

\* The inductive invariant of a call holds in every reachable state
\* (Registry.Call and runCommand against systemd).
THEOREM CallInductive == Spec => []IndInv
<1>1. IndInv /\ [Next]_vars => IndInv'
  BY AgentOK, ContextOK, SandboxOK, TickOK, StutterOK DEF Next, Over
<1> QED
  BY InitOK, <1>1, PTL DEF Spec

\* A result that looks whole is everything the command wrote (runCommand).
THEOREM WholeResults == Spec => []WholeIsWhole
<1>1. IndInv => WholeIsWhole
  BY DEF IndInv, CleanIsComplete, Complete, WholeIsWhole
<1> QED
  BY CallInductive, <1>1, PTL

\* The caller is told what its record says, made when systemd-run was over,
\* whether or not the log could be written (Registry.Call, RecordToolCall).
THEOREM RecordsAnswered == Spec => []AnswerMatchesRecord
<1>1. IndInv => AnswerMatchesRecord
  BY DEF IndInv
<1> QED
  BY CallInductive, <1>1, PTL

\* No time passes while the command is held up by a full pipe: what ReadAll does
\* not take, the drain does (runCommand).
THEOREM HeldUpNever == Spec => NeverHeldUp
<1>1. IndInv /\ [Next]_vars => [clock' # clock => ~HeldUp]_vars
  <2> SUFFICES ASSUME IndInv, Next, clock' # clock, HeldUp PROVE FALSE
    OBVIOUS
  <2>1. Tick
    BY DEF Next, Agent, Refuse, Start, StartFails, Read, ReadEnds, Drain, WaitEnds, Record, Return,
           ContextDone, KillClient, AgentDies, UnitStarts, UnitWrites, UnitEnds, RuntimeMax,
           UnitStops, ClientExits, Over, vars
  <2>2. InPipe > 0
    BY Times DEF HeldUp
  <2>3. Taking \/ ReadOver
    BY Times DEF IndInv, TypeOK, HeldUp, Taking, ReadOver
  <2> QED
    BY <2>1, <2>2, <2>3 DEF Tick, Urgent, HeldUp, Taking
<1> QED
  BY CallInductive, <1>1, PTL DEF Spec, NeverHeldUp

\* The safety half of CallReturns and UnitIsBounded: the clock does not pass
\* Patience while Registry.Call or the unit it started is at work, not even when
\* the agent has died and only RuntimeMaxSec is left to end the command.
EndsInTime ==
    clock > Patience => st \in {"returned", "dead"} /\ unit \notin {"running", "stopping"}

THEOREM CallAndUnitEnd == Spec => []EndsInTime
<1>1. IndInv => EndsInTime
  BY Times DEF IndInv, TypeOK, Timed, Patience, EndsInTime
<1> QED
  BY CallInductive, <1>1, PTL

-----------------------------------------------------------------------------
(* The call as CallLog sees it.                                            *)

LogStep == Log!Next \/ UNCHANGED <<Running, Ruled, Logged, ToldOf>>

LEMMA InitLogs == Init => Log!Init
<1> SUFFICES ASSUME Init PROVE Log!Init
  OBVIOUS
<1>1. Running = [c \in TheCall |-> FALSE]
  BY Zenon DEF Init, Running
<1>2. /\ Ruled = [c \in TheCall |-> "none"]
      /\ Logged = [c \in TheCall |-> "none"]
      /\ ToldOf = [c \in TheCall |-> "none"]
  BY DEF Init, Ruled, Logged, Outcome, ToldOf, NoRecord
<1> QED
  BY <1>1, <1>2 DEF Log!Init, Log!Fresh

\* A step that leaves systemd-run, the record and the result alone.
LEMMA UnseenStep ==
    ASSUME UNCHANGED <<client, record, kept, result>>
    PROVE  LogStep
  BY DEF LogStep, Running, Ruled, Logged, Outcome, ToldOf

\* systemd-run starts.
LEMMA RunSeen == ASSUME IndInv, Start PROVE LogStep
<1>1. /\ record = NoRecord /\ result = "none" /\ client = "none" /\ client' = "running"
      /\ UNCHANGED <<record, kept, result>>
  BY DEF IndInv, Staged, Start
<1>2. Log!Run("call")
  BY <1>1 DEF Log!Run, Log!Open, Running, Ruled, Logged, Outcome, ToldOf, NoRecord, TheCall
<1> QED
  BY <1>2 DEF LogStep, Log!Next, TheCall

\* systemd-run ends.
LEMMA EndSeen ==
    ASSUME client = "running", client' # "running", UNCHANGED <<record, kept, result>>
    PROVE  LogStep
<1>1. Log!End("call")
  BY DEF Log!End, Running, Ruled, Logged, Outcome, ToldOf, TheCall
<1> QED
  BY <1>1 DEF LogStep, Log!Next, TheCall

\* The record is made, once, with systemd-run gone, and kept or lost.
LEMMA LogSeen == ASSUME IndInv, Refuse \/ Record PROVE LogStep
<1>1. /\ record = NoRecord /\ ~kept /\ result = "none" /\ client # "running"
      /\ UNCHANGED <<client, result>>
  BY DEF IndInv, Staged, Refuse, Record, procVars
<1>2. \/ record' = [allowed |-> FALSE, reason |-> "refused", cut |-> FALSE]
      \/ /\ record'.allowed /\ record'.reason \in {"none", "failed", "timedOut"}
         /\ record'.cut \in BOOLEAN
  <2>1. CASE Refuse
    BY <2>1 DEF Refuse
  <2>2. CASE Record
    <3>1. record' = [allowed |-> TRUE, reason |-> Verdict,
                     cut |-> runErr = "truncated" /\ Verdict = "none"]
      BY <2>2 DEF Record
    <3>2. (runErr = "truncated" /\ Verdict = "none") \in BOOLEAN
      OBVIOUS
    <3>3. Verdict \in {"none", "failed", "timedOut"}
      BY DEF Verdict
    <3> QED
      BY <3>1, <3>2, <3>3
  <2> QED
    BY <2>1, <2>2
<1>3. kept' \in BOOLEAN
  BY DEF Refuse, Record
<1> DEFINE o == Outcome'
<1>4. o \in {"refused", "whole", "cut", "failed", "timedOut"}
  BY <1>2 DEF Outcome
<1>5. Ruled' = [c \in TheCall |-> o] /\ Logged' = [c \in TheCall |-> IF kept' THEN o ELSE "none"]
  BY DEF Ruled, Logged
<1>6. Outcome = "none"
  BY <1>1 DEF Outcome, NoRecord
<1> HIDE DEF o
<1>7. /\ Ruled = [c \in TheCall |-> "none"] /\ Logged = [c \in TheCall |-> "none"]
      /\ Running = [c \in TheCall |-> FALSE] /\ Running' = Running
      /\ ToldOf = [c \in TheCall |-> "none"] /\ ToldOf' = ToldOf
  BY <1>1, <1>6 DEF Ruled, Logged, Running, ToldOf
<1>8. Log!Record("call", o)
  BY <1>3, <1>5, <1>7 DEF Log!Record, Log!Open, TheCall
<1> QED
  BY <1>4, <1>8 DEF LogStep, Log!Next, TheCall

\* Call returns, and what it returns is what the record says.
LEMMA TellSeen == ASSUME IndInv, Return PROVE LogStep
<1>1. /\ st = "recorded" /\ result = "none" /\ client # "running"
      /\ record.allowed <=> record.reason # "refused"
      /\ record \in Records
      /\ UNCHANGED <<client, record, kept>>
  BY DEF IndInv, Staged, TypeOK, Return, procVars
<1> DEFINE o == IF record.reason # "none" THEN record.reason
                ELSE IF record.cut THEN "cut" ELSE "whole"
<1>2. result' = o
  BY DEF Return
<1>3. o \in {"refused", "whole", "cut", "failed", "timedOut"}
  BY <1>1 DEF Records
<1>4. Outcome = o
  BY <1>1 DEF Outcome
<1>5. Ruled = [c \in TheCall |-> o] /\ UNCHANGED <<Ruled, Logged, Running>>
  BY <1>1, <1>4 DEF Ruled, Logged, Outcome, Running
<1>6. Log!Tell("call", o)
  BY <1>1, <1>2, <1>5 DEF Log!Tell, Running, ToldOf, TheCall
<1> QED
  BY <1>3, <1>6 DEF LogStep, Log!Next, TheCall

LEMMA StepLogs == IndInv /\ [Next]_vars => [Log!Next]_(Log!vars)
<1> SUFFICES ASSUME IndInv, [Next]_vars PROVE LogStep
  BY DEF LogStep, Log!vars
<1>1. CASE Agent
  <2>1. CASE StartFails \/ Read \/ ReadEnds \/ Drain \/ WaitEnds
    BY <2>1, UnseenStep DEF StartFails, Read, ReadEnds, Drain, WaitEnds, ctlVars, procVars
  <2> QED
    BY <1>1, <2>1, RunSeen, LogSeen, TellSeen DEF Agent
<1>2. CASE KillClient \/ ClientExits
  BY <1>2, EndSeen DEF KillClient, ClientExits, ctlVars, Ends
<1>3. CASE \/ ContextDone \/ AgentDies \/ UnitStarts \/ UnitWrites \/ UnitEnds
           \/ RuntimeMax \/ UnitStops \/ Tick \/ Over \/ UNCHANGED vars
  BY <1>3, UnseenStep
     DEF ContextDone, AgentDies, UnitStarts, UnitWrites, UnitEnds, RuntimeMax, UnitStops, Tick,
         Over, vars, ctlVars, procVars
<1> QED
  BY <1>1, <1>2, <1>3 DEF Next

\* Registry.Call keeps the log as CallLog promises: one record, made and put to
\* the log when the command is over and lost only if its write fails, and one
\* answer, which is what the record says.
THEOREM KeepsLog == Spec => ImplementsLog
<1>1. Init => Log!Init
  BY InitLogs
<1>2. IndInv /\ [Next]_vars => [Log!Next]_(Log!vars)
  BY StepLogs
<1> QED
  BY <1>1, <1>2, CallInductive, PTL DEF Spec, ImplementsLog, Log!Spec
=============================================================================
