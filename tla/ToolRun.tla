------------------------------- MODULE ToolRun -------------------------------
(***************************************************************************)
(* One tool call, from Registry.Call (internal/toolplane/registry.go) down *)
(* to the command it runs in a transient systemd unit (sandbox.go), with   *)
(* the local audit record it leaves (audit.go).                            *)
(*                                                                         *)
(* The command's output is counted in units, time in ticks.  A tick passes *)
(* only when no timer of the agent or of systemd is due.  systemd-run (the *)
(* client) is the process the agent started and can kill; the unit is what *)
(* runs the command, holds the pipe with it, and outlives it.              *)
(***************************************************************************)
EXTENDS Naturals

CONSTANTS
    Cap,          \* the tool's MaxOutputBytes
    MaxWritten,   \* bound: output of the command that is explored
    PipeSize,     \* what the pipe holds before a write to it blocks
    ToolTimeout,  \* the tool's timeout, and the unit's RuntimeMaxSec
    CallTimeout,  \* Server.CallTimeout, the next rung of the ladder
    StartDelay,   \* how long systemd may take to start a unit
    StopGrace,    \* how long a unit may take to stop once told to
    MaxClock      \* bound: where the clock stops

ASSUME CapAssumption == Cap \in Nat \ {0} /\ MaxWritten \in Nat /\ PipeSize \in Nat \ {0}
ASSUME LadderAssumption ==
    /\ ToolTimeout \in Nat \ {0}
    /\ CallTimeout \in Nat
    /\ ToolTimeout < CallTimeout
    /\ StartDelay \in Nat
    /\ StopGrace \in Nat
    /\ MaxClock \in Nat

VARIABLES
    clock,    \* ticks since Call derived its context
    st,       \* where Call is
    ctxErr,   \* the call context's Err
    client,   \* systemd-run: its state, then how it ended
    unit,     \* the command's unit
    due,      \* when systemd acts on the unit next
    written,  \* what the command has written to the pipe
    read,     \* what ReadAll has taken from it
    drained,  \* what the drain has taken from it after that
    runErr,   \* what the runner reported
    record,   \* the audit record
    kept,     \* the log holds it: its write did not fail
    result    \* what Call returned

ctlVars == <<st, runErr, record, kept, result>>
procVars == <<client, unit, due, written>>
readVars == <<read, drained>>
vars == <<clock, ctxErr, ctlVars, procVars, readVars>>

Never == MaxClock + ToolTimeout + StopGrace + 1

NoRecord == [allowed |-> FALSE, reason |-> "none", cut |-> FALSE]
Records == [allowed : BOOLEAN, cut : BOOLEAN,
            reason : {"none", "refused", "failed", "timedOut"}]

Ends == {"ok", "failed", "killed"}

TypeOK ==
    /\ clock \in 0..MaxClock
    /\ st \in {"lookup", "reading", "waiting", "finish", "recorded", "returned", "dead"}
    /\ ctxErr \in {"none", "deadline", "canceled"}
    /\ client \in {"none", "running"} \cup Ends
    /\ unit \in {"none", "running", "stopping"} \cup Ends
    /\ due \in 0..Never
    /\ written \in 0..MaxWritten
    /\ read \in 0..(Cap + 1)
    /\ drained \in 0..MaxWritten
    /\ runErr \in {"none", "failed", "truncated"}
    /\ record \in Records
    /\ kept \in BOOLEAN
    /\ result \in {"none", "refused", "whole", "cut", "failed", "timedOut"}

Init ==
    /\ clock = 0
    /\ st = "lookup"
    /\ ctxErr = "none"
    /\ client = "none"
    /\ unit = "none"
    /\ due = Never
    /\ written = 0
    /\ read = 0
    /\ drained = 0
    /\ runErr = "none"
    /\ record = NoRecord
    /\ kept = FALSE
    /\ result = "none"

-----------------------------------------------------------------------------
(* Registry.Call.                                                          *)

\* An unknown tool or a command the sandbox does not take: recorded, refused.
\* Here and in Record, RecordToolCall only prints a write that fails.
Refuse ==
    /\ st = "lookup"
    /\ st' = "recorded"
    /\ kept' \in BOOLEAN
    /\ record' = [allowed |-> FALSE, reason |-> "refused", cut |-> FALSE]
    /\ UNCHANGED <<clock, ctxErr, runErr, result, procVars, readVars>>

\* The runner starts systemd-run and begins reading.
Start ==
    /\ st = "lookup"
    /\ st' = "reading"
    /\ client' = "running"
    /\ UNCHANGED <<clock, ctxErr, runErr, record, kept, result, unit, due, written, readVars>>

\* systemd-run cannot be started: not there, or the context is already done.
StartFails ==
    /\ st = "lookup"
    /\ st' = "finish"
    /\ runErr' = "failed"
    /\ UNCHANGED <<clock, ctxErr, record, kept, result, procVars, readVars>>

\* What the command has written and nobody has taken.
InPipe == written - read - drained

\* Mutant: nothing takes the output after ReadAll.
TakingUndrained == st = "reading" /\ read < Cap + 1

\* The agent takes what the command writes: ReadAll up to its limit of one byte
\* past the cap, the drain goroutine from then on, until Wait closes the pipe.
Taking == (st = "reading" /\ read < Cap + 1) \/ st = "waiting"

\* Mutant: the output is read without a limit.
ReadUncapped ==
    /\ st = "reading" /\ InPipe > 0
    /\ read' = read + 1
    /\ UNCHANGED <<clock, ctxErr, ctlVars, procVars, drained>>

\* ReadAll over LimitReader.
Read ==
    /\ st = "reading" /\ Taking /\ InPipe > 0
    /\ read' = read + 1
    /\ UNCHANGED <<clock, ctxErr, ctlVars, procVars, drained>>

\* io.Copy to io.Discard.
Drain ==
    /\ st = "waiting" /\ Taking /\ InPipe > 0
    /\ drained' = drained + 1
    /\ UNCHANGED <<clock, ctxErr, ctlVars, procVars, read>>

\* Every holder of the pipe's write end has gone.
PipeClosed ==
    client \notin {"none", "running"} /\ unit \notin {"running", "stopping"}

\* Mutant: only the end of the pipe ends the reading.
ReadOverAtEOF == PipeClosed /\ InPipe = 0

\* ReadAll returns at its limit or at the end of the pipe, not with the context.
ReadOver == read = Cap + 1 \/ (PipeClosed /\ InPipe = 0)

ReadEnds ==
    /\ st = "reading"
    /\ ReadOver
    /\ st' = "waiting"
    /\ UNCHANGED <<clock, ctxErr, runErr, record, kept, result, procVars, readVars>>

\* Mutant: systemd-run is not waited for.
WaitEndsUnwaited ==
    /\ st = "waiting"
    /\ runErr' = IF read > Cap THEN "truncated" ELSE "none"
    /\ st' = "finish"
    /\ UNCHANGED <<clock, ctxErr, record, kept, result, procVars, readVars>>

\* Mutant: the comparison that finds a cut is off by one.
WaitEndsOffByOne ==
    /\ st = "waiting"
    /\ client # "running"
    /\ \/ /\ client \in {"failed", "killed"} \/ ctxErr # "none"
          /\ runErr' = "failed"
       \/ /\ client = "ok"
          /\ runErr' = IF read > Cap + 1 THEN "truncated" ELSE "none"
    /\ st' = "finish"
    /\ UNCHANGED <<clock, ctxErr, record, kept, result, procVars, readVars>>

\* cmd.Wait.  Its error comes first; only a command that ended well can be
\* reported truncated.  A command that ended well may still be reported as
\* cancelled when the context was done before Wait reaped it.
WaitEnds ==
    /\ st = "waiting"
    /\ client # "running"
    /\ \/ /\ client \in {"failed", "killed"} \/ ctxErr # "none"
          /\ runErr' = "failed"
       \/ /\ client = "ok"
          /\ runErr' = IF read > Cap THEN "truncated" ELSE "none"
    /\ st' = "finish"
    /\ UNCHANGED <<clock, ctxErr, record, kept, result, procVars, readVars>>

\* asTimeout: any error under an expired context, a truncation included, is a
\* timeout.  A unit that RuntimeMaxSec ends before the context has expired is a
\* plain failure, though it hit the same limit.
Verdict ==
    IF runErr # "none" /\ ctxErr = "deadline" THEN "timedOut"
    ELSE IF runErr = "failed" THEN "failed" ELSE "none"

\* The record is made and put to the log when the command is over, before Call
\* returns.
Record ==
    /\ st = "finish"
    /\ st' = "recorded"
    /\ kept' \in BOOLEAN
    /\ record' = [allowed |-> TRUE,
                  reason |-> Verdict,
                  cut |-> runErr = "truncated" /\ Verdict = "none"]
    /\ UNCHANGED <<clock, ctxErr, runErr, result, procVars, readVars>>

\* The refusal, or the output with the truncation notice or the failure
\* appended.
Return ==
    /\ st = "recorded"
    /\ st' = "returned"
    /\ result' = IF record.reason # "none" THEN record.reason
                 ELSE IF record.cut THEN "cut" ELSE "whole"
    /\ UNCHANGED <<clock, ctxErr, runErr, record, kept, procVars, readVars>>

-----------------------------------------------------------------------------
(* The call's context, and what it does to systemd-run.                    *)

\* The deadline of the tool, or the agent's own shutdown.
ContextDone ==
    /\ ctxErr = "none"
    /\ st \in {"lookup", "reading", "waiting", "finish"}
    /\ \/ clock >= ToolTimeout /\ ctxErr' = "deadline"
       \/ clock < ToolTimeout /\ ctxErr' = "canceled"
    /\ UNCHANGED <<clock, ctlVars, procVars, readVars>>

\* CommandContext kills the process it started, not the unit.
KillClient ==
    /\ ctxErr # "none"
    /\ client = "running"
    /\ client' = "killed"
    /\ UNCHANGED <<clock, ctxErr, ctlVars, unit, due, written, readVars>>

\* The agent dies; systemd-run loses its parent and the pipe its reader.
AgentDies ==
    /\ st \notin {"returned", "dead"}
    /\ st' = "dead"
    /\ UNCHANGED <<clock, ctxErr, runErr, record, kept, result, procVars, readVars>>

-----------------------------------------------------------------------------
(* The sandbox: systemd and the command.                                   *)

\* Mutant: the unit is given the caller's limit, not the tool's.
RuntimeMaxSecOfCaller == CallTimeout

\* Mutant: the sandbox carries no RuntimeMaxSec: the unit is never due.
RuntimeMaxSecMissing == Never - clock

\* The unit's own limit, set when it is made.
RuntimeMaxSec == ToolTimeout

UnitStarts ==
    /\ client = "running"
    /\ unit = "none"
    /\ unit' = "running"
    /\ due' = clock + RuntimeMaxSec
    /\ UNCHANGED <<clock, ctxErr, ctlVars, client, written, readVars>>

\* Blocked while the pipe is full; without a reader the write fails.
UnitWrites ==
    /\ unit \in {"running", "stopping"}
    /\ st \in {"reading", "waiting"}
    /\ InPipe < PipeSize
    /\ written < MaxWritten
    /\ written' = written + 1
    /\ UNCHANGED <<clock, ctxErr, ctlVars, client, unit, due, readVars>>

UnitEnds ==
    /\ unit = "running"
    /\ unit' \in {"ok", "failed"}
    /\ due' = Never
    /\ UNCHANGED <<clock, ctxErr, ctlVars, client, written, readVars>>

\* RuntimeMaxSec: systemd asks the unit to stop...
RuntimeMax ==
    /\ unit = "running"
    /\ due <= clock
    /\ unit' = "stopping"
    /\ due' = clock + StopGrace
    /\ UNCHANGED <<clock, ctxErr, ctlVars, client, written, readVars>>

\* ... and it stops, by itself or killed at the end of its grace.
UnitStops ==
    /\ unit = "stopping"
    /\ unit' = "killed"
    /\ due' = Never
    /\ UNCHANGED <<clock, ctxErr, ctlVars, client, written, readVars>>

\* systemd-run waits for its unit and exits as it did, or fails to make one.
ClientExits ==
    /\ client = "running"
    /\ \/ unit = "none" /\ client' = "failed"
       \/ unit \in Ends /\ client' = IF unit = "ok" THEN "ok" ELSE "failed"
    /\ UNCHANGED <<clock, ctxErr, ctlVars, unit, due, written, readVars>>

-----------------------------------------------------------------------------
\* A step that has no reason to wait for time to pass.
Urgent ==
    \/ st \in {"lookup", "finish", "recorded"}
    \/ client = "running" /\ unit = "none" /\ clock >= StartDelay
    \/ Taking /\ InPipe > 0
    \/ st = "reading" /\ ReadOver
    \/ st = "waiting" /\ client # "running"
    \/ st \in {"reading", "waiting"} /\ ctxErr = "none" /\ clock >= ToolTimeout
    \/ client = "running" /\ (ctxErr # "none" \/ unit \in Ends)
    \/ unit \in {"running", "stopping"} /\ due <= clock

Tick ==
    /\ clock < MaxClock
    /\ ~Urgent
    /\ clock' = clock + 1
    /\ UNCHANGED <<ctxErr, ctlVars, procVars, readVars>>

Agent ==
    \/ Refuse \/ Start \/ StartFails \/ Read \/ ReadEnds \/ Drain \/ WaitEnds
    \/ Record \/ Return

\* Nothing is left to happen, or the clock has run out.
Over == (st \in {"returned", "dead"} \/ clock = MaxClock) /\ UNCHANGED vars

Next ==
    \/ Agent \/ ContextDone \/ KillClient \/ AgentDies
    \/ UnitStarts \/ UnitWrites \/ UnitEnds \/ RuntimeMax \/ UnitStops \/ ClientExits
    \/ Tick \/ Over

\* The agent and systemd run; time passes.  The command itself owes nothing.
Fairness ==
    /\ WF_vars(Agent)
    /\ WF_vars(clock >= ToolTimeout /\ ContextDone)
    /\ WF_vars(KillClient)
    /\ WF_vars(RuntimeMax)
    /\ WF_vars(UnitStops)
    /\ WF_vars(UnitStarts)
    /\ WF_vars(unit \in Ends /\ ClientExits)
    /\ WF_vars(Tick)

Spec == Init /\ [][Next]_vars /\ Fairness

-----------------------------------------------------------------------------
\* A result that looks whole is whole: everything the command wrote, and no
\* more than the cap, from a command that ended well.
WholeIsWhole ==
    result = "whole" => read = written /\ written <= Cap /\ unit = "ok"

\* The caller is answered only for a call whose record was made, of a command
\* whose systemd-run was over by then, and is told what the record says, whether
\* or not the log could be written.
AnswerMatchesRecord ==
    /\ kept \/ result # "none" => record # NoRecord
    /\ result = "cut" => record.cut
    /\ result \in {"failed", "timedOut"} => record.reason = result
    /\ record.allowed => client # "running"

\* No time passes while the command is held up by a full pipe the agent should
\* empty (the comment in runCommand).
HeldUp ==
    /\ st \in {"reading", "waiting"}
    /\ unit \in {"running", "stopping"}
    /\ InPipe = PipeSize
NeverHeldUp == [][clock' # clock => ~HeldUp]_vars

\* The tool's own limit answers before the server's per-call limit: the ladder
\* of registry.go.  It needs a systemd that starts and stops units promptly.
LadderHolds ==
    clock >= CallTimeout => st \in {"returned", "dead"}

\* A call that starts returns or dies with the agent.
CallReturns == <>(st \in {"returned", "dead"})

\* A command ends even if the agent that started it died or gave up on it.
UnitIsBounded == (unit \in {"running", "stopping"}) ~> (unit \in Ends)

-----------------------------------------------------------------------------
(* The inductive invariant behind them.                                    *)

\* The client is there from Start on and gone when the reading and the waiting
\* are over; nothing is recorded or answered before.
Staged ==
    /\ st = "lookup" => client = "none" /\ clock = 0
    /\ st = "reading" => client # "none"
    /\ st = "waiting" => client # "none" /\ ReadOver
    /\ st \in {"lookup", "reading"} => drained = 0
    /\ drained > 0 => read = Cap + 1
    /\ InPipe \in 0..PipeSize
    /\ st \in {"finish", "recorded"} => client # "running"
    /\ st \in {"lookup", "reading", "waiting", "finish"} =>
          record = NoRecord /\ ~kept /\ result = "none"
    /\ st = "recorded" => result = "none" /\ (record.allowed <=> record.reason # "refused")
    /\ client = "ok" => unit = "ok"
    /\ client = "none" => unit = "none"

\* No error of the runner means an output read to its end.
Complete == unit = "ok" /\ client # "running" /\ read = written /\ written <= Cap
CleanIsComplete ==
    /\ st = "finish" /\ runErr = "none" => Complete
    /\ st = "recorded" /\ record.reason = "none" /\ ~record.cut => Complete
    /\ result = "whole" => Complete

\* What the record calls a timeout came after the deadline, and what it calls a
\* failure came without it.
TimeoutsApart ==
    /\ ctxErr = "deadline" => clock >= ToolTimeout
    /\ record.reason = "timedOut" => ctxErr = "deadline"
    /\ record.reason = "failed" => ctxErr # "deadline"
    /\ record.reason = "failed" => st \in {"recorded", "returned", "dead"}

\* Each timer bounds the clock while what it limits goes on.
Patience == StartDelay + ToolTimeout + StopGrace
Timed ==
    /\ client = "running" /\ unit = "none" => clock <= StartDelay
    /\ unit = "running" => clock <= due /\ due <= StartDelay + ToolTimeout
    /\ unit = "stopping" => clock <= due /\ due <= Patience
    /\ st \notin {"returned", "dead"} => clock <= Patience

IndInv ==
    /\ TypeOK
    /\ Staged
    /\ CleanIsComplete
    /\ AnswerMatchesRecord
    /\ TimeoutsApart
    /\ Timed

-----------------------------------------------------------------------------
(* The log the call keeps.                                                 *)

TheCall == {"call"}
Running == [c \in TheCall |-> client = "running"]
Outcome ==
    IF record.reason # "none" THEN record.reason
    ELSE IF record.cut THEN "cut"
    ELSE IF record.allowed THEN "whole" ELSE "none"
Ruled == [c \in TheCall |-> Outcome]
Logged == [c \in TheCall |-> IF kept THEN Outcome ELSE "none"]
ToldOf == [c \in TheCall |-> result]

Log == INSTANCE CallLog WITH
    Calls <- TheCall, Outcomes <- {"refused", "whole", "cut", "failed", "timedOut"},
    Unlogged <- {}, running <- Running, ruled <- Ruled, logged <- Logged, told <- ToldOf

\* The caller learns of a call what its record says, after systemd-run is over and
\* the record was put to the log, and nothing else ever; the log holds that record
\* or, if its write failed, none.
ImplementsLog == Log!Spec

-----------------------------------------------------------------------------
(* What comments of the source say and the code does not do.               *)

\* audit.go says the record's Truncated says that output was cut.
CutIsRecorded == (st = "returned" /\ read > Cap) => record.cut
=============================================================================
