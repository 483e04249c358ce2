# A TLA+ model of the CubeCOS advisor agent

`cube-advisor-agent` runs on a node of a customer's cluster. It keeps one
outbound tunnel to a SaaS (the Advisor), over which the SaaS opens channels: a
*tool* channel runs one read-only command in a sandbox, a *console* channel is
piped to the node's own sshd or to a web endpoint the node's operator listed.
This directory models the agent in TLA+, checks it with TLC and proves the main
results with TLAPS.

## The system's parts

| part | source | state | operations |
|---|---|---|---|
| reconnect loop | `cmd/agent/run.go`, `pkg/tunnel/backoff.go` | attempt count, flap count, process context | dial, hello, back off, serve, close, flap wait |
| session | `pkg/tunnel/session.go`, `ws.go` | yamux session, its streams, control stream | Dial, Accept, OpenChannel, AcceptChannel, Close |
| channel server | `internal/agent/serve.go` | consecutive failures, wait group, AfterFunc | accept loop, handle, serveTool, serveConsole |
| protocol frames | `pkg/tunnelproto` | none | Validate, ReadToolArgs, WriteToolResult, version negotiation |
| console, web | `internal/console` | allowlist file | Serve, Resolve, pipe |
| tool plane | `internal/toolplane` | registry, audit log, dials | Call, runCommand, sandbox argv, RecordToolCall |
| identity | `internal/identity`, `cmd/agent/main.go` | the identity directory | Enroll, Save, Load, Exists, Remove, TLSConfig |
| settings | `cmd/agent/settings.go`, `toolplane/level.go`, `consent.go`, `dials.go` | level and consent files | read at startup, written by enroll |
| advisory files | `identity/consoleorigins.go`, `currentrelease.go` | two files | rewritten on each connect |
| read brokers | `internal/broker` | Ceph table cache | prom, ceph, host, os over Unix sockets |
| OpenStack token | `internal/openstack/admin.go` | token, expiry, catalogue, client | Endpoint, authenticate, Invalidate |
| release manifest | `pkg/release`, `cmd/mkrelease` | the artifact directory | Build, Render, ParseManifest |

How they interact: `run` reads the identity directory once, then loops over
`Reconnect`, `Serve` and `Close`. `Serve` runs one goroutine per channel; they
share the session, the process context and the audit log. A tool call goes
through `Registry.Call` to a `systemd-run` process and the transient unit it
starts; the command in it may call back into the brokers. `enroll` is another
process that writes the directory `run` reads.

What is hard in it: the goroutines and the SaaS interleave freely; the transport
dies at any moment and reports it in different ways; `mux.Accept` and most
stream reads do not see the context, so cancellation goes through closing the
session; three timers of three processes race over one tool call; files are
rewritten in place under a reader and a crash; broker calls share a cache and a
mutex that does not know their deadlines; two nodes may hold one identity. The
hazards, each at its line, are in `PROJECT.json`.

What makes each part correct, in short: a handler never outlives the session
that started it and does only what a validated frame asked for; Serve leaves a
live session for a cause; shutdown and the judging of a stream always come about,
and Serve's return unless what it waits for never comes; an answer says what its
record says; the innermost timeout wins; an enrolment that fails leaves the node as it was, and one that succeeds
leaves it usable; a refused agent learns why and a dead connection is given up by
both sides; what the SaaS reports reaches the node whole or not at all; a cached
token or table is used only while it holds; agents that fight over an identity
do not fight at reconnect speed.

## Modules

`TunnelProto` is the channel-open frame and `ChannelOpen.Validate`. Names are
members of a set; what validation can tell of a name's text is the function
`Shape`. `QuotesSessionEnd` are the frames whose rejection quotes a text that
`isSessionOver` looks for (`serve.go:233`).

`AgentServe` is the agent. Its main goroutine is `pc`: `LoopHead` to `FlapWait`
follow `run.go`'s loop with `Reconnect` inlined, `AcceptStream` to `PauseOver`
follow `Serve` with `AcceptChannel` inlined, and `drain` is the deferred
`wg.Wait`. `hook` is the `context.AfterFunc` that closes the session.
`backlog` is yamux's accept queue; `header`, `asked`, `args` and `peerEnd` are
what the SaaS has sent on a stream so far, and `stage` is how far its handler
has got; a `rejected` stream was turned away by `AcceptChannel`, a `dropped` one
was taken off yamux's queue and lost because it could not be acknowledged
(`AcceptDrops`), which counts as a failure although the SaaS sent nothing wrong.
`streak` is what was turned away since the last good open. A pipe is `stuck`
while its copy to the local service waits for a service that does not read.
`sent`, `audit` and `logged` are what left the node, the record that was made and
what the log has of it: `RecordToolCall` only prints a write that fails
(`audit.go:86`), so `logged` may stay behind. The environment is free: streams open, send malformed or partial frames, stall or
close at any time; the transport dies so that `isSessionOver` recognises it
(`lost`) or does not (`odd`, yamux's keepalive timeout); SIGTERM comes at any
step. A deadline is an agent step that is enabled while the code waits on it, so
that the far side may always be slower than the agent's patience.

`ChannelService` is what the agent promises of channels: a stream is judged
once, what is served is settled once, and no session and no process ends under
a channel being served. `AgentServe!ImplementsService` maps the agent to it.

`CallLog` is what the tool plane promises of calls: each runs, has one record
made and put to the log, and is answered once with what that record says, in
that order. The log then has the record or, if its write failed, nothing; it
never contradicts an answer, but an answer may be without its entry. Which
outcomes there are, and which of them may be told without a record, are its
parameters. Both views of a tool call implement it: `AgentServe!ImplementsLog`
for many calls on channels that are reused, `ToolRun!ImplementsLog` for one call
in detail. So the stage `call` of `AgentServe` and the module `ToolRun` agree in
what a reader of the audit log can rely on.

`Handshake` is what `AgentServe` takes as one step, `HelloAccepted` and its
refusals: `Dial` on the agent's side, `Accept` and `AwaitKillSwitch` on the
SaaS's, over connections that carry frames in order (`up`, `down`) until one
side closes or the transport dies without a word (`link`). A connection the agent
has left stays at the SaaS until it notices, beside the next one. `armed` is the
deadline on the SaaS's control stream. After an accepted ack the agent records
the two advisory files one after the other (`doing`): compare, temporary file,
rename. (The agent program itself never sends the kill switch; `SendKillSwitch`
is the library's call, and its reader is the SaaS.)

`Admission` is what the two sides of `Handshake` promise together: the SaaS gives
its verdict on a connection once, the agent is on one connection at a time and
joins it only after a verdict that takes its build, and a connection is used
again only when both sides are off it. `Handshake!ImplementsAdmission` maps the
handshake to it.

`FlapGuard` is the time in the reconnect loop: `Delays` is `Backoff.Delay` with
its jitter and its clamps, `DiedYoung` and `LivedLong` are `SessionEnded`, and
`Connects` of one agent ends the session of every other that holds the same
identity. `left` is a running timer; `quiet` and `apart` measure the time since
the last attempt and the last connect, for the properties.

`ToolRun` is one tool call with time: `st` is `Registry.Call`, `client` the
`systemd-run` process the agent can kill, `unit` the command's transient unit,
which holds the pipe and outlives it, and `due` systemd's next act on it. The pipe
holds `PipeSize`; what `ReadAll` leaves in it the drain takes (`Taking`), and a
command that finds it full waits. A tick passes only when nothing is due
(`Urgent`). `record` and `result` are the audit record and the answer, and `kept`
says that the log has the record. `AgentServe` takes all of it as one stage (`call`) that
ends with a record.

`CephArgs` is which Ceph command lines may run, a pure function of the table
and the words. The loops of `stripFormat`, `fit` and `CheckCephArgs` are each a
function of how much of the input they have seen (`strip`, `score`, `loop`);
`FormatsWell`, `CommandWords`, `Matches` and `ReadOnly` are what their comments
promise, without a loop. `Broker` is the
calls around it: each waits for a command, a source or the mutex of the table
(`stage`), with a deadline from its arrival (`start`), and then writes its
answer, which no deadline covers (`Delivered`; the server of `broker.go:86` sets
no write timeout). The mutex is Go's: a
newcomer may take it before the woken waiter, and from then on it is handed over
in order (`starving`). `table`, `tableAt` are the server's fields; `readAt` and
`heldAt` are when Ceph said so, for the properties. An `Upgrade` changes what
Ceph would say.

`OpenStackToken` is the admin token: `token`, `expires` and `catalog` are the
fields of `Admin`, and a call goes from `endpoint` through `auth` and `store`,
if no usable token is cached, to `request`, and after a first 401 through `drop`
(`Invalidate`) back once. The lock is held within each step and never across
two. A token says when it ends and before how many revocations it was issued.

`Enrolment` is the identity directory between `enroll` processes and `run`. A
file holds the number of the enrolment that wrote it; `os.WriteFile` is a
truncation and a write. An enroll keeps the set of file operations it has left
(`todo`), does them in the order of the code (`Rank`), and may fail or be killed
before each one; `run` reads one file at a
time, the identity first and then the dials. `Says` is what each enrolment's
answer says of them and `Served` what `run` makes of the files.

`MCAgentServe`, `MCToolRun`, `MCEnrolment`, `MCOpenStackToken`, `MCBroker`,
`MCFlapGuard` and `MCHandshake` are the instances TLC runs; the modules ending
in `_proofs` hold the theorems. A definition whose comment begins "Mutant" is a
plausible mistake in a definition that follows it: `PROJECT.json` pairs each with
the property that notices it.

## Runs

All passing runs check deadlock: a model may stop only in its stated end.

- `agent_safety`: two streams, eight open frames (a call, an unknown tool, this
  node's console, another node's, a web target, a plane crossing, an address, a
  name that says "use of closed"), a failure limit of 2. Checks what handlers may
  do, why Serve leaves, the inductive invariant, and that the agent implements
  `ChannelService` and `CallLog`. The two streams are interchangeable
  (`SYMMETRY`); every property of this run is a safety property.
- `agent_live`: two streams, two frames and the malformed one, no symmetry.
  Shutdown, session loss, the way out of Serve, judging.
- `handshake`: two connections at once, an agent inside the SaaS's window and
  one above it, files with nothing or one value reported. A refusal is read, a
  half-open connection is given up by both sides, the kill switch is heard, the
  advisory files never mislead, and `Admission` is implemented.
- `flap`: two agents, a guard of floor 3, threshold 9 and ceiling 36 (the code's
  10, 30 and 120 seconds), a ramp of 2 to 4, two faults. The distances between connects and between attempts, and
  that again and again a session lives long.
- `tool_prompt`: cap 2, up to 5 units of output through a pipe that holds 1, a
  tool limit of 2 and a call limit of 4 ticks, a systemd that starts units within a
  tick and stops them at once. Besides honest results and the ladder, that no time
  passes while a full pipe holds the command up (`NeverHeldUp`) and that the call
  implements `CallLog`.
- `broker`: three calls, a deadline of 2, a table's life of 2, a clock to 8,
  three versions of the table with commands whose mark changes and that fit the
  same words equally well, one of them empty, and eleven argument lists.
- `token`: two calls with a deadline of 1, a margin of 2, tokens that live 3, a
  skew of 1, two revocations, four authentications, a clock to 4.
- `enrol_one`: one enroll at a time, repeated, two identities issued, with and
  without a CA in the answer, any crash and any failed file operation, and a run
  that starts at any point. The first answer sets both dials loose, the second
  tightens one and says nothing of the other.

The other four runs are in "Where comments and code differ".

The bounds. Two streams are enough for one to hold up or be mistaken for another
and for a failure to be followed by a success or a second failure, which is what
`LeavesForCause` needs to tell failures in a row from failures in all, and a
limit of 2 makes both sides of the count's comparison happen; sessions are not
bounded, so what one leaves behind meets the next. Two connections are one the
agent has left and one it is on; connections are reused, so their number over
time is not bounded. Output passes the cap by more than the one unit that
detects it and the one the pipe holds, so that a command past the cap waits if
nobody drains; the clock ends two ticks past the call limit. Of three broker
calls one holds the mutex, one waits and one slips in; the clock passes a
table's life twice. Two token calls are one that renews and one that is late,
and two revocations are one the first 401 is about and one after it; the proofs
are for any number of calls. The times of `token` and `flap` keep the order the
code gives them (deadline plus skew within the margin within the token's life;
floor below threshold below ceiling, with jitter large enough to show in whole
units). Two identities are an old and a new one. `MaxCount` is past the count at
which a delay reaches its ceiling, so nothing is lost by capping it.

Fairness. `AgentServe` assumes that the agent's goroutines are scheduled, that
its timers and deadlines fire and that a command ends (its unit is limited); the
SaaS, the transport, the operator, the local services and the far end of a
blocked write owe nothing. In particular a websocket dial need never be
answered, only be cancelled, an output need never be read, and a local service
need not read: a copy that waits in `local.Write` does not see the remote side
end (`console.go:98`), only the context. Two properties therefore say what they
need of others. `SessionLossIsNoticed` holds unless a local service never again
reads; `ShutdownCompletes` needs nothing, since `pipe` also waits for the
context. `DrainEnds` is about a Serve that has left its loop, also from a
session that is still up: it returns unless a frame, an answer or a console
keeps its handler. `Handshake` assumes that the agent and the SaaS are scheduled
and that deadlines and keepalives fire; the agent need not dial, stop or pull
the switch, the SaaS need not close a session and the transport need not die.
`FlapGuard` assumes that time passes, timers fire and a SaaS that is there
answers; faults owe nothing and are bounded, since with faults forever no
session need live. `ToolRun` assumes the agent and systemd run and that time
passes; the command need not end by itself. `Broker`, `OpenStackToken` and
`Enrolment` have safety properties only: what must happen in time there is
stated with their clocks.

## Where comments and code differ

Each of these is a run that TLC must find violated, with its own property.

- `agent_abandoned`: "One bad open is not fatal", but a stream closed before its
  header yields a wrapped `io.EOF`, which `isSessionOver` takes for the end of
  the session. A rejected open whose kind or name says "use of closed" or "session
  shutdown" ends it too, since the rejection quotes it (`serve.go:233`);
  `LeavesForCause` lists both causes.
- `tool_cut`: `Truncated` is said to record every cut; a command that fails
  after the cut has neither notice nor record.
- `enrol_race`: running enroll twice is said not to replace a working identity
  (`enroll.go:139`, `identity.go:253`); of two that began before either had an
  answer the second does, since `Exists` is not asked again after the request.
- `enrol_trust`: the agent is said to trust only the enrolment CA; without the
  file, which Save writes last, it trusts the system's roots.

The models follow the code in these too, without a run for each:

- every console refusal is said to return one reason (`serve.go:131`); those made
  inside the handlers close the channel without a frame (`serve.go:158`).
- every call is said to be logged (`tools.go:5`) and to be inspectable by the
  customer (`registry.go:69`). One whose argument frame is unreadable is not
  recorded (`serve.go:184`), and neither is one whose handler panics or whose
  agent dies before the record. A record that cannot be encoded is dropped, one
  that cannot be written is reported on stderr, and the call is answered all the
  same, as the comment there accepts (`audit.go:79`). So no property here says
  that an answer has an entry in the log: they say that its record was made and
  put to the log first, and that the log does not contradict it.
- ten failed opens in a row are said to end the session (`serve.go:52`). `Serve`
  then waits for its handlers with the session open, as long as a console or an
  answer nobody reads keeps one (`serve.go:87`).
- the tool's timeout is said to fire before the server's (`registry.go:42`).
  Killing `systemd-run` does not close the pipe (`registry.go:253`), so a unit
  slow to stop holds the call past both. The sandbox sets no stop timeout and
  systemd's default of 90 seconds is more than the ten between the rungs, so
  `LadderHolds` is only checked, for a systemd that stops a unit at once.
- the tool's limit is said to give an honest "timed out". The unit has the same
  limit, and one that `RuntimeMaxSec` ends just before the context does is recorded
  as a plain failure.
- `tunnelproto.go:134` says that a newer agent talks down to the SaaS's version;
  line 129 has refused it by then.
- `backoff.go:137` says "up to 2m"; jitter is applied after the ceiling, so a
  wait is up to 2m24s.
- Comments of `session.go` and `tunnelproto.go` that say the agent applies the
  action level and the approval mark are out of date: since ADR 0019 it only
  reports its level and consent, and `Approved` is not read.

## Proofs

Each theorem below holds for every value of the constants that the named
assumptions allow; the runs show the same properties on small instances.

`AgentServe_proofs`: for any finite set of streams, any set of frames, any
limit, registry, allowlist and node name, `TypeCorrect`, `HandlersJoined`,
`ServesAsAsked`, `OutputAudited`, `FailuresCounted`, `ShutdownArmed`,
`LeftForCause`, `Implements` and `KeepsLog`. They rest on `IndInv` (`Inductive`).
Type correctness and the wait-group property are not inductive alone: that
nothing is alive outside `Serve` needs that a session exists only inside it
(`SessionScoped`), that a stream in the backlog has not been judged
(`BacklogUnjudged`) and that a handler's stream has had its open frame
(`StreamOrder`); what a handler works on needs that its plane fits that frame
(`HandlerFitsOpen`); the log needs where the record is at each stage
(`RecordFollowsCall`); and `errs` stays in its type because the loop is left at
the limit (`BelowLimit`). `Struct` is all of it but two conjuncts that have
inductions of their own on top of it: the comparison of `errs` with the streams
turned away in a row, which needs the finite-set theorems, and `HookArmed`, that a
cancelled context still closes the session wherever `Serve` is. Each action has
one lemma or case. `LeftForCause`, `Implements` and `KeepsLog` follow step by
step from it: every step maps to a step of `ChannelService` and to one of
`CallLog`, or changes nothing they see. When `EndSession` clears the streams,
`KeepsLog` needs that no handler is alive, so that `CallLog` may forget them all.

`Handshake_proofs`: for any connections, builds, window and reports,
`AdvisoryHonest`, `RefusalReaches`, `Admits` and `KillSwitchKept`. That a refused
agent is not hung up on needs that a refusal stays on the wire until it is read
(`VerdictStands`), that the SaaS cannot have judged a Hello that is not sent
(`HelloFirst`) and that a connection taken anew carries nothing of the old one
(`WireIsCleared`); that the files say what this session's ack said needs how far
the recording has got (`RecordedSoFar`). That the handshake implements
`Admission`, and that the kill switch is never lost to the deadline of the
handshake, need that acks, sessions and switches come after the verdict
(`JudgedFirst`).

`FlapGuard_proofs`: for any number of agents and any settings with positive
floors, `ConnectsSpaced`, `AttemptsSpaced` and `WaitsBounded`. What is left of a
wait makes up for what is missing of the distance behind it (`Spaced`), which uses
that `Delays` never falls below the floor, jitter or not (`DelayFloor`); and no
wait passes the ceiling by more than the jitter (`DelayCeiling`), since jitter is
a share of what the ceiling has left of the delay.

`ToolRun_proofs`: for any limits, cap and output, `WholeResults`,
`RecordsAnswered`, `HeldUpNever`, `CallAndUnitEnd` and `KeepsLog`. A result is whole because the pipe was read to its end
after its writer was gone (`CleanIsComplete`, `Staged`); a timeout is told from
another failure because the context's end is what killed the client
(`TimeoutsApart`); a full pipe has a reader because `ReadAll` stops only past the
cap, where the drain takes over (`Staged`); the time at which call and unit are
over (`CallAndUnitEnd`) is how far the clock can be while either is alive
(`Timed`), and depends on how long systemd takes to stop a unit.

`CephArgs_proofs`: for every table, signature and command line, `VerdictIsRight`
says that the three loops together decide what `ReadOnly` says, and
`StripIsRight` and the lemma `FitIsRight` say so of each of the inner two. What a
loop has after n rounds is an invariant of n (`StripIs`, `ScoreIs`, `BestOf`),
and the induction over n is `NatSetInduction`, which is about a set and is derived
from the library's theorem that the naturals are well-founded. That the
translated recursions have a value at all is proved the same way (`StripExists`,
`ScoreExists`, `LoopExists`). The only assumption is that an option that is no
output format is no format word (`OptionsAssumption`).

`Broker_proofs`: for any number of calls, `CallsBounded`, `TablesRecent`,
`ReadsNeeded`, `OneReadAtATime` and `VerdictOrderFree`. The bound on a call's work
before its answer is ready is the one worth an argument: the mutex's queue is in order of arrival (`Exclusive`), so
whoever holds it came before those that wait, and dies by its deadline, unless it
slipped in, which makes the mutex starving, so that nobody slips in again before
the queue is empty (`WaitsBounded`). These are `TimedInv`; `VerdictOrderFree` adds
that what is cached is a list of commands (`Listed`) and cites `VerdictIsRight`.

`OpenStackToken_proofs`: for any number of calls and any times in which the
margin covers a call and the skew, `TokenNeverOutlived`, `TokenHeldTogether`,
`TokenRetryIsFresh` and `TokenFinalRefusal`. The cached token, its end and its
catalogue are of one authentication (`CacheIsOne`); a token taken from it or
authenticated for outlives the call's deadline (`InTime`); a token not stored yet
is in nobody else's hands (`StoreIsPrivate`), so that once a refused one has been
dropped it cannot come back (`RefusedIsGone`), serials being new each time
(`AllIssued`).

`Enrolment_proofs`: for any number of enroll processes and enrolments and
whatever they say, `SuccessUsable`, `DialsSaid` and `NodeKept`. Files and what a run has read hold what some enrolment
wrote, dials only what it said (`FilesAreIssued`); whatever an enroll removes it
has yet to write, and what it has not yet removed it will (`LeftIsEnough`, which
uses that removals come first); and while nobody else enrols, an enroll without
`-force` finds no identity until it has written the last of its two files
(`UnforcedFindsNone`, which uses that the certificate comes after the key).
`SuccessUsable` says nothing of a CA that a killed `-force` left behind and an
enroll without it then finds: only `-force` removes.

Only model-checked: the liveness properties (fairness and ENABLED are beyond the
prover), whose safety halves are proved where they have one (`ShutdownArmed`,
`KillSwitchKept`, `CallAndUnitEnd`), `LadderHolds`, and the four runs of "Where
comments and code differ".

## Not modelled

Names, arguments and output as text; TLS and the pairing token; the key's file
mode; logging. The numeric channel id, on which the agent decides nothing. A
panic outside a tool call. yamux's flow control, except that an output may wait
for its reader and an accept may fail to acknowledge its stream.

The services behind the `os` broker are taken to answer 401 only to a token that
has ended or was revoked (`ServiceRefuses`); the code acts on any 401
(`openstack.go:153`), and with a service that refuses good tokens
`FinalRefusalIsNews` does not hold.

Of the brokers: the syntax of paths and queries, which files `listProcs` and
`scriptOf` read, the size cap of an answer, and the client scripts the sandbox is
given. Of the token: the openrc's syntax and the HTTP client kept for its CA. Of
the settings: words and modes an operator writes by hand, and `config check`,
which reads and reports. The web allowlist is a constant: its writer is the
operator. How a cluster's and a node's name are found is a sequence of reads with
no state.

`pkg/release` and `mkrelease` are a build-time pass over a directory, one step
after another in one process, with nothing running beside it; the service unit
and the build files are declarations.

## Plan

1. Done: `TunnelProto`, `AgentServe` with `ChannelService` and `CallLog`,
   `ToolRun`, `Enrolment`, `Handshake` with `Admission`, `FlapGuard`, `CephArgs`
   with `Broker`, `OpenStackToken`, and the proofs above.
2. Left: the allowlist and the dial files under an operator who edits them while
   a run serves, and the release directory that an interrupted build left behind.
3. Proofs left: an abstract specification of the token cache and of the identity
   directory, with their refinements, and that the flap guard's waits grow until
   the ceiling, which needs facts about powers that the prover does not have.
