----------------------------- MODULE AgentServe -----------------------------
(***************************************************************************)
(* The running agent: the reconnect loop of cmd/agent (run.go), the accept *)
(* loop and per-channel handlers of internal/agent (serve.go), and the     *)
(* session they stand on (pkg/tunnel/session.go), against a SaaS that      *)
(* opens, fills, stalls and closes streams as it likes, a transport that   *)
(* may die at any time, and a SIGTERM that may come at any time.           *)
(*                                                                         *)
(* Time is abstract: a deadline or a timer is an agent step that is simply *)
(* enabled while the code waits on it.  The flap guard's delay is present  *)
(* (FlapWait) but how long it is, is not.                                  *)
(***************************************************************************)
EXTENDS Naturals, Sequences, FiniteSets, TunnelProto

CONSTANTS
    Channels,         \* the streams the SaaS may open on one session
    Opens,            \* the open frames it may send on them
    NoOpen,           \* no open frame has been read
    MaxAcceptErrors,  \* maxConsecutiveAcceptErrors
    NodeId,           \* the node name the agent enrolled with
    ToolNames,        \* the tools in the registry
    WebAllowed        \* the names the web allowlist resolves

ASSUME ChannelsAssumption == IsFiniteSet(Channels)
ASSUME OpensAssumption == Opens \subseteq ChannelOpens /\ NoOpen \notin Opens
ASSUME ErrorsAssumption == MaxAcceptErrors \in Nat \ {0}
ASSUME NamesAssumption ==
    NodeId \in Names /\ ToolNames \subseteq Names /\ WebAllowed \subseteq Names

VARIABLES
    signalled,  \* the process context is cancelled (SIGTERM, SIGINT)
    pc,         \* where the main goroutine is
    sess,       \* the session, and how a dead one reports itself
    hook,       \* the AfterFunc that closes the session on cancellation
    errs,       \* Serve's count of consecutive accept failures
    backlog,    \* opened streams Serve has not judged, oldest first
    streak,     \* the streams turned away since one was accepted
    header,     \* per stream: what has arrived of the open frame
    asked,      \* per stream: the open frame that arrived
    peerEnd,    \* per stream: the SaaS has closed its side
    args,       \* per stream: the argument frame that has arrived
    stage,      \* per stream: its handler's progress
    sent,       \* per stream: the result frame delivered on it
    audit,      \* per stream: the audit record made of its tool call
    logged      \* per stream: the record the local log has

mainVars == <<signalled, pc, sess, hook, errs>>
wireVars == <<backlog, streak, header, asked, peerEnd, args>>
auditVars == <<audit, logged>>
workVars == <<stage, sent, auditVars>>
vars == <<mainVars, wireVars, workVars>>

\* run.go's loop with Reconnect inlined, then Serve's loop and its way out.
Outside == {"top", "dial", "hello", "backoff", "flapwait"}
Looping == {"accept", "header", "pause"}
InServe == Looping \cup {"drain"}
Places == Outside \cup InServe \cup {"return", "stopped"}

\* "lost" dies with an error isSessionOver knows (EOF, reset, pipe); "odd"
\* with one it does not (yamux's keepalive timeout).
SessionStates == {"none", "up", "closed", "lost", "odd"}

\* A pipe is "stuck" while its copy to the local service waits for a service
\* that does not read; a "dropped" stream is one Accept took off its queue and
\* lost.
LiveStages == {"args", "call", "result", "refuse", "dial", "pipe", "stuck", "closing"}
TurnedAway == {"rejected", "dropped"}
Stages == {"idle", "done"} \cup TurnedAway \cup LiveStages

TypeOK ==
    /\ signalled \in BOOLEAN
    /\ pc \in Places
    /\ sess \in SessionStates
    /\ hook \in {"off", "armed", "fired"}
    /\ errs \in 0..MaxAcceptErrors
    /\ backlog \in Seq(Channels)
    /\ streak \subseteq Channels
    /\ header \in [Channels -> {"none", "silent", "malformed", "arrived"}]
    /\ asked \in [Channels -> Opens \cup {NoOpen}]
    /\ peerEnd \in [Channels -> BOOLEAN]
    /\ args \in [Channels -> {"none", "badFrame", "badArgument", "good"}]
    /\ stage \in [Channels -> Stages]
    /\ sent \in [Channels -> {"none", "refused", "output"}]
    /\ audit \in [Channels -> {"none", "refused", "allowed"}]
    /\ logged \in [Channels -> {"none", "refused", "allowed"}]

Live(c) == stage[c] \in LiveStages
NoHandler == \A c \in Channels : ~Live(c)

FreshStreams ==
    /\ backlog = << >>
    /\ streak = {}
    /\ header = [c \in Channels |-> "none"]
    /\ asked = [c \in Channels |-> NoOpen]
    /\ peerEnd = [c \in Channels |-> FALSE]
    /\ args = [c \in Channels |-> "none"]
    /\ stage = [c \in Channels |-> "idle"]
    /\ sent = [c \in Channels |-> "none"]
    /\ audit = [c \in Channels |-> "none"]
    /\ logged = [c \in Channels |-> "none"]

Init ==
    /\ signalled = FALSE
    /\ pc = "top"
    /\ sess = "none"
    /\ hook = "off"
    /\ errs = 0
    /\ FreshStreams

-----------------------------------------------------------------------------
(* The environment: the operator, the transport and the SaaS.              *)

Signal ==
    /\ ~signalled
    /\ pc # "stopped"
    /\ signalled' = TRUE
    /\ UNCHANGED <<pc, sess, hook, errs, wireVars, workVars>>

\* The transport fails or the SaaS drops the session; every stream on it is
\* closed with it, what had arrived stays readable.
LoseSession ==
    /\ sess = "up"
    /\ sess' \in {"lost", "odd"}
    /\ UNCHANGED <<signalled, pc, hook, errs, wireVars, workVars>>

\* OpenChannel's stream, before any byte of its header.
OpenStream(c) ==
    /\ sess = "up"
    /\ header[c] = "none"
    /\ header' = [header EXCEPT ![c] = "silent"]
    /\ backlog' = Append(backlog, c)
    /\ UNCHANGED <<mainVars, streak, asked, peerEnd, args, workVars>>

\* What the SaaS still does on a stream matters until the agent closes it, or
\* loses it.
PeerMayAct(c) ==
    sess = "up" /\ ~peerEnd[c] /\ stage[c] \notin TurnedAway \cup {"done"}

\* The header line arrives: an open frame, or one AcceptChannel cannot parse.
SendHeader(c) ==
    /\ PeerMayAct(c)
    /\ header[c] = "silent"
    /\ \/ \E o \in Opens :
            /\ header' = [header EXCEPT ![c] = "arrived"]
            /\ asked' = [asked EXCEPT ![c] = o]
       \/ header' = [header EXCEPT ![c] = "malformed"] /\ UNCHANGED asked
    /\ UNCHANGED <<mainVars, backlog, streak, peerEnd, args, workVars>>

\* The argument frame arrives: unreadable (oversized or not JSON), readable
\* but not a command the sandbox takes, or good.
SendArgs(c) ==
    /\ PeerMayAct(c)
    /\ header[c] = "arrived"
    /\ asked[c].kind = "tool"
    /\ args[c] = "none"
    /\ \E a \in {"badFrame", "badArgument", "good"} :
            args' = [args EXCEPT ![c] = a]
    /\ UNCHANGED <<mainVars, backlog, streak, header, asked, peerEnd, workVars>>

PeerClose(c) ==
    /\ PeerMayAct(c)
    /\ header[c] # "none"
    /\ peerEnd' = [peerEnd EXCEPT ![c] = TRUE]
    /\ UNCHANGED <<mainVars, backlog, streak, header, asked, args, workVars>>

-----------------------------------------------------------------------------
(* run.go's loop and Backoff.Reconnect.                                    *)

Goto(place) ==
    pc' = place /\ UNCHANGED <<signalled, sess, hook, errs, wireVars, workVars>>

\* The loop head: only a cancelled context ends it.
LoopHead == pc = "top" /\ Goto(IF signalled THEN "stopped" ELSE "dial")

\* DialWS is answered, refused or failed by the far side...
DialAnswered == pc = "dial" /\ (Goto("hello") \/ Goto("backoff"))

\* ... or abandoned because the context was cancelled.
DialCancelled == pc = "dial" /\ signalled /\ Goto("backoff")

\* Dial's Hello exchange, bounded by handshakeTimeout and deaf to the
\* context: refused, failed or timed out.
HelloFails == pc = "hello" /\ Goto("backoff")

\* Mutant: Serve starts with the failures of the session before it.
HelloAcceptedKeepsErrs ==
    /\ pc = "hello"
    /\ sess' = "up"
    /\ pc' = "accept"
    /\ hook' = "armed"
    /\ UNCHANGED <<signalled, errs, wireVars, workVars>>

\* Mutant: Serve does not tie the session to the context.
HelloAcceptedUnhooked ==
    /\ pc = "hello"
    /\ sess' = "up"
    /\ pc' = "accept"
    /\ hook' = "off"
    /\ errs' = 0
    /\ UNCHANGED <<signalled, wireVars, workVars>>

\* The SaaS accepts; Serve arms its AfterFunc and enters the accept loop.
HelloAccepted ==
    /\ pc = "hello"
    /\ sess' = "up"
    /\ pc' = "accept"
    /\ hook' = "armed"
    /\ errs' = 0
    /\ UNCHANGED <<signalled, wireVars, workVars>>

\* Sleep in Reconnect: the timer, or the context.
BackoffOver ==
    pc = "backoff" /\ (Goto("top") \/ (signalled /\ Goto("stopped")))

\* The AfterFunc's goroutine: a cancelled context closes the session.
HookFires ==
    /\ hook = "armed"
    /\ signalled
    /\ hook' = "fired"
    /\ sess' = IF sess = "up" THEN "closed" ELSE sess
    /\ UNCHANGED <<signalled, pc, errs, wireVars, workVars>>

-----------------------------------------------------------------------------
(* Serve's accept loop.  The stream being judged is the head of backlog.   *)

cur == Head(backlog)

\* mux.Accept hands over the oldest stream, also after the session died.
AcceptStream == pc = "accept" /\ backlog # << >> /\ Goto("header")

\* Mutant: failures are counted and never acted on.
CountFailureForever ==
    IF signalled
      THEN pc' = "drain" /\ UNCHANGED errs
      ELSE pc' = "pause" /\ errs' = IF errs < MaxAcceptErrors THEN errs + 1 ELSE errs

\* An accept error that does not end the session by itself.
CountFailure ==
    IF signalled
      THEN pc' = "drain" /\ UNCHANGED errs
      ELSE /\ errs' = errs + 1
           /\ pc' = IF errs + 1 >= MaxAcceptErrors THEN "drain" ELSE "pause"

\* isSessionOver: Serve leaves its loop at once.
LeaveServe == pc' = "drain" /\ UNCHANGED errs

\* mux.Accept fails because the session is over.
AcceptFails ==
    /\ pc = "accept"
    /\ sess # "up"
    /\ IF sess = "odd" THEN CountFailure ELSE LeaveServe
    /\ UNCHANGED <<signalled, sess, hook, wireVars, workVars>>

\* The head of the backlog is judged: its next stage is the verdict.
Judge(verdict) ==
    /\ backlog' = Tail(backlog)
    /\ streak' = IF verdict \in TurnedAway THEN streak \cup {cur} ELSE {}
    /\ stage' = [stage EXCEPT ![cur] = verdict]
    /\ UNCHANGED <<signalled, sess, hook, header, asked, peerEnd, args, sent, auditVars>>

\* mux.Accept takes a stream off its queue and cannot acknowledge it: the write
\* times out on a session that is still up, or the session is over.  Nobody
\* closes the stream.
AcceptDrops ==
    /\ pc = "accept"
    /\ backlog # << >>
    /\ Judge("dropped")
    /\ IF sess = "up" THEN CountFailure ELSE LeaveServe

\* The header line cannot be parsed, or is not a valid open; AcceptChannel
\* closes the stream.  isSessionOver also goes by the error's text, and that may
\* quote the peer.
HeaderRejected ==
    /\ pc = "header"
    /\ \/ header[cur] = "malformed"
       \/ header[cur] = "arrived" /\ ~OpenValid(asked[cur])
    /\ Judge("rejected")
    /\ IF header[cur] = "arrived" /\ QuotesSessionEnd(asked[cur])
         THEN LeaveServe ELSE CountFailure

\* Mutant: the header is read without a deadline.
HeaderTimeoutMissing == pc = "header" /\ header[cur] = "silent" /\ FALSE

\* No whole line within handshakeTimeout; Accept of the next one waits.
HeaderTimeout ==
    /\ pc = "header"
    /\ header[cur] = "silent"
    /\ Judge("rejected")
    /\ CountFailure

\* The stream ended before its header: the error wraps io.EOF, which
\* isSessionOver takes for the end of the session.
HeaderEOF ==
    /\ pc = "header"
    /\ header[cur] = "silent"
    /\ peerEnd[cur] \/ sess # "up"
    /\ Judge("rejected")
    /\ LeaveServe

\* handle's and serveConsole's dispatch, and serveTool's first check.
Dispatch(o) ==
    IF o.kind = "tool" /\ o.target.kind = "tool" THEN "args"
    ELSE IF o.kind = "console" /\ o.target.kind \in {"ssh", "web"} THEN "dial"
    ELSE "refuse"

\* Mutant: a good open does not reset the failure count.
HeaderAcceptedKeepsErrs ==
    /\ pc = "header"
    /\ header[cur] = "arrived"
    /\ OpenValid(asked[cur])
    /\ pc' = "accept"
    /\ Judge(Dispatch(asked[cur]))
    /\ UNCHANGED errs

\* A valid open: its handler is started in a goroutine of its own.
HeaderAccepted ==
    /\ pc = "header"
    /\ header[cur] = "arrived"
    /\ OpenValid(asked[cur])
    /\ errs' = 0
    /\ pc' = "accept"
    /\ Judge(Dispatch(asked[cur]))

\* acceptErrorPause: the timer, or the context.
PauseOver ==
    pc = "pause" /\ (Goto("accept") \/ (signalled /\ Goto("drain")))

\* Mutant: Serve returns without waiting for its handlers.
ServeReturnsAtOnce ==
    /\ pc = "drain"
    /\ hook' = IF hook = "armed" THEN "off" ELSE hook
    /\ pc' = "return"
    /\ UNCHANGED <<signalled, sess, errs, wireVars, workVars>>

\* Serve's deferred wg.Wait, then stop().
ServeReturns ==
    /\ pc = "drain"
    /\ NoHandler
    /\ hook' = IF hook = "armed" THEN "off" ELSE hook
    /\ pc' = "return"
    /\ UNCHANGED <<signalled, sess, errs, wireVars, workVars>>

\* run.go closes the session; SessionEnded asks for a wait if it died young.
EndSession ==
    /\ pc = "return"
    /\ sess' = "none"
    /\ hook' = "off"
    /\ pc' \in {"top", "flapwait"}
    /\ backlog' = << >>
    /\ streak' = {}
    /\ header' = [c \in Channels |-> "none"]
    /\ asked' = [c \in Channels |-> NoOpen]
    /\ peerEnd' = [c \in Channels |-> FALSE]
    /\ args' = [c \in Channels |-> "none"]
    /\ stage' = [c \in Channels |-> IF Live(c) THEN stage[c] ELSE "idle"]
    /\ sent' = [c \in Channels |-> "none"]
    /\ audit' = [c \in Channels |-> "none"]
    /\ logged' = [c \in Channels |-> "none"]
    /\ UNCHANGED <<signalled, errs>>

FlapWait ==
    pc = "flapwait" /\ (Goto("top") \/ (signalled /\ Goto("stopped")))

-----------------------------------------------------------------------------
(* The handlers, one goroutine per accepted stream.                        *)

Move(c, from, to) ==
    stage[c] = from /\ stage' = [stage EXCEPT ![c] = to]

\* The frame is written to a live session, or lost with a dead one.
Write(c, frame) ==
    sent' = [sent EXCEPT ![c] = IF sess = "up" THEN frame ELSE "none"]

\* RecordToolCall: the record is made and written.  A write that fails is
\* printed and the call goes on without its record in the log.
Record(c, verdict) ==
    /\ audit' = [audit EXCEPT ![c] = verdict]
    /\ logged' \in {logged, [logged EXCEPT ![c] = verdict]}

\* serveTool reads the arguments; Registry.Call looks the tool up, checks
\* the command and audits what it refuses.
ArgsRefused(c) ==
    /\ Move(c, "args", "refuse")
    /\ \/ /\ args[c] = "badFrame"
          /\ UNCHANGED auditVars
       \/ /\ args[c] = "none"
          /\ peerEnd[c] \/ sess # "up"
          /\ UNCHANGED auditVars
       \/ /\ args[c] \in {"badArgument", "good"}
          /\ asked[c].target.name \notin ToolNames \/ args[c] = "badArgument"
          /\ Record(c, "refused")
    /\ UNCHANGED <<mainVars, wireVars, sent>>

CallStarts(c) ==
    /\ args[c] = "good"
    /\ asked[c].target.name \in ToolNames
    /\ Move(c, "args", "call")
    /\ UNCHANGED <<mainVars, wireVars, sent, auditVars>>

\* Mutant: the record is left for after the answer.
CallEndsUnrecorded(c) ==
    /\ Move(c, "call", "result")
    /\ UNCHANGED <<mainVars, wireVars, sent, auditVars>>

\* The command ends, fails, times out or is killed with the context; its
\* record is made before its answer.
CallEnds(c) ==
    /\ Move(c, "call", "result")
    /\ Record(c, "allowed")
    /\ UNCHANGED <<mainVars, wireVars, sent>>

\* handle's recover: a panic in the call becomes a refusal.
HandlerPanics(c) ==
    /\ Move(c, "call", "refuse")
    /\ UNCHANGED <<mainVars, wireVars, sent, auditVars>>

WriteOutput(c) ==
    /\ Move(c, "result", "closing")
    /\ Write(c, "output")
    /\ UNCHANGED <<mainVars, wireVars, auditVars>>

WriteRefusal(c) ==
    /\ Move(c, "refuse", "closing")
    /\ Write(c, "refused")
    /\ UNCHANGED <<mainVars, wireVars, auditVars>>

\* Mutant: the console is dialled whatever node the channel names.
ReachableAnyNode(o) == o.target.kind = "ssh" \/ o.target.name \in WebAllowed

\* Handler.Serve's equality check and WebHandler.Serve's allowlist.
Reachable(o) ==
    IF o.target.kind = "ssh" THEN o.target.name = NodeId
                             ELSE o.target.name \in WebAllowed

DialTarget(c) ==
    /\ Move(c, "dial", "pipe")
    /\ Reachable(asked[c])
    /\ UNCHANGED <<mainVars, wireVars, sent, auditVars>>

\* Not this node, not on the allowlist, nothing listening, or cancelled:
\* the error is logged and the channel closed without a frame.
DialFails(c) ==
    /\ Move(c, "dial", "closing")
    /\ UNCHANGED <<mainVars, wireVars, sent, auditVars>>

\* The local service stops reading and what the SaaS sends it fills the
\* connection: the copy to it waits in its write, also when what is left to
\* copy is what had arrived before the SaaS or the session went ...
LocalStalls(c) ==
    /\ Move(c, "pipe", "stuck")
    /\ sess = "up" /\ ~peerEnd[c]
    /\ UNCHANGED <<mainVars, wireVars, sent, auditVars>>

\* ... and reads on.
LocalReads(c) ==
    /\ Move(c, "stuck", "pipe")
    /\ UNCHANGED <<mainVars, wireVars, sent, auditVars>>

\* pipe ends with the context, or with the remote direction, whose end a copy
\* that waits in its write does not see...
PipeEnds(c) ==
    /\ \/ Move(c, "pipe", "closing") /\ (peerEnd[c] \/ sess # "up" \/ signalled)
       \/ Move(c, "stuck", "closing") /\ signalled
    /\ UNCHANGED <<mainVars, wireVars, sent, auditVars>>

\* ... or with the local service: it closes its connection, or sends what can
\* no longer be passed on.
LocalCloses(c) ==
    /\ Move(c, "pipe", "closing") \/ Move(c, "stuck", "closing")
    /\ UNCHANGED <<mainVars, wireVars, sent, auditVars>>

\* Mutant: only a handler that sent a frame reports that it has ended.
HandlerDoneUnreported(c) ==
    /\ sent[c] # "none"
    /\ Move(c, "closing", "done")
    /\ UNCHANGED <<mainVars, wireVars, sent, auditVars>>

\* handle's deferred ch.Close and the goroutine's wg.Done.
HandlerDone(c) ==
    /\ Move(c, "closing", "done")
    /\ UNCHANGED <<mainVars, wireVars, sent, auditVars>>

-----------------------------------------------------------------------------
MainStep ==
    \/ LoopHead \/ DialCancelled \/ HelloFails \/ HelloAccepted \/ BackoffOver
    \/ AcceptStream \/ AcceptFails \/ AcceptDrops \/ HeaderRejected \/ HeaderTimeout
    \/ HeaderEOF \/ HeaderAccepted \/ PauseOver
    \/ ServeReturns \/ EndSession \/ FlapWait

HandlerStep(c) ==
    \/ ArgsRefused(c) \/ CallStarts(c) \/ CallEnds(c) \/ HandlerPanics(c)
    \/ WriteOutput(c) \/ WriteRefusal(c)
    \/ DialTarget(c) \/ DialFails(c) \/ PipeEnds(c) \/ HandlerDone(c)

LocalStep(c) == LocalStalls(c) \/ LocalReads(c) \/ LocalCloses(c)

PeerStep(c) ==
    \/ OpenStream(c) \/ SendHeader(c) \/ SendArgs(c) \/ PeerClose(c)
    \/ LocalStep(c)

\* The process has exited; nothing else may end a behaviour.
Exited == pc = "stopped" /\ UNCHANGED vars

Next ==
    \/ Exited
    \/ MainStep \/ HookFires
    \/ Signal \/ LoseSession \/ DialAnswered
    \/ \E c \in Channels : HandlerStep(c) \/ PeerStep(c)

\* Goroutines are scheduled, deadlines and timers fire, and a command ends
\* within its tool's timeout.  The SaaS, the transport, the operator and the
\* far end of a console owe nothing: an output that fills the stream's window
\* waits, without a deadline, for a SaaS that need not read it.
Fairness ==
    /\ WF_vars(MainStep)
    /\ WF_vars(HookFires)
    /\ \A c \in Channels :
          WF_vars(HandlerStep(c) /\ (stage[c] = "result" => sess # "up"))

Spec == Init /\ [][Next]_vars /\ Fairness

-----------------------------------------------------------------------------
(* Safety.                                                                 *)

\* Serve returns, and the agent dials or stops, only when every handler it
\* started has finished: no handler of an old session outlives it.
NoHandlerOutlivesServe == pc \notin InServe => NoHandler

\* A handler at work is at work on what a validated open frame asked for: a
\* call runs only for a registered tool on a tool channel, a pipe reaches only
\* this node's sshd or an allowlisted web name, and nothing crosses planes.
ServesOnlyWhatWasAsked ==
    \A c \in Channels :
        /\ Live(c) => OpenValid(asked[c])
        /\ stage[c] \in {"call", "result"} =>
              asked[c].target.kind = "tool" /\ asked[c].target.name \in ToolNames
        /\ stage[c] \in {"pipe", "stuck"} =>
              \/ asked[c].target.kind = "ssh" /\ asked[c].target.name = NodeId
              \/ asked[c].target.kind = "web" /\ asked[c].target.name \in WebAllowed

\* Output leaves the node only after the allowed record of its call was put to
\* the log, and a call recorded as refused never yields output.
OutputIsAudited ==
    \A c \in Channels :
        /\ sent[c] = "output" => audit[c] = "allowed"
        /\ audit[c] = "refused" => stage[c] \in {"refuse", "closing", "done"}

\* While the session is up, every counted failure is one of its latest streams,
\* rejected or dropped with no good open since: neither failures of an earlier
\* session nor those before a good open count.
FailuresAreRejections ==
    /\ sess = "up" => errs <= Cardinality(streak)
    /\ \A c \in streak : stage[c] \in TurnedAway

\* Serve walks away from a live session that nobody cancelled only after
\* MaxAcceptErrors streams in a row were turned away, or because of a stream
\* that ended before its header, or one whose rejection quotes its text.
LeavesForCause ==
    [][ (pc \in Looping /\ pc' = "drain" /\ sess = "up" /\ ~signalled)
        => \/ Cardinality(streak') >= MaxAcceptErrors
           \/ pc = "header" /\ header[cur] = "silent" /\ peerEnd[cur]
           \/ pc = "header" /\ header[cur] = "arrived" /\ QuotesSessionEnd(asked[cur])
      ]_vars

-----------------------------------------------------------------------------
(* The inductive invariant behind them.                                    *)

\* A session exists only inside Serve and its hook only with it; between
\* sessions no stream of the last one is left.
SessionScoped ==
    /\ pc \in Outside \cup {"stopped"} =>
          /\ sess = "none"
          /\ hook = "off"
          /\ backlog = << >>
          /\ \A c \in Channels : header[c] = "none" /\ stage[c] = "idle"
    /\ pc \in InServe => sess # "none"

\* The backlog holds each stream once, opened and not yet judged.
BacklogUnjudged ==
    /\ \A i \in 1..Len(backlog) :
          stage[backlog[i]] = "idle" /\ header[backlog[i]] # "none"
    /\ \A i, j \in 1..Len(backlog) : i # j => backlog[i] # backlog[j]
    /\ pc = "header" => backlog # << >>

\* A stream is judged after it was opened, and served after its open arrived.
StreamOrder ==
    \A c \in Channels :
        /\ header[c] = "none" => stage[c] = "idle"
        /\ header[c] = "arrived" => asked[c] \in Opens
        /\ Live(c) => header[c] = "arrived"

\* A handler is of the plane its open frame named.
HandlerFitsOpen ==
    \A c \in Channels :
        /\ stage[c] \in {"args", "call", "result"} => asked[c].target.kind = "tool"
        /\ stage[c] \in {"dial", "pipe", "stuck"} => asked[c].target.kind \in {"ssh", "web"}

\* The record of a call at each stage of its handler; the log has it or nothing.
RecordFollowsCall ==
    \A c \in Channels :
        /\ stage[c] \in TurnedAway \cup {"idle", "args", "call", "dial", "pipe", "stuck"}
              => audit[c] = "none"
        /\ logged[c] \in {"none", audit[c]}
        /\ stage[c] = "result" => audit[c] = "allowed"
        /\ stage[c] = "refuse" => audit[c] # "allowed"
        /\ sent[c] # "none" => stage[c] \in {"closing", "done"}

\* Serve stays in its loop only below the limit.
BelowLimit == pc \in Looping => errs < MaxAcceptErrors

\* A session that Serve works on is closed by a cancelled context: its hook is
\* armed, until it has fired and the session is over.
HookArmed ==
    pc \in InServe => (hook = "armed" \/ (hook = "fired" /\ signalled /\ sess # "up"))

\* Everything above together is preserved by every step.
IndInv ==
    /\ TypeOK
    /\ SessionScoped
    /\ BacklogUnjudged
    /\ StreamOrder
    /\ HandlerFitsOpen
    /\ RecordFollowsCall
    /\ BelowLimit
    /\ NoHandlerOutlivesServe
    /\ ServesOnlyWhatWasAsked
    /\ OutputIsAudited
    /\ FailuresAreRejections
    /\ HookArmed

-----------------------------------------------------------------------------
(* The channel service the agent implements.                               *)

AgentState == IF pc = "stopped" THEN "stopped" ELSE "running"
LinkState == IF pc \in InServe \cup {"return"} THEN "up" ELSE "down"
ChanState(c) ==
    IF stage[c] = "idle" THEN IF header[c] = "none" THEN "free" ELSE "offered"
    ELSE IF Live(c) THEN "serving"
    ELSE IF stage[c] \in TurnedAway THEN stage[c] ELSE "settled"

Service == INSTANCE ChannelService WITH
    agent <- AgentState, link <- LinkState, chan <- [c \in Channels |-> ChanState(c)]

\* The agent's steps are steps of ChannelService or change nothing it sees: no
\* session or process ends under a stream that is served, each is judged once.
ImplementsService == Service!Spec

Running == [c \in Channels |-> stage[c] = "call"]
OutcomeOf(verdict) == IF verdict = "allowed" THEN "output" ELSE verdict

Log == INSTANCE CallLog WITH
    Calls <- Channels, Outcomes <- {"refused", "output"}, Unlogged <- {"refused"},
    running <- Running,
    ruled <- [c \in Channels |-> OutcomeOf(audit[c])],
    logged <- [c \in Channels |-> OutcomeOf(logged[c])],
    told <- sent

\* Nothing leaves the node on a tool channel before the call is over and its
\* record was put to the log, nor does the log ever say anything else; a call is
\* answered without a record made only if its frame was unreadable or its
\* handler panicked, and without one kept only if the write failed.
ImplementsLog == Log!Spec

-----------------------------------------------------------------------------
(* Liveness.                                                               *)

\* A SIGTERM at any point of any session stops the process, whatever the SaaS
\* does or fails to do.
ShutdownCompletes == signalled ~> pc = "stopped"

\* Once the session is over, Serve returns and the agent goes on to reconnect,
\* unless a service on the node never again reads from its connection.
SessionLossIsNoticed ==
    (\A c \in Channels : []<>(stage[c] # "stuck"))
        => ((pc \in InServe /\ sess # "up") ~> pc \in Outside \cup {"stopped"})

\* Once Serve has left its loop it returns, also from a live session: all that
\* can hold it is a far end that keeps a console, a call's frame or its answer
\* waiting, never its own bookkeeping of handlers.
HeldBack(c) == stage[c] \in {"args", "result", "pipe", "stuck"}
DrainEnds ==
    (\A c \in Channels : []<>~HeldBack(c)) => (pc = "drain" ~> pc \notin InServe)

\* Every stream the SaaS opens is accepted or turned away, or Serve has left
\* its loop: a stream that never sends its header cannot hold up the rest forever.
EveryOpenIsJudged ==
    \A c \in Channels :
        (header[c] # "none" /\ stage[c] = "idle")
            ~> (stage[c] # "idle" \/ pc \notin Looping)

-----------------------------------------------------------------------------
(* What comments of the source say and the code does not do.               *)

\* serve.go says one bad open is not fatal: Serve stays with a live session
\* until MaxAcceptErrors consecutive failures.
OneBadOpenIsNotFatal ==
    [][ (pc \in Looping /\ pc' = "drain" /\ sess = "up" /\ ~signalled)
        => errs' >= MaxAcceptErrors ]_vars
=============================================================================
