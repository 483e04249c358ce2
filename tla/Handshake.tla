------------------------------ MODULE Handshake ------------------------------
(***************************************************************************)
(* How a tunnel begins and ends: the agent's Dial against the SaaS's       *)
(* Accept over a connection that may die without a word                    *)
(* (pkg/tunnel/session.go, ws.go), the verdict on the Hello                *)
(* (pkg/tunnelproto), the two files the agent rewrites from every HelloAck *)
(* (internal/identity) and the kill switch.                                *)
(*                                                                         *)
(* A connection the agent has left may live on at the SaaS, beside the one *)
(* the agent dials next.  Deadlines and keepalives are steps enabled while *)
(* the code waits under them.                                              *)
(***************************************************************************)
EXTENDS Integers, Sequences, SequencesExt

CONSTANTS
    Conns,                        \* connections that may exist at once
    Hellos,                       \* [named: BOOLEAN, speaks: Int]: agent builds
    MinSupportedVersion, Version, \* the window of the SaaS's build
    Reports                       \* what the SaaS may report of one file

Nothing == "nothing"  \* the ack reports no value: the file is to go
Nobody == "nobody"
Half == "half"

ASSUME HandshakeAssumption ==
    /\ Hellos # {}
    /\ Nothing \in Reports
    /\ Half \notin Reports
    /\ Nobody \notin Conns
    /\ MinSupportedVersion <= Version

Advised == {"console-origins", "current-release"}
Advice == [Advised -> Reports]

Acks == [accepted: BOOLEAN, advice: Advice]

VARIABLES
    at,      \* the connection the agent is on, or Nobody
    agent,   \* where the agent's main goroutine is
    doing,   \* the step it has reached in recording the ack
    outcome, \* how its last Dial ended
    ack,     \* the HelloAck of its session
    link,    \* per connection: none, up, or dead without notice
    hello,   \* per connection: the Hello of the agent that dialled it
    saas,    \* per connection: where the SaaS's Accept, then its session, is
    armed,   \* per connection: the SaaS's control stream has a deadline
    up,      \* per connection: frames for the SaaS, in order
    down,    \* per connection: frames for the agent, in order
    killed,  \* per connection: the customer has pulled the kill switch
    file,    \* the two files a node's tooling reads
    failed   \* files whose recording in this session reported an error

sideVars == <<link, hello, saas, armed, up, down, killed>>
fileVars == <<file, failed>>
agentVars == <<at, agent, doing, outcome, ack>>
vars == <<agentVars, sideVars, fileVars>>

SomeHello == CHOOSE h \in Hellos : TRUE  \* of a connection nobody has dialled

NoAck == [accepted |-> FALSE, advice |-> [f \in Advised |-> Nothing]]

\* Recording is one file after the other: compare, write beside, rename.
Recording == {"compare", "write", "rename"}
FirstRecord == <<"compare", "console-origins">>
AgentPlaces == {"idle", "open", "hello", "ack", "record", "serve"}
SaasPlaces == {"free", "stream", "hello", "answer", "session", "deaf", "over", "failed"}

TypeOK ==
    /\ at \in Conns \cup {Nobody}
    /\ agent \in AgentPlaces
    /\ doing \in Recording \X Advised
    /\ (agent = "idle") <=> (at = Nobody)
    /\ outcome \in {"none", "accepted", "refused", "timeout", "hungup", "stopped"}
    /\ ack \in Acks
    /\ link \in [Conns -> {"none", "up", "dead"}]
    /\ hello \in [Conns -> Hellos]
    /\ saas \in [Conns -> SaasPlaces]
    /\ armed \in [Conns -> BOOLEAN]
    /\ up \in [Conns -> Seq({"stream", "hello", "kill"})]
    /\ down \in [Conns -> Seq(Acks)]
    /\ killed \in [Conns -> BOOLEAN]
    /\ file \in [Advised -> Reports \cup {Half}]
    /\ agent \in {"record", "serve"} <=> ack.accepted
    /\ failed \subseteq Advised

Init ==
    /\ at = Nobody /\ agent = "idle" /\ doing = FirstRecord /\ outcome = "none" /\ ack = NoAck
    /\ link = [c \in Conns |-> "none"]
    /\ hello = [c \in Conns |-> SomeHello]
    /\ saas = [c \in Conns |-> "free"]
    /\ armed = [c \in Conns |-> FALSE]
    /\ up = [c \in Conns |-> << >>]
    /\ down = [c \in Conns |-> << >>]
    /\ killed = [c \in Conns |-> FALSE]
    /\ file = [f \in Advised |-> Nothing]
    /\ failed = {}

-----------------------------------------------------------------------------
(* The wire.                                                               *)

\* The SaaS has closed its side: as it meant to, or because Accept failed.
Closed(c) == saas[c] \in {"over", "failed"}

\* A frame written to a connection whose far side is gone goes nowhere.
Up(c, frame) ==
    up' = IF link[c] = "up" /\ ~Closed(c) THEN [up EXCEPT ![c] = Append(@, frame)] ELSE up

\* The transport dies silently; what had not arrived is lost.
LinkDies(c) ==
    /\ link[c] = "up"
    /\ at = c \/ ~Closed(c)
    /\ link' = [link EXCEPT ![c] = "dead"]
    /\ \E u \in Prefixes(up[c]) : up' = [up EXCEPT ![c] = u]
    /\ \E d \in Prefixes(down[c]) : down' = [down EXCEPT ![c] = d]
    /\ UNCHANGED <<agentVars, hello, saas, armed, killed, fileVars>>

\* Mutant: neither side asks whether the other is still there.
NoticedWithoutKeepalive(c, gone) == link[c] = "up" /\ gone

\* A mux ends when its peer closed it, or when its keepalive (muxConfig) goes
\* unanswered.
Noticed(c, gone) == link[c] = "dead" \/ gone

-----------------------------------------------------------------------------
(* The agent: connect, Dial.                                               *)

\* DialWS: a new connection, which the SaaS hands to Accept.
Connect(c, h) ==
    /\ agent = "idle"
    /\ saas[c] = "free"
    /\ at' = c /\ agent' = "open" /\ outcome' = "none"
    /\ link' = [link EXCEPT ![c] = "up"]
    /\ hello' = [hello EXCEPT ![c] = h]
    /\ saas' = [saas EXCEPT ![c] = "stream"]
    /\ UNCHANGED <<doing, ack, armed, up, down, killed, fileVars>>

OpenControl ==
    /\ agent = "open"
    /\ Up(at, "stream")
    /\ agent' = "hello"
    /\ UNCHANGED <<at, doing, outcome, ack, link, hello, saas, armed, down, killed, fileVars>>

SendHello ==
    /\ agent = "hello"
    /\ Up(at, "hello")
    /\ agent' = "ack"
    /\ UNCHANGED <<at, doing, outcome, ack, link, hello, saas, armed, down, killed, fileVars>>

\* The agent is off the connection, and what it had not read is gone: Dial and
\* connect close it on every error, run closes it after Serve, and the kernel
\* when the process dies.
Leave(how) ==
    /\ at' = Nobody /\ agent' = "idle" /\ doing' = FirstRecord /\ outcome' = how /\ ack' = NoAck
    /\ down' = [down EXCEPT ![at] = << >>]
    /\ failed' = {}
    /\ UNCHANGED <<link, hello, saas, armed, up, killed, file>>

ReadAck ==
    /\ agent = "ack"
    /\ down[at] # << >>
    /\ Head(down[at]).accepted
    /\ ack' = Head(down[at])
    /\ outcome' = "accepted"
    /\ agent' = "record"
    /\ down' = [down EXCEPT ![at] = Tail(@)]
    /\ UNCHANGED <<at, doing, link, hello, saas, armed, up, killed, fileVars>>

\* Mutant: whatever the ack says, it makes a session.
ReadRefusalAsSession ==
    /\ agent = "ack"
    /\ down[at] # << >>
    /\ ~Head(down[at]).accepted
    /\ outcome' = "accepted" /\ agent' = "record" /\ ack' = Head(down[at])
    /\ down' = [down EXCEPT ![at] = << >>]
    /\ UNCHANGED <<at, doing, link, hello, saas, armed, up, killed, fileVars>>

\* The SaaS's reason ends in the agent's log.
ReadRefusal ==
    /\ agent = "ack"
    /\ down[at] # << >>
    /\ ~Head(down[at]).accepted
    /\ Leave("refused")

\* The control stream's deadline: it bounds the hello's write and the ack's
\* read.
DialTimeout ==
    /\ agent \in {"hello", "ack"}
    /\ Leave("timeout")

\* The mux is gone.  What the stream had received is still read first.
DialHungUp ==
    /\ agent \in {"open", "hello", "ack"}
    /\ Noticed(at, Closed(at))
    /\ agent = "ack" => down[at] = << >>
    /\ Leave("hungup")

\* Serve ends with its session; AgentServe says what may hold it up.
SessionEnds ==
    /\ agent = "serve"
    /\ Noticed(at, Closed(at))
    /\ Leave(outcome)

\* SIGTERM or a crash, at any point.
AgentStops ==
    /\ agent # "idle"
    /\ Leave("stopped")

SendKillSwitch ==
    /\ agent = "serve"
    /\ ~killed[at]
    /\ killed' = [killed EXCEPT ![at] = TRUE]
    /\ Up(at, "kill")
    /\ UNCHANGED <<agentVars, link, hello, saas, armed, down, fileVars>>

-----------------------------------------------------------------------------
(* The agent: RecordConsoleOrigins, then RecordCurrentRelease.             *)

At(step, f) == agent = "record" /\ doing = <<step, f>>
Goto(step, f) == agent' = agent /\ doing' = <<step, f>>
Recorded(f) ==
    IF f = "console-origins" THEN Goto("compare", "current-release")
    ELSE agent' = "serve" /\ doing' = FirstRecord

\* A file operation fails, or the value is malformed and refused whole: that is
\* logged, and the agent goes on to the next.
RecordFails(f) ==
    /\ \E step \in Recording : At(step, f)
    /\ failed' = failed \cup {f}
    /\ Recorded(f)
    /\ UNCHANGED <<at, outcome, ack, sideVars, file>>

Told(f) == ack.advice[f]

\* Mutant: an ack that reports nothing leaves the file alone.
CompareKeeps(f) ==
    /\ At("compare", f)
    /\ IF Told(f) \in {Nothing, file[f]} THEN Recorded(f) ELSE Goto("write", f)
    /\ UNCHANGED <<at, outcome, ack, sideVars, fileVars>>

\* Nothing reported removes the file; the value it already holds wakes no
\* watcher.
Compare(f) ==
    /\ At("compare", f)
    /\ file' = IF Told(f) = Nothing THEN [file EXCEPT ![f] = Nothing] ELSE file
    /\ IF Told(f) \in {Nothing, file[f]} THEN Recorded(f) ELSE Goto("write", f)
    /\ UNCHANGED <<at, outcome, ack, sideVars, failed>>

\* Mutant: the file itself is truncated and written.
WriteInPlace(f) ==
    /\ At("write", f)
    /\ file' = [file EXCEPT ![f] = Half]
    /\ Goto("rename", f)
    /\ UNCHANGED <<at, outcome, ack, sideVars, failed>>

\* A temporary file beside it, which nobody reads.
Write(f) ==
    /\ At("write", f)
    /\ Goto("rename", f)
    /\ UNCHANGED <<at, outcome, ack, sideVars, fileVars>>

Rename(f) ==
    /\ At("rename", f)
    /\ file' = [file EXCEPT ![f] = Told(f)]
    /\ Recorded(f)
    /\ UNCHANGED <<at, outcome, ack, sideVars, failed>>

Record(f) == Compare(f) \/ Write(f) \/ Rename(f) \/ RecordFails(f)

-----------------------------------------------------------------------------
(* The SaaS: Accept, AwaitKillSwitch.                                      *)

\* mux.Close: whatever it had not read is gone.
Close(c, how) ==
    /\ saas' = [saas EXCEPT ![c] = how]
    /\ armed' = [armed EXCEPT ![c] = FALSE]
    /\ up' = [up EXCEPT ![c] = << >>]

\* Accept's wait for the control stream has no deadline.
AcceptControl(c) ==
    /\ saas[c] = "stream"
    /\ up[c] # << >>
    /\ up' = [up EXCEPT ![c] = Tail(@)]
    /\ saas' = [saas EXCEPT ![c] = "hello"]
    /\ armed' = [armed EXCEPT ![c] = TRUE]
    /\ UNCHANGED <<agentVars, link, hello, down, killed, fileVars>>

ReadHello(c) ==
    /\ saas[c] = "hello"
    /\ up[c] # << >>
    /\ up' = [up EXCEPT ![c] = Tail(@)]
    /\ saas' = [saas EXCEPT ![c] = "answer"]
    /\ UNCHANGED <<agentVars, link, hello, armed, down, killed, fileVars>>

\* Negotiate.  (Its last lines lower the version served to the SaaS's own, but
\* a newer agent has been refused by then.)
Accepted(h) == h.named /\ h.speaks \in MinSupportedVersion..Version

\* admit's answer: a refusal reports nothing.
Answers(c) ==
    {a \in Acks : a.accepted = Accepted(hello[c]) /\ (a.accepted \/ a = NoAck)}

Down(c, frame) ==
    down' = IF link[c] = "up" /\ at = c THEN [down EXCEPT ![c] = Append(@, frame)] ELSE down

\* A session, with the handshake's deadline off its control stream, or none.
Verdict(c, a) ==
    IF a.accepted
      THEN /\ saas' = [saas EXCEPT ![c] = "session"]
           /\ armed' = [armed EXCEPT ![c] = FALSE]
           /\ UNCHANGED up
      ELSE Close(c, "over")

\* Mutant: a refused agent is hung up on.
AnswerBareDisconnect(c) ==
    /\ saas[c] = "answer"
    /\ \E a \in Answers(c) :
          /\ IF a.accepted THEN Down(c, a) ELSE UNCHANGED down
          /\ Verdict(c, a)
    /\ UNCHANGED <<agentVars, link, hello, killed, fileVars>>

\* Mutant: the handshake's deadline stays on the control stream.
AnswerKeepsDeadline(c) ==
    /\ saas[c] = "answer"
    /\ \E a \in Answers(c) :
          /\ Down(c, a)
          /\ IF a.accepted THEN saas' = [saas EXCEPT ![c] = "session"] /\ UNCHANGED <<armed, up>>
                           ELSE Close(c, "over")
    /\ UNCHANGED <<agentVars, link, hello, killed, fileVars>>

\* The ack goes out before a refused session closes.
Answer(c) ==
    /\ saas[c] = "answer"
    /\ \E a \in Answers(c) :
          /\ Down(c, a)
          /\ Verdict(c, a)
    /\ UNCHANGED <<agentVars, link, hello, killed, fileVars>>

\* The write of the ack fails by its deadline, the ack delivered or not.
AnswerFails(c) ==
    /\ saas[c] = "answer"
    /\ Close(c, "failed")
    /\ \/ UNCHANGED down
       \/ \E a \in Answers(c) : Down(c, a)
    /\ UNCHANGED <<agentVars, link, hello, killed, fileVars>>

\* A read of the control stream under a deadline is interrupted: Accept gives
\* up, AwaitKillSwitch returns its error.
Deadline(c) ==
    /\ armed[c]
    /\ saas[c] \in {"hello", "session"}
    /\ Close(c, IF saas[c] = "hello" THEN "failed" ELSE "deaf")
    /\ UNCHANGED <<agentVars, link, hello, down, killed, fileVars>>

\* The mux ended under the SaaS's hands.
HangUp(c) ==
    /\ saas[c] \in {"stream", "hello", "session", "deaf"}
    /\ Noticed(c, at # c)
    /\ Close(c, IF saas[c] \in {"stream", "hello"} THEN "failed" ELSE "over")
    /\ UNCHANGED <<agentVars, link, hello, down, killed, fileVars>>

\* AwaitKillSwitch returns, and the SaaS drops every channel.
HearKillSwitch(c) ==
    /\ saas[c] = "session"
    /\ up[c] # << >>
    /\ Close(c, "over")
    /\ UNCHANGED <<agentVars, link, hello, down, killed, fileVars>>

\* It supersedes the session, or restarts.
SaasCloses(c) ==
    /\ saas[c] \in {"session", "deaf"}
    /\ Close(c, "over")
    /\ UNCHANGED <<agentVars, link, hello, down, killed, fileVars>>

\* Both sides are off the connection.
Forgotten(c) ==
    /\ Closed(c)
    /\ at # c
    /\ saas' = [saas EXCEPT ![c] = "free"]
    /\ link' = [link EXCEPT ![c] = "none"]
    /\ killed' = [killed EXCEPT ![c] = FALSE]
    /\ hello' = [hello EXCEPT ![c] = SomeHello]
    /\ UNCHANGED <<agentVars, armed, up, down, fileVars>>

-----------------------------------------------------------------------------
Dial == OpenControl \/ SendHello \/ ReadAck \/ ReadRefusal \/ DialTimeout \/ DialHungUp

Accept(c) ==
    AcceptControl(c) \/ ReadHello(c) \/ Answer(c) \/ AnswerFails(c) \/ Deadline(c)
        \/ HangUp(c) \/ HearKillSwitch(c)

Next ==
    \/ \E c \in Conns, h \in Hellos : Connect(c, h)
    \/ Dial \/ SessionEnds \/ AgentStops \/ SendKillSwitch
    \/ \E f \in Advised : Record(f)
    \/ \E c \in Conns : Accept(c) \/ SaasCloses(c) \/ Forgotten(c) \/ LinkDies(c)

\* The agent and the SaaS are scheduled, deadlines and keepalives fire.  The
\* agent need not dial, stop or be killed, the SaaS need not close, and the
\* transport need not die.
Fairness ==
    /\ WF_vars(Dial) /\ WF_vars(SessionEnds)
    /\ WF_vars(\E f \in Advised : Record(f))
    /\ \A c \in Conns : WF_vars(Accept(c)) /\ WF_vars(Forgotten(c))

Spec == Init /\ [][Next]_vars /\ Fairness

-----------------------------------------------------------------------------
(* Properties.                                                             *)

\* An agent the SaaS refuses reads why: its Dial is not merely hung up on while
\* the connection is up, unless Accept itself failed on a deadline.
RefusalIsRead ==
    [][ \A c \in Conns :
          (at = c /\ at' # c /\ outcome' = "hungup" /\ link[c] = "up")
          => Accepted(hello[c]) \/ saas[c] = "failed" ]_vars

\* One side is off the connection, or the transport has died under both.
HalfOpen(c) == link[c] = "dead" \/ (at = c /\ Closed(c)) \/ (at # c /\ saas[c] # "free")

\* Neither side holds on to a connection the other has left, whatever stage of
\* the handshake it was in: the SaaS's slot is freed, the agent dials again, as
\* long as Serve returns (AgentServe's SessionLossIsNoticed).
HalfOpenHeals == \A c \in Conns : HalfOpen(c) ~> (at # c /\ saas[c] = "free")

\* The kill switch ends the SaaS's session even if it is pulled long after the
\* handshake and nothing else is sent.
KillSwitchIsHeard == \A c \in Conns : killed[c] ~> (Closed(c) \/ saas[c] = "free")

\* The node's tooling finds, whenever it reads, nothing or a value an ack
\* carried whole; and during a session, unless the agent has logged an error,
\* what this session's ack said: a withdrawn value is gone.
AdvisoryIsHonest ==
    \A f \in Advised :
        /\ file[f] # Half
        /\ agent = "serve" /\ f \notin failed => file[f] = Told(f)

-----------------------------------------------------------------------------
(* The inductive invariant behind RefusalIsRead and AdvisoryIsHonest.      *)

\* A connection that one side is off carries nothing to it.
WireIsCleared ==
    \A c \in Conns :
        /\ Closed(c) \/ saas[c] = "free" => up[c] = << >>
        /\ at # c => down[c] = << >>
        /\ at = c => saas[c] # "free"

\* The SaaS cannot have judged a Hello the agent has not sent.
HelloFirst ==
    /\ agent = "open" => saas[at] \in {"stream", "failed"} /\ up[at] = << >>
    /\ agent = "hello" =>
          \/ saas[at] = "failed"
          \/ saas[at] = "stream" /\ Len(up[at]) <= 1
          \/ saas[at] = "hello" /\ up[at] = << >>

\* What goes down says whether the Hello was accepted, a session is one that
\* was, and a refusal is on its way until the agent reads it or the link dies.
VerdictStands ==
    \A c \in Conns :
        /\ \A i \in DOMAIN down[c] : down[c][i].accepted <=> Accepted(hello[c])
        /\ saas[c] \in {"session", "deaf"} => Accepted(hello[c])
        /\ (at = c /\ agent = "ack" /\ saas[c] = "over" /\ link[c] = "up")
           => Accepted(hello[c]) \/ down[c] # << >>

\* The agent has read an ack that makes the connection its session.
Joined(c) == at = c /\ agent \in {"record", "serve"}

\* An ack goes down and a session comes up after the verdict, on an agent's side
\* only for a build that is taken.  The session's control stream has no deadline
\* left, so it never goes deaf, and a kill switch that was pulled is on its way.
JudgedFirst ==
    \A c \in Conns :
        /\ (down[c] # << >> \/ killed[c] \/ Joined(c)) => saas[c] \in {"session", "over", "failed"}
        /\ Joined(c) => Accepted(hello[c])
        /\ saas[c] = "session" => ~armed[c]
        /\ saas[c] # "deaf"
        /\ (killed[c] /\ saas[c] = "session" /\ link[c] = "up") => up[c] # << >>

\* The files are recorded in order, each from the ack of this session.
RecordedSoFar ==
    /\ agent \in {"record", "serve"} => outcome = "accepted"
    /\ agent # "record" => doing = FirstRecord
    /\ (agent = "record" /\ doing[2] = "current-release" /\ "console-origins" \notin failed)
       => file["console-origins"] = Told("console-origins")

IndInv ==
    /\ TypeOK
    /\ WireIsCleared
    /\ HelloFirst
    /\ VerdictStands
    /\ JudgedFirst
    /\ RecordedSoFar
    /\ AdvisoryIsHonest

-----------------------------------------------------------------------------
(* What the handshake promises of its connections.                         *)

Side(c) ==
    CASE saas[c] = "free" -> "none"
      [] saas[c] \in {"stream", "hello", "answer"} -> "pending"
      [] saas[c] \in {"session", "deaf"} -> "admitted"
      [] OTHER -> "over"

Connections == INSTANCE Admission WITH
    Builds <- Hellos, Admissible <- {h \in Hellos : Accepted(h)}, SomeBuild <- SomeHello,
    joined <- agent \in {"record", "serve"}, build <- hello,
    verdict <- [c \in Conns |-> Side(c)]

\* The agent serves only a connection on which the SaaS has judged its build and
\* takes it, and none is reused while a side is on it, whatever dies meanwhile.
ImplementsAdmission == Connections!Spec
=============================================================================
