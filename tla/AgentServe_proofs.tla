-------------------------- MODULE AgentServe_proofs --------------------------
(* Proofs of the safety properties of AgentServe, for any set of streams,  *)
(* any frames and any failure limit.                                       *)
EXTENDS AgentServe, FiniteSetTheorems, TLAPS

USE DEF Outside, Looping, InServe, Places, SessionStates, LiveStages, TurnedAway, Stages, auditVars

\* The conjuncts of IndInv other than the count of rejections.
Struct ==
    /\ TypeOK /\ SessionScoped /\ BacklogUnjudged /\ StreamOrder /\ HandlerFitsOpen
    /\ RecordFollowsCall /\ BelowLimit /\ NoHandlerOutlivesServe
    /\ ServesOnlyWhatWasAsked /\ OutputIsAudited

LEMMA InitStruct == Init => Struct
<1> SUFFICES ASSUME Init PROVE Struct
  OBVIOUS
<1> USE DEF Init, FreshStreams
<1>1. TypeOK
  <2>1. errs \in 0..MaxAcceptErrors
    BY ErrorsAssumption
  <2>2. backlog \in Seq(Channels)
    OBVIOUS
  <2> QED
    BY <2>1, <2>2 DEF TypeOK
<1>2. SessionScoped /\ BelowLimit /\ NoHandlerOutlivesServe
  BY DEF SessionScoped, BelowLimit, NoHandlerOutlivesServe, NoHandler, Live
<1>3. BacklogUnjudged
  BY DEF BacklogUnjudged
<1>4. /\ StreamOrder /\ HandlerFitsOpen /\ RecordFollowsCall
      /\ ServesOnlyWhatWasAsked /\ OutputIsAudited
  BY DEF StreamOrder, HandlerFitsOpen, RecordFollowsCall, ServesOnlyWhatWasAsked, OutputIsAudited, Live
<1> QED
  BY <1>1, <1>2, <1>3, <1>4 DEF Struct

\* A step that moves only the main goroutine's place.
GotoSteps ==
    \/ LoopHead \/ DialAnswered \/ DialCancelled \/ HelloFails \/ BackoffOver
    \/ AcceptStream \/ PauseOver \/ FlapWait

LEMMA GotoStep == Struct /\ GotoSteps => Struct'
<1> SUFFICES ASSUME Struct, GotoSteps PROVE Struct'
  OBVIOUS
<1> USE DEF Struct
<1>1. UNCHANGED <<signalled, sess, hook, errs, backlog, streak, header, asked,
                  peerEnd, args, stage, sent, audit, logged>>
  BY DEF GotoSteps, LoopHead, DialAnswered, DialCancelled, HelloFails, BackoffOver,
         AcceptStream, PauseOver, FlapWait, Goto, wireVars, workVars
<1>2. \/ pc \in Outside /\ pc' \in Outside \cup {"stopped"}
      \/ pc = "accept" /\ pc' = "header" /\ backlog # << >>
      \/ pc = "pause" /\ pc' \in {"accept", "drain"}
  BY DEF GotoSteps, LoopHead, DialAnswered, DialCancelled, HelloFails, BackoffOver,
         AcceptStream, PauseOver, FlapWait, Goto
<1>3. TypeOK'
  BY <1>1, <1>2 DEF TypeOK
<1>4. SessionScoped' /\ BelowLimit'
  BY <1>1, <1>2 DEF SessionScoped, BelowLimit
<1>5. BacklogUnjudged'
  BY <1>1, <1>2 DEF BacklogUnjudged
<1>6. /\ StreamOrder' /\ HandlerFitsOpen' /\ RecordFollowsCall'
      /\ ServesOnlyWhatWasAsked' /\ OutputIsAudited'
  BY <1>1 DEF StreamOrder, HandlerFitsOpen, RecordFollowsCall, ServesOnlyWhatWasAsked, OutputIsAudited, Live
<1>7. NoHandlerOutlivesServe'
  BY <1>1, <1>2 DEF NoHandlerOutlivesServe, NoHandler, Live
<1> QED
  BY <1>3, <1>4, <1>5, <1>6, <1>7

\* What any step of a handler does: one stage moves on from a live stage, the
\* session and the wire stay.
LEMMA HandlerMoves ==
    ASSUME Struct, NEW c \in Channels, HandlerStep(c) \/ LocalStep(c)
    PROVE  /\ UNCHANGED <<signalled, pc, sess, hook, errs, backlog, streak, header, asked,
                          peerEnd, args>>
           /\ Live(c)
           /\ stage' = [stage EXCEPT ![c] = stage'[c]]
           /\ stage'[c] \in LiveStages \cup {"done"}
           /\ sent' \in [Channels -> {"none", "refused", "output"}]
           /\ audit' \in [Channels -> {"none", "refused", "allowed"}]
           /\ logged' \in [Channels -> {"none", "refused", "allowed"}]
           /\ \A d \in Channels \ {c} :
                 sent'[d] = sent[d] /\ audit'[d] = audit[d] /\ logged'[d] = logged[d]
<1> USE DEF Struct, TypeOK, Live, Move, mainVars, wireVars, workVars
<1>1. CASE ArgsRefused(c)
  BY <1>1 DEF ArgsRefused, Record
<1>2. CASE CallStarts(c) \/ HandlerPanics(c) \/ DialTarget(c) \/ DialFails(c)
           \/ PipeEnds(c) \/ LocalStep(c) \/ HandlerDone(c)
  BY <1>2 DEF CallStarts, HandlerPanics, DialTarget, DialFails, PipeEnds, LocalStep,
              LocalStalls, LocalReads, LocalCloses,
              HandlerDone
<1>3. CASE CallEnds(c)
  BY <1>3 DEF CallEnds, Record
<1>4. CASE WriteOutput(c) \/ WriteRefusal(c)
  BY <1>4 DEF WriteOutput, WriteRefusal, Write
<1> QED
  BY <1>1, <1>2, <1>3, <1>4 DEF HandlerStep

LEMMA HandlerStepOK ==
    ASSUME Struct, NEW c \in Channels, HandlerStep(c) \/ LocalStep(c)
    PROVE  Struct'
<1> USE HandlerMoves DEF Struct
<1>1. TypeOK'
  <2>1. stage' \in [Channels -> Stages]
    BY DEF TypeOK
  <2>2. /\ streak' \subseteq Channels /\ errs' \in 0..MaxAcceptErrors
        /\ backlog' \in Seq(Channels)
    BY DEF TypeOK
  <2>3. /\ signalled' \in BOOLEAN /\ pc' \in Places /\ sess' \in SessionStates
        /\ hook' \in {"off", "armed", "fired"}
    BY DEF TypeOK
  <2> QED
    BY <2>1, <2>2, <2>3 DEF TypeOK
<1>2. SessionScoped' /\ BelowLimit'
  BY DEF SessionScoped, BelowLimit, Live, TypeOK
<1>3. BacklogUnjudged'
  BY DEF BacklogUnjudged, Live, TypeOK
<1>4. StreamOrder'
  BY DEF StreamOrder, Live, TypeOK
<1>5. NoHandlerOutlivesServe'
  BY DEF NoHandlerOutlivesServe, NoHandler, Live, TypeOK
<1>6. RecordFollowsCall' /\ OutputIsAudited'
  <2> USE DEF RecordFollowsCall, OutputIsAudited, TypeOK, Move, Record
  <2>1. CASE ArgsRefused(c)
    BY <2>1 DEF ArgsRefused
  <2>2. CASE CallStarts(c) \/ HandlerPanics(c) \/ DialTarget(c) \/ DialFails(c)
             \/ PipeEnds(c) \/ LocalStep(c) \/ HandlerDone(c)
    BY <2>2 DEF CallStarts, HandlerPanics, DialTarget, DialFails, PipeEnds,
                LocalStep, LocalStalls, LocalReads, LocalCloses, HandlerDone
  <2>3. CASE CallEnds(c)
    BY <2>3 DEF CallEnds
  <2>4. CASE WriteOutput(c) \/ WriteRefusal(c)
    BY <2>4 DEF WriteOutput, WriteRefusal, Write
  <2> QED
    BY <2>1, <2>2, <2>3, <2>4 DEF HandlerStep
<1>7. HandlerFitsOpen' /\ ServesOnlyWhatWasAsked'
  <2>1. OpenValid(asked[c])
    BY DEF ServesOnlyWhatWasAsked
  <2>2. CASE ArgsRefused(c) \/ HandlerPanics(c) \/ WriteOutput(c) \/ WriteRefusal(c)
             \/ DialFails(c) \/ PipeEnds(c) \/ LocalCloses(c) \/ HandlerDone(c)
    <3>1. stage'[c] \in {"refuse", "closing", "done"}
      BY <2>2 DEF ArgsRefused, HandlerPanics, WriteOutput, WriteRefusal, DialFails,
                  PipeEnds, LocalCloses, HandlerDone, Move, TypeOK
    <3> QED
      BY <2>1, <3>1 DEF HandlerFitsOpen, ServesOnlyWhatWasAsked, Live, TypeOK
  <2>3. CASE CallStarts(c) \/ CallEnds(c)
    <3>1. /\ stage'[c] \in {"call", "result"}
          /\ asked[c].target.kind = "tool"
          /\ asked[c].target.name \in ToolNames
      BY <2>3 DEF CallStarts, CallEnds, Move, TypeOK, HandlerFitsOpen,
                  ServesOnlyWhatWasAsked
    <3> QED
      BY <2>1, <3>1 DEF HandlerFitsOpen, ServesOnlyWhatWasAsked, Live, TypeOK
  <2>4. CASE DialTarget(c)
    <3>1. /\ stage'[c] = "pipe"
          /\ asked[c].target.kind \in {"ssh", "web"}
          /\ Reachable(asked[c])
      BY <2>4 DEF DialTarget, Move, TypeOK, HandlerFitsOpen
    <3> QED
      BY <2>1, <3>1 DEF HandlerFitsOpen, ServesOnlyWhatWasAsked, Live, TypeOK, Reachable
  <2>5. CASE LocalStalls(c) \/ LocalReads(c)
    <3>1. stage[c] \in {"pipe", "stuck"} /\ stage'[c] \in {"pipe", "stuck"}
      BY <2>5 DEF LocalStalls, LocalReads, Move, TypeOK
    <3> QED
      BY <2>1, <3>1 DEF HandlerFitsOpen, ServesOnlyWhatWasAsked, Live, TypeOK
  <2> QED
    BY <2>2, <2>3, <2>4, <2>5 DEF HandlerStep, LocalStep
<1> QED
  BY <1>1, <1>2, <1>3, <1>4, <1>5, <1>6, <1>7

-----------------------------------------------------------------------------
(* The environment and the wire.                                           *)

LEMMA SessionStep ==
    ASSUME Struct, Signal \/ LoseSession \/ HookFires \/ HelloAccepted \/ ServeReturns
    PROVE  Struct'
<1> USE DEF Struct
<1>1. UNCHANGED <<backlog, streak, header, asked, peerEnd, args, stage, sent, audit, logged>>
  BY DEF Signal, LoseSession, HookFires, HelloAccepted, ServeReturns, wireVars, workVars
<1>2. TypeOK'
  <2>1. /\ signalled' \in BOOLEAN /\ pc' \in Places /\ sess' \in SessionStates
        /\ hook' \in {"off", "armed", "fired"}
    BY DEF TypeOK, Signal, LoseSession, HookFires, HelloAccepted, ServeReturns
  <2>2. errs' \in 0..MaxAcceptErrors
    BY ErrorsAssumption
    DEF TypeOK, Signal, LoseSession, HookFires, HelloAccepted, ServeReturns
  <2> QED
    BY <1>1, <2>1, <2>2 DEF TypeOK
<1>3. SessionScoped' /\ BelowLimit'
  BY <1>1, ErrorsAssumption DEF SessionScoped, BelowLimit, Signal, LoseSession, HookFires,
         HelloAccepted, ServeReturns
<1>4. BacklogUnjudged'
  BY <1>1 DEF BacklogUnjudged, Signal, LoseSession, HookFires, HelloAccepted, ServeReturns
<1>5. /\ StreamOrder' /\ HandlerFitsOpen' /\ RecordFollowsCall'
      /\ ServesOnlyWhatWasAsked' /\ OutputIsAudited'
  BY <1>1 DEF StreamOrder, HandlerFitsOpen, RecordFollowsCall, ServesOnlyWhatWasAsked,
              OutputIsAudited, Live
<1>6. NoHandlerOutlivesServe'
  BY <1>1 DEF NoHandlerOutlivesServe, NoHandler, Live, Signal, LoseSession, HookFires,
         HelloAccepted, ServeReturns
<1> QED
  BY <1>2, <1>3, <1>4, <1>5, <1>6

LEMMA OpenStreamOK ==
    ASSUME Struct, NEW c \in Channels, OpenStream(c)
    PROVE  Struct'
<1> USE DEF Struct, OpenStream
<1>1. /\ UNCHANGED <<signalled, pc, sess, hook, errs, streak, asked, peerEnd, args,
                      stage, sent, audit, logged>>
      /\ sess = "up" /\ header[c] = "none"
      /\ header' = [header EXCEPT ![c] = "silent"]
      /\ backlog' = Append(backlog, c)
  BY DEF mainVars, workVars
<1>2. stage[c] = "idle"
  BY <1>1 DEF StreamOrder
<1>3. TypeOK'
  BY <1>1 DEF TypeOK
<1>4. SessionScoped' /\ BelowLimit' /\ NoHandlerOutlivesServe'
  BY <1>1 DEF SessionScoped, BelowLimit, NoHandlerOutlivesServe, NoHandler, Live
<1>5. BacklogUnjudged'
  <2>1. \A i \in 1..Len(backlog) : backlog[i] \in Channels /\ backlog[i] # c
    BY <1>1 DEF BacklogUnjudged, TypeOK
  <2>2. /\ Len(backlog') = Len(backlog) + 1
        /\ \A i \in 1..Len(backlog) : backlog'[i] = backlog[i]
        /\ backlog'[Len(backlog) + 1] = c
    BY <1>1 DEF TypeOK
  <2>3. Len(backlog) \in Nat
    BY DEF TypeOK
  <2>4. \A i \in 1..Len(backlog') : i \in 1..Len(backlog) \/ i = Len(backlog) + 1
    BY <2>2, <2>3
  <2>5. \A i \in 1..Len(backlog') :
           stage'[backlog'[i]] = "idle" /\ header'[backlog'[i]] # "none"
    BY <1>1, <1>2, <2>1, <2>2, <2>4 DEF BacklogUnjudged, TypeOK
  <2>6. \A i, j \in 1..Len(backlog') : i # j => backlog'[i] # backlog'[j]
    BY <2>1, <2>2, <2>4 DEF BacklogUnjudged
  <2>7. backlog' # << >>
    BY <2>2, <2>3
  <2> QED
    BY <2>5, <2>6, <2>7 DEF BacklogUnjudged
<1>6. StreamOrder'
  BY <1>1, <1>2 DEF StreamOrder, Live, TypeOK
<1>7. /\ HandlerFitsOpen' /\ RecordFollowsCall'
      /\ ServesOnlyWhatWasAsked' /\ OutputIsAudited'
  BY <1>1 DEF HandlerFitsOpen, RecordFollowsCall, ServesOnlyWhatWasAsked, OutputIsAudited, Live
<1> QED
  BY <1>3, <1>4, <1>5, <1>6, <1>7

\* An open frame changes only while its stream is unjudged; the other wire
\* steps touch nothing a handler's invariants speak of.
LEMMA PeerStepOK ==
    ASSUME Struct, NEW c \in Channels, SendHeader(c) \/ SendArgs(c) \/ PeerClose(c)
    PROVE  Struct'
<1> USE DEF Struct
<1>1. /\ UNCHANGED <<signalled, pc, sess, hook, errs, backlog, streak, stage, sent, audit, logged>>
      /\ sess = "up"
      /\ header' \in [Channels -> {"none", "silent", "malformed", "arrived"}]
      /\ asked' \in [Channels -> Opens \cup {NoOpen}]
      /\ peerEnd' \in [Channels -> BOOLEAN]
      /\ args' \in [Channels -> {"none", "badFrame", "badArgument", "good"}]
  <2> USE DEF PeerMayAct, TypeOK, mainVars, workVars
  <2>1. CASE SendHeader(c)
    BY <2>1 DEF SendHeader
  <2>2. CASE SendArgs(c)
    BY <2>2 DEF SendArgs
  <2>3. CASE PeerClose(c)
    BY <2>3 DEF PeerClose
  <2> QED
    BY <2>1, <2>2, <2>3
<1>2. \A d \in Channels :
         \/ header'[d] = header[d] /\ asked'[d] = asked[d]
         \/ /\ header[d] = "silent" /\ header'[d] # "none" /\ ~Live(d)
            /\ header'[d] = "arrived" => asked'[d] \in Opens
  <2>1. CASE SendArgs(c) \/ PeerClose(c)
    BY <2>1 DEF SendArgs, PeerClose
  <2>2. CASE SendHeader(c)
    <3>1. header[c] = "silent" /\ ~Live(c)
      BY <2>2 DEF SendHeader, StreamOrder
    <3>2. \A d \in Channels \ {c} : header'[d] = header[d] /\ asked'[d] = asked[d]
      BY <2>2 DEF SendHeader, TypeOK
    <3>3. header'[c] # "none" /\ (header'[c] = "arrived" => asked'[c] \in Opens)
      BY <2>2 DEF SendHeader, TypeOK
    <3> QED
      BY <3>1, <3>2, <3>3
  <2> QED
    BY <2>1, <2>2
<1>3. TypeOK'
  BY <1>1 DEF TypeOK
<1>4. SessionScoped' /\ BelowLimit' /\ NoHandlerOutlivesServe'
  BY <1>1 DEF SessionScoped, BelowLimit, NoHandlerOutlivesServe, NoHandler, Live
<1>5. BacklogUnjudged'
  BY <1>1, <1>2 DEF BacklogUnjudged, TypeOK
<1>6. StreamOrder' /\ HandlerFitsOpen' /\ ServesOnlyWhatWasAsked'
  BY <1>1, <1>2 DEF StreamOrder, HandlerFitsOpen, ServesOnlyWhatWasAsked, Live
<1>7. RecordFollowsCall' /\ OutputIsAudited'
  BY <1>1 DEF RecordFollowsCall, OutputIsAudited
<1> QED
  BY <1>3, <1>4, <1>5, <1>6, <1>7

-----------------------------------------------------------------------------
(* Serve's loop.                                                           *)

\* A stream in the backlog's tail is not its head and was in the backlog.
LEMMA BacklogTail ==
    ASSUME Struct, backlog # << >>
    PROVE  /\ cur \in Channels
           /\ stage[cur] = "idle" /\ header[cur] # "none"
           /\ Tail(backlog) \in Seq(Channels)
           /\ Len(Tail(backlog)) = Len(backlog) - 1
           /\ \A i \in 1..Len(Tail(backlog)) :
                 /\ i + 1 \in 1..Len(backlog)
                 /\ Tail(backlog)[i] = backlog[i + 1]
                 /\ Tail(backlog)[i] \in Channels
                 /\ Tail(backlog)[i] # cur
<1> USE DEF Struct, cur
<1>1. backlog \in Seq(Channels) /\ backlog # << >>
  BY DEF TypeOK
<1>2. Len(backlog) \in Nat \ {0} /\ 1 \in 1..Len(backlog) /\ Head(backlog) = backlog[1]
  BY <1>1
<1>3. /\ Tail(backlog) \in Seq(Channels)
      /\ Len(Tail(backlog)) = Len(backlog) - 1
      /\ \A i \in 1..Len(Tail(backlog)) :
            i + 1 \in 1..Len(backlog) /\ Tail(backlog)[i] = backlog[i + 1]
  BY <1>1, <1>2
<1>4. \A i \in 1..Len(Tail(backlog)) : Tail(backlog)[i] # backlog[1]
  BY <1>2, <1>3 DEF BacklogUnjudged
<1> QED
  BY <1>1, <1>2, <1>3, <1>4 DEF BacklogUnjudged

LEMMA JudgedBacklog ==
    ASSUME Struct, backlog # << >>, NEW verdict \in Stages, Judge(verdict), pc' # "header"
    PROVE  BacklogUnjudged'
<1>1. \A i \in 1..Len(backlog') :
         stage'[backlog'[i]] = "idle" /\ header'[backlog'[i]] # "none"
  BY BacklogTail DEF Judge, Struct, BacklogUnjudged, TypeOK
<1>2. \A i, j \in 1..Len(backlog') : i # j => backlog'[i] # backlog'[j]
  BY BacklogTail DEF Judge, Struct, BacklogUnjudged
<1> QED
  BY <1>1, <1>2 DEF BacklogUnjudged

LEMMA CountFailureOK ==
    ASSUME Struct, pc \in Looping, CountFailure
    PROVE  /\ errs' \in 0..MaxAcceptErrors
           /\ pc' \in {"pause", "drain"}
           /\ pc' = "pause" => errs' < MaxAcceptErrors
BY ErrorsAssumption DEF Struct, TypeOK, BelowLimit, CountFailure

\* A stream is turned away.
Rejection == HeaderRejected \/ HeaderTimeout \/ HeaderEOF \/ AcceptDrops

LEMMA RejectionOK ==
    ASSUME Struct, Rejection
    PROVE  Struct'
<1> USE DEF Struct
<1>1. PICK v \in TurnedAway : Judge(v)
  BY DEF Rejection, HeaderRejected, HeaderTimeout, HeaderEOF, AcceptDrops
<1>0. pc \in {"header", "accept"} /\ backlog # << >>
  BY DEF Rejection, HeaderRejected, HeaderTimeout, HeaderEOF, AcceptDrops, BacklogUnjudged
<1>2. /\ errs' \in 0..MaxAcceptErrors
      /\ pc' \in {"pause", "drain"}
      /\ pc' = "pause" => errs' < MaxAcceptErrors
  BY <1>0, CountFailureOK
  DEF Rejection, HeaderRejected, HeaderTimeout, HeaderEOF, AcceptDrops, LeaveServe, TypeOK
<1>3. cur \in Channels /\ stage[cur] = "idle" /\ header[cur] # "none"
      /\ Tail(backlog) \in Seq(Channels)
  BY <1>0, BacklogTail
<1>4. TypeOK'
  BY <1>1, <1>2, <1>3 DEF TypeOK, Judge
<1>5. SessionScoped' /\ BelowLimit' /\ NoHandlerOutlivesServe'
  BY <1>0, <1>1, <1>2 DEF SessionScoped, BelowLimit, NoHandlerOutlivesServe, Judge
<1>6. BacklogUnjudged'
  BY <1>0, <1>1, <1>2, JudgedBacklog
<1>7. StreamOrder' /\ HandlerFitsOpen' /\ ServesOnlyWhatWasAsked'
  BY <1>1, <1>3 DEF Judge, StreamOrder, HandlerFitsOpen, ServesOnlyWhatWasAsked, Live, TypeOK
<1>8. RecordFollowsCall' /\ OutputIsAudited'
  BY <1>1, <1>3 DEF Judge, RecordFollowsCall, OutputIsAudited, TypeOK
<1> QED
  BY <1>4, <1>5, <1>6, <1>7, <1>8

LEMMA AcceptanceOK ==
    ASSUME Struct, HeaderAccepted
    PROVE  Struct'
<1> USE DEF Struct
<1> DEFINE o == asked[cur]
<1>1. /\ pc = "header" /\ pc' = "accept" /\ errs' = 0
      /\ header[cur] = "arrived" /\ OpenValid(o)
      /\ Judge(Dispatch(o))
      /\ backlog # << >>
  BY DEF HeaderAccepted, BacklogUnjudged
<1>2. cur \in Channels /\ stage[cur] = "idle" /\ header[cur] # "none"
      /\ Tail(backlog) \in Seq(Channels)
  BY <1>1, BacklogTail
<1>3. /\ Dispatch(o) \in {"args", "dial", "refuse"}
      /\ Dispatch(o) = "args" => o.target.kind = "tool"
      /\ Dispatch(o) = "dial" => o.target.kind \in {"ssh", "web"}
  BY DEF Dispatch
<1>4. o \in Opens
  BY <1>1, <1>2 DEF StreamOrder
<1>5. TypeOK'
  BY <1>1, <1>2, <1>3, ErrorsAssumption DEF TypeOK, Judge
<1>6. SessionScoped' /\ BelowLimit' /\ NoHandlerOutlivesServe'
  BY <1>1, ErrorsAssumption DEF SessionScoped, BelowLimit, NoHandlerOutlivesServe, Judge
<1>7. BacklogUnjudged'
  BY <1>1, <1>3, JudgedBacklog
<1>8. StreamOrder'
  BY <1>1, <1>2, <1>4 DEF Judge, StreamOrder, Live, TypeOK
<1>9. HandlerFitsOpen' /\ ServesOnlyWhatWasAsked'
  BY <1>1, <1>2, <1>3 DEF Judge, HandlerFitsOpen, ServesOnlyWhatWasAsked, Live, TypeOK
<1>10. RecordFollowsCall' /\ OutputIsAudited'
  BY <1>1, <1>2, <1>3 DEF Judge, RecordFollowsCall, OutputIsAudited, TypeOK
<1> QED
  BY <1>5, <1>6, <1>7, <1>8, <1>9, <1>10

LEMMA AcceptFailsOK ==
    ASSUME Struct, AcceptFails
    PROVE  Struct'
<1> USE DEF Struct
<1>1. /\ pc = "accept"
      /\ UNCHANGED <<signalled, sess, hook, backlog, streak, header, asked, peerEnd,
                      args, stage, sent, audit, logged>>
      /\ errs' \in 0..MaxAcceptErrors
      /\ pc' \in {"pause", "drain"}
      /\ pc' = "pause" => errs' < MaxAcceptErrors
  BY CountFailureOK DEF AcceptFails, LeaveServe, wireVars, workVars, TypeOK
<1>2. TypeOK'
  BY <1>1 DEF TypeOK
<1>3. SessionScoped' /\ BelowLimit' /\ NoHandlerOutlivesServe' /\ BacklogUnjudged'
  BY <1>1 DEF SessionScoped, BelowLimit, NoHandlerOutlivesServe, BacklogUnjudged
<1>4. /\ StreamOrder' /\ HandlerFitsOpen' /\ RecordFollowsCall'
      /\ ServesOnlyWhatWasAsked' /\ OutputIsAudited'
  BY <1>1 DEF StreamOrder, HandlerFitsOpen, RecordFollowsCall, ServesOnlyWhatWasAsked,
              OutputIsAudited, Live
<1> QED
  BY <1>2, <1>3, <1>4

LEMMA EndSessionOK ==
    ASSUME Struct, EndSession
    PROVE  Struct'
<1> USE DEF Struct, EndSession
<1>1. NoHandler
  BY DEF NoHandlerOutlivesServe
<1>2. stage' = [c \in Channels |-> "idle"]
  BY <1>1 DEF NoHandler
<1>3. TypeOK'
  BY <1>2 DEF TypeOK
<1>4. SessionScoped' /\ BelowLimit' /\ NoHandlerOutlivesServe' /\ BacklogUnjudged'
  BY <1>2 DEF SessionScoped, BelowLimit, NoHandlerOutlivesServe, NoHandler, Live,
              BacklogUnjudged
<1>5. /\ StreamOrder' /\ HandlerFitsOpen' /\ RecordFollowsCall'
      /\ ServesOnlyWhatWasAsked' /\ OutputIsAudited'
  BY <1>2 DEF StreamOrder, HandlerFitsOpen, RecordFollowsCall, ServesOnlyWhatWasAsked,
              OutputIsAudited, Live
<1> QED
  BY <1>3, <1>4, <1>5

-----------------------------------------------------------------------------
(* Every step preserves the invariant.                                     *)

LEMMA NextStruct == Struct /\ [Next]_vars => Struct'
<1> SUFFICES ASSUME Struct, [Next]_vars PROVE Struct'
  OBVIOUS
<1>1. CASE UNCHANGED vars
  <2>1. /\ TypeOK' /\ SessionScoped' /\ BelowLimit' /\ BacklogUnjudged'
        /\ NoHandlerOutlivesServe'
    BY <1>1 DEF Struct, vars, mainVars, wireVars, workVars, TypeOK, SessionScoped,
                BelowLimit, BacklogUnjudged, NoHandlerOutlivesServe, NoHandler, Live
  <2>2. /\ StreamOrder' /\ HandlerFitsOpen' /\ RecordFollowsCall'
        /\ ServesOnlyWhatWasAsked' /\ OutputIsAudited'
    BY <1>1 DEF Struct, vars, mainVars, wireVars, workVars, StreamOrder, HandlerFitsOpen,
                RecordFollowsCall, ServesOnlyWhatWasAsked, OutputIsAudited, Live
  <2> QED
    BY <2>1, <2>2 DEF Struct
<1>2. CASE Exited
  BY <1>1, <1>2 DEF Exited
<1>3. CASE MainStep \/ HookFires \/ Signal \/ LoseSession \/ DialAnswered
  BY <1>3, GotoStep, SessionStep, RejectionOK, AcceptanceOK, AcceptFailsOK, EndSessionOK
  DEF MainStep, GotoSteps, Rejection
<1>4. CASE \E c \in Channels : HandlerStep(c) \/ PeerStep(c)
  BY <1>4, HandlerStepOK, OpenStreamOK, PeerStepOK DEF PeerStep
<1> QED
  BY <1>1, <1>2, <1>3, <1>4 DEF Next

LEMMA StructInvariant == Spec => []Struct
<1>1. Init => Struct
  BY InitStruct
<1>2. Struct /\ [Next]_vars => Struct'
  BY NextStruct
<1> QED
  BY <1>1, <1>2, PTL DEF Spec

\* The variables keep their types: in particular the failure count never
\* passes the limit of maxConsecutiveAcceptErrors.
THEOREM TypeCorrect == Spec => []TypeOK
<1>1. Struct => TypeOK
  BY DEF Struct
<1> QED
  BY <1>1, StructInvariant, PTL

\* run.go closes a session, reconnects or exits only after every handler of
\* Serve has returned.
THEOREM HandlersJoined == Spec => []NoHandlerOutlivesServe
<1>1. Struct => NoHandlerOutlivesServe
  BY DEF Struct
<1> QED
  BY <1>1, StructInvariant, PTL

\* A handler serves only a validated open frame, on its own plane, and reaches
\* only a registered tool, this node's sshd or an allowlisted web name.
THEOREM ServesAsAsked == Spec => []ServesOnlyWhatWasAsked
<1>1. Struct => ServesOnlyWhatWasAsked
  BY DEF Struct
<1> QED
  BY <1>1, StructInvariant, PTL

\* serveTool sends output only after Registry.Call has put the call's record, as
\* allowed, to the log; what becomes of the record there is the write's matter.
THEOREM OutputAudited == Spec => []OutputIsAudited
<1>1. Struct => OutputIsAudited
  BY DEF Struct
<1> QED
  BY <1>1, StructInvariant, PTL

-----------------------------------------------------------------------------
(* Failures and rejections.                                                *)

LEMMA StreakFinite == Struct => IsFiniteSet(streak) /\ Cardinality(streak) \in Nat
BY ChannelsAssumption, FS_Subset, FS_CardinalityType DEF Struct, TypeOK

\* A stream turned away makes the streak longer by one.
LEMMA StreakGrows ==
    ASSUME Struct, FailuresAreRejections, Rejection
    PROVE  /\ Cardinality(streak') = Cardinality(streak) + 1
           /\ \A c \in streak' : stage'[c] \in TurnedAway
<1>1. PICK v \in TurnedAway : Judge(v)
  BY DEF Rejection, HeaderRejected, HeaderTimeout, HeaderEOF, AcceptDrops
<1>2. cur \in Channels /\ stage[cur] = "idle"
  BY BacklogTail
  DEF Rejection, HeaderRejected, HeaderTimeout, HeaderEOF, AcceptDrops, Struct, BacklogUnjudged
<1>3. streak' = streak \cup {cur} /\ cur \notin streak
  BY <1>1, <1>2 DEF Judge, FailuresAreRejections
<1>4. Cardinality(streak') = Cardinality(streak) + 1
  BY <1>3, StreakFinite, FS_AddElement
<1>5. \A c \in streak' : stage'[c] \in TurnedAway
  BY <1>1, <1>2, <1>3 DEF Judge, FailuresAreRejections, Struct, TypeOK
<1> QED
  BY <1>4, <1>5

LEMMA CountInv == Struct /\ FailuresAreRejections /\ [Next]_vars => FailuresAreRejections'
<1> SUFFICES ASSUME Struct, FailuresAreRejections, [Next]_vars
             PROVE  FailuresAreRejections'
  OBVIOUS
<1> USE DEF FailuresAreRejections
<1>1. Cardinality(streak) \in Nat /\ errs \in Nat
  BY StreakFinite DEF Struct, TypeOK
<1>2. CASE HelloAccepted
  <2>1. UNCHANGED <<stage, streak>> /\ errs' = 0
    BY <1>2 DEF HelloAccepted, wireVars, workVars
  <2> QED
    BY <2>1, <1>1
<1>3. CASE HeaderAccepted
  <2>1. streak' = {} /\ errs' = 0
    BY <1>3 DEF HeaderAccepted, Judge, Dispatch
  <2> QED
    BY <2>1, FS_EmptySet
<1>4. CASE Rejection
  <2>1. sess' = sess /\ (errs' = errs \/ errs' = errs + 1)
    BY <1>4 DEF Rejection, HeaderRejected, HeaderTimeout, HeaderEOF, AcceptDrops, Judge,
                CountFailure, LeaveServe
  <2> QED
    BY <2>1, <1>1, <1>4, StreakGrows
<1>5. CASE AcceptFails
  BY <1>5 DEF AcceptFails, wireVars, workVars
<1>6. CASE EndSession
  BY <1>6 DEF EndSession
<1>7. CASE \E c \in Channels : HandlerStep(c) \/ LocalStep(c)
  <2>1. PICK c \in Channels : HandlerStep(c) \/ LocalStep(c)
    BY <1>7
  <2>2. /\ UNCHANGED <<sess, errs, streak>>
        /\ stage[c] \in LiveStages
        /\ stage' = [stage EXCEPT ![c] = stage'[c]]
    BY <2>1, HandlerMoves DEF Live
  <2>3. \A d \in streak : d # c /\ stage'[d] = stage[d]
    BY <2>2 DEF Struct, TypeOK
  <2> QED
    BY <2>2, <2>3
<1>8. CASE GotoSteps \/ Signal \/ LoseSession \/ HookFires \/ ServeReturns \/ Exited
           \/ UNCHANGED vars
           \/ \E c \in Channels :
                 OpenStream(c) \/ SendHeader(c) \/ SendArgs(c) \/ PeerClose(c)
  <2>1. (sess' = "up" => sess = "up") /\ UNCHANGED <<errs, stage, streak>>
    BY <1>8 DEF GotoSteps, LoopHead, DialAnswered, DialCancelled, HelloFails, BackoffOver,
         AcceptStream, PauseOver, FlapWait, Goto, Signal, LoseSession, HookFires,
         ServeReturns, Exited, OpenStream, SendHeader, SendArgs, PeerClose, PeerMayAct,
         vars, mainVars, wireVars, workVars
  <2> QED
    BY <2>1
<1> QED
  BY <1>2, <1>3, <1>4, <1>5, <1>6, <1>7, <1>8
  DEF Next, MainStep, GotoSteps, PeerStep, Rejection

LEMMA InvInvariant == Spec => [](Struct /\ FailuresAreRejections)
<1>1. Init => Struct /\ FailuresAreRejections
  <2>1. Init => FailuresAreRejections
    BY DEF Init, FreshStreams, FailuresAreRejections
  <2> QED
    BY <2>1, InitStruct
<1>2. Struct /\ FailuresAreRejections /\ [Next]_vars => (Struct /\ FailuresAreRejections)'
  BY NextStruct, CountInv
<1> QED
  BY <1>1, <1>2, PTL DEF Spec

\* On a live session every counted accept failure is a stream of that session,
\* turned away with no good open after it.
THEOREM FailuresCounted == Spec => []FailuresAreRejections
BY InvInvariant, PTL

-----------------------------------------------------------------------------
(* The context's hook.                                                     *)

LEMMA HookInv == Struct /\ HookArmed /\ [Next]_vars => HookArmed'
<1> SUFFICES ASSUME Struct, HookArmed, [Next]_vars PROVE HookArmed'
  OBVIOUS
<1> USE DEF HookArmed
<1>1. CASE UNCHANGED <<signalled, pc, sess, hook>>
  BY <1>1
<1>2. CASE GotoSteps
  BY <1>2 DEF GotoSteps, LoopHead, DialAnswered, DialCancelled, HelloFails, BackoffOver,
              AcceptStream, PauseOver, FlapWait, Goto
<1>3. CASE Signal \/ LoseSession \/ HookFires
  BY <1>3 DEF Signal, LoseSession, HookFires
<1>4. CASE HelloAccepted \/ ServeReturns \/ EndSession
  BY <1>4 DEF HelloAccepted, ServeReturns, EndSession
<1>5. CASE AcceptFails \/ Rejection \/ HeaderAccepted
  BY <1>5 DEF AcceptFails, Rejection, AcceptDrops, HeaderRejected, HeaderTimeout, HeaderEOF,
              HeaderAccepted, Judge, CountFailure, LeaveServe
<1>6. CASE \E c \in Channels : HandlerStep(c) \/ PeerStep(c)
  <2>1. PICK c \in Channels : HandlerStep(c) \/ PeerStep(c)
    BY <1>6
  <2>2. UNCHANGED <<signalled, pc, sess, hook>>
    BY <2>1, HandlerMoves DEF PeerStep, OpenStream, SendHeader, SendArgs, PeerClose, mainVars
  <2> QED
    BY <1>1, <2>2
<1>7. CASE UNCHANGED vars \/ Exited
  BY <1>1, <1>7 DEF Exited, vars, mainVars
<1> QED
  BY <1>2, <1>3, <1>4, <1>5, <1>6, <1>7 DEF Next, MainStep, GotoSteps, Rejection

\* Wherever Serve is, also in its deferred wait, cancelling the context closes
\* the session: Serve's AfterFunc, the safety half of ShutdownCompletes.
THEOREM ShutdownArmed == Spec => []HookArmed
<1>1. Init => HookArmed
  BY DEF Init, HookArmed
<1> QED
  BY <1>1, HookInv, StructInvariant, PTL DEF Spec

\* The invariant TLC checks on the small instances holds of all.
THEOREM Inductive == Spec => []IndInv
<1>1. Struct /\ FailuresAreRejections /\ HookArmed => IndInv
  BY DEF Struct, IndInv
<1> QED
  BY <1>1, InvInvariant, ShutdownArmed, PTL

\* Serve leaves a live session that nobody cancelled only after MaxAcceptErrors
\* streams in a row were turned away, on a stream ended before its header, or on
\* one whose rejection quotes a text isSessionOver looks for.
THEOREM LeftForCause == Spec => LeavesForCause
<1> DEFINE Cause ==
              \/ Cardinality(streak') >= MaxAcceptErrors
              \/ pc = "header" /\ header[cur] = "silent" /\ peerEnd[cur]
              \/ pc = "header" /\ header[cur] = "arrived" /\ QuotesSessionEnd(asked[cur])
           Leaves == pc \in Looping /\ pc' = "drain" /\ sess = "up" /\ ~signalled
<1>1. ASSUME Struct, FailuresAreRejections, Next, Leaves
      PROVE  Cause
  <2>1. Rejection
    <3>1. CASE \E c \in Channels : HandlerStep(c) \/ PeerStep(c)
      <4>1. pc' = pc
        BY <1>1, <3>1, HandlerMoves
        DEF PeerStep, OpenStream, SendHeader, SendArgs, PeerClose, mainVars
      <4> QED
        BY <1>1, <4>1
    <3>2. CASE ~ \E c \in Channels : HandlerStep(c) \/ PeerStep(c)
      BY <1>1, <3>2 DEF Next, MainStep, Rejection, LoopHead, DialAnswered, DialCancelled,
          HelloFails, HelloAccepted, BackoffOver, AcceptStream, AcceptFails, HeaderAccepted,
          PauseOver, ServeReturns, EndSession, FlapWait, Goto, Signal, LoseSession,
          HookFires, Exited, vars, mainVars
    <3> QED
      BY <3>1, <3>2
  <2>2. CASE HeaderEOF
    BY <1>1, <2>2 DEF HeaderEOF
  <2>3. CASE HeaderRejected /\ header[cur] = "arrived" /\ QuotesSessionEnd(asked[cur])
    BY <2>3 DEF HeaderRejected
  <2>4. CASE CountFailure
    <3>1. errs + 1 >= MaxAcceptErrors /\ errs <= Cardinality(streak)
      BY <1>1, <2>4 DEF CountFailure, FailuresAreRejections
    <3>2. errs \in Nat /\ Cardinality(streak) \in Nat /\ MaxAcceptErrors \in Nat
      BY <1>1, StreakFinite, ErrorsAssumption DEF Struct, TypeOK
    <3>3. Cardinality(streak') = Cardinality(streak) + 1
      BY <1>1, <2>1, StreakGrows
    <3> QED
      BY <3>1, <3>2, <3>3
  <2> QED
    BY <1>1, <2>1, <2>2, <2>3, <2>4 DEF Rejection, HeaderRejected, HeaderTimeout, AcceptDrops
<1>2. ASSUME Struct, FailuresAreRejections, [Next]_vars
      PROVE  [Leaves => Cause]_vars
  BY <1>1, <1>2
<1> HIDE DEF Cause, Leaves
<1>3. LeavesForCause <=> [][Leaves => Cause]_vars
  BY PTL DEF LeavesForCause, Leaves, Cause
<1> QED
  BY <1>2, <1>3, InvInvariant, PTL DEF Spec

-----------------------------------------------------------------------------
(* AgentServe implements ChannelService.                                   *)

Chan == [c \in Channels |-> ChanState(c)]
ServiceStep == Service!Next \/ UNCHANGED <<AgentState, LinkState, Chan>>

\* The steps ChannelService lets one stream take.
StreamMoves ==
    {<<"free", "offered">>, <<"offered", "rejected">>, <<"offered", "dropped">>,
     <<"offered", "serving">>, <<"serving", "settled">>}

\* A step inside a session that moves at most one stream, and moves it along.
LEMMA OneStreamStep ==
    ASSUME NEW c \in Channels, LinkState = "up", UNCHANGED <<AgentState, LinkState>>,
           \A d \in Channels \ {c} : ChanState(d)' = ChanState(d),
           \/ <<ChanState(c), ChanState(c)'>> \in StreamMoves
           \/ ChanState(c)' = ChanState(c)
    PROVE  ServiceStep
<1>1. CASE ChanState(c)' = ChanState(c)
  BY <1>1 DEF ServiceStep, Chan
<1>2. CASE <<ChanState(c), ChanState(c)'>> \in StreamMoves
  <2>1. Chan' = [Chan EXCEPT ![c] = ChanState(c)'] /\ Chan[c] = ChanState(c)
    BY DEF Chan
  <2>2. Service!Advance(c, ChanState(c), ChanState(c)')
    BY <2>1 DEF Service!Advance, Chan
  <2>3. \/ Service!Offer(c) \/ Service!Reject(c) \/ Service!Drop(c) \/ Service!Serve(c)
        \/ Service!Settle(c)
    BY <1>2, <2>2
    DEF StreamMoves, Service!Offer, Service!Reject, Service!Drop, Service!Serve,
        Service!Settle
  <2> QED
    BY <2>3 DEF ServiceStep, Service!Next
<1> QED
  BY <1>1, <1>2

\* A step that keeps every stream's header and stage keeps its state.
LEMMA SameStreams ==
    ASSUME UNCHANGED <<header, stage>>
    PROVE  Chan' = Chan
BY DEF Chan, ChanState, Live

LEMMA JudgingMaps ==
    ASSUME Struct, Rejection \/ HeaderAccepted
    PROVE  ServiceStep
<1> DEFINE Verdicts == TurnedAway \cup {"args", "dial", "refuse"}
<1>1. /\ pc \in InServe /\ pc' \in InServe /\ backlog # << >>
      /\ header' = header
      /\ \E v \in Verdicts : stage' = [stage EXCEPT ![cur] = v]
  BY DEF Rejection, HeaderRejected, HeaderTimeout, HeaderEOF, AcceptDrops, HeaderAccepted,
         Judge, CountFailure, LeaveServe, Dispatch, Struct, BacklogUnjudged
<1>2. cur \in Channels /\ stage[cur] = "idle" /\ header[cur] # "none"
  BY <1>1, BacklogTail
<1>3. stage \in [Channels -> Stages]
  BY DEF Struct, TypeOK
<1>4. LinkState = "up" /\ UNCHANGED <<AgentState, LinkState>>
  BY <1>1 DEF LinkState, AgentState
<1>5. \A d \in Channels \ {cur} : ChanState(d)' = ChanState(d)
  BY <1>1, <1>3 DEF ChanState, Live
<1>6. ChanState(cur) = "offered"
  BY <1>2 DEF ChanState
<1>7. PICK c \in Channels : c = cur
  BY <1>2
<1>8. stage'[c] \in Verdicts
  BY <1>1, <1>3, <1>7
<1>9. ChanState(c)' \in {"rejected", "dropped", "serving"}
  BY <1>8 DEF ChanState, Live
<1> QED
  BY <1>4, <1>5, <1>6, <1>7, <1>9, OneStreamStep DEF StreamMoves

LEMMA HandlerMaps ==
    ASSUME Struct, NEW c \in Channels, HandlerStep(c) \/ LocalStep(c)
    PROVE  ServiceStep
<1>1. /\ UNCHANGED <<pc, header>> /\ Live(c)
      /\ stage' = [stage EXCEPT ![c] = stage'[c]]
      /\ stage'[c] \in LiveStages \cup {"done"}
      /\ stage \in [Channels -> Stages]
  BY HandlerMoves DEF Struct, TypeOK
<1>2. LinkState = "up"
  BY <1>1 DEF Struct, NoHandlerOutlivesServe, NoHandler, LinkState
<1>3. UNCHANGED <<AgentState, LinkState>>
  BY <1>1 DEF AgentState, LinkState
<1>4. \A d \in Channels \ {c} : ChanState(d)' = ChanState(d)
  BY <1>1 DEF ChanState, Live
<1>5. ChanState(c) = "serving" /\ ChanState(c)' \in {"serving", "settled"}
  BY <1>1 DEF ChanState, Live
<1> QED
  BY <1>2, <1>3, <1>4, <1>5, OneStreamStep DEF StreamMoves

LEMMA WireMaps ==
    ASSUME Struct, NEW c \in Channels,
           OpenStream(c) \/ SendHeader(c) \/ SendArgs(c) \/ PeerClose(c)
    PROVE  ServiceStep
<1>1. /\ UNCHANGED <<pc, stage>> /\ sess = "up"
      /\ \A d \in Channels \ {c} : header'[d] = header[d]
      /\ \/ OpenStream(c) /\ header[c] = "none" /\ header'[c] # "none"
         \/ header[c] # "none" /\ header'[c] # "none"
         \/ header'[c] = header[c]
  BY DEF OpenStream, SendHeader, SendArgs, PeerClose, PeerMayAct, mainVars, workVars,
         Struct, TypeOK
<1>2. LinkState = "up" /\ UNCHANGED <<AgentState, LinkState>>
  BY <1>1 DEF Struct, TypeOK, SessionScoped, AgentState, LinkState
<1>3. \A d \in Channels \ {c} : ChanState(d)' = ChanState(d)
  BY <1>1 DEF ChanState, Live
<1>4. \/ <<ChanState(c), ChanState(c)'>> \in StreamMoves
      \/ ChanState(c)' = ChanState(c)
  BY <1>1 DEF ChanState, Live, StreamMoves, Struct, StreamOrder
<1> QED
  BY <1>2, <1>3, <1>4, OneStreamStep

LEMMA MainMaps ==
    ASSUME Struct,
           GotoSteps \/ HelloAccepted \/ AcceptFails \/ ServeReturns \/ HookFires \/ Signal
           \/ LoseSession \/ EndSession
    PROVE  ServiceStep
<1>1. CASE HelloAccepted
  <2>1. Chan' = Chan
    BY <1>1, SameStreams DEF HelloAccepted, wireVars, workVars
  <2>2. Service!Connect
    BY <1>1, <2>1 DEF HelloAccepted, Service!Connect, AgentState, LinkState, Chan
  <2> QED
    BY <2>2 DEF ServiceStep, Service!Next
<1>2. CASE GotoSteps
  <2>1. Chan' = Chan
    BY <1>2, SameStreams
    DEF GotoSteps, LoopHead, DialAnswered, DialCancelled, HelloFails, BackoffOver,
        AcceptStream, PauseOver, FlapWait, Goto, wireVars, workVars
  <2>2. \/ pc \in Outside /\ pc' \in Outside \cup {"stopped"}
        \/ pc \in InServe /\ pc' \in InServe
    BY <1>2 DEF GotoSteps, LoopHead, DialAnswered, DialCancelled, HelloFails, BackoffOver,
        AcceptStream, PauseOver, FlapWait, Goto
  <2>3. CASE pc \in Outside /\ pc' = "stopped"
    <3>1. Service!Stop
      BY <2>1, <2>3 DEF Service!Stop, AgentState, LinkState, Chan
    <3> QED
      BY <3>1 DEF ServiceStep, Service!Next
  <2>4. CASE ~(pc \in Outside /\ pc' = "stopped")
    BY <2>1, <2>2, <2>4 DEF ServiceStep, AgentState, LinkState
  <2> QED
    BY <2>3, <2>4
<1>3. CASE AcceptFails \/ ServeReturns \/ HookFires \/ Signal \/ LoseSession
  <2>1. Chan' = Chan
    BY <1>3, SameStreams
    DEF AcceptFails, ServeReturns, HookFires, Signal, LoseSession, wireVars, workVars
  <2>2. \/ pc' = pc
        \/ pc \in InServe /\ pc' \in InServe \cup {"return"}
    BY <1>3 DEF AcceptFails, CountFailure, LeaveServe, ServeReturns, HookFires, Signal, LoseSession
  <2> QED
    BY <2>1, <2>2 DEF ServiceStep, AgentState, LinkState
<1>4. CASE EndSession
  <2>1. \A c \in Channels : ~Live(c)
    BY <1>4 DEF EndSession, Struct, NoHandlerOutlivesServe, NoHandler
  <2>2. Service!NoneServed
    BY <2>1 DEF Service!NoneServed, ChanState
  <2>3. Chan' = [c \in Channels |-> "free"]
    BY <1>4, <2>1 DEF EndSession, Chan, ChanState, Live
  <2>4. Service!Disconnect
    BY <1>4, <2>2, <2>3
    DEF EndSession, Service!Disconnect, Service!AllFree, AgentState, LinkState, Chan
  <2> QED
    BY <2>4 DEF ServiceStep, Service!Next
<1> QED
  BY <1>1, <1>2, <1>3, <1>4

\* Every step of the agent, the SaaS and the transport is a step of
\* ChannelService or leaves what it sees unchanged.
LEMMA StepMaps == Struct /\ [Next]_vars => [Service!Next]_(Service!vars)
<1> SUFFICES ASSUME Struct, [Next]_vars PROVE ServiceStep
  BY DEF ServiceStep, Service!vars, Chan
<1>1. CASE UNCHANGED vars \/ Exited
  <2>1. UNCHANGED <<pc, header, stage>>
    BY <1>1 DEF Exited, vars, mainVars, wireVars, workVars
  <2> QED
    BY <2>1, SameStreams DEF ServiceStep, AgentState, LinkState
<1>2. CASE MainStep \/ HookFires \/ Signal \/ LoseSession \/ DialAnswered
  BY <1>2, JudgingMaps, MainMaps DEF MainStep, GotoSteps, Rejection
<1>3. CASE \E c \in Channels : HandlerStep(c) \/ PeerStep(c)
  BY <1>3, HandlerMaps, WireMaps DEF PeerStep
<1> QED
  BY <1>1, <1>2, <1>3 DEF Next

LEMMA InitMaps == Init => Service!Init
BY DEF Init, FreshStreams, Service!Init, Service!AllFree, AgentState, LinkState, ChanState

\* The agent implements the channel service: a stream is judged once, a served
\* one settles once, no session or process ends under a served channel.
THEOREM Implements == Spec => ImplementsService
<1>1. Init => Service!Init
  BY InitMaps
<1>2. Struct /\ [Next]_vars => [Service!Next]_(Service!vars)
  BY StepMaps
<1> QED
  BY <1>1, <1>2, StructInvariant, PTL DEF Spec, ImplementsService, Service!Spec

-----------------------------------------------------------------------------
(* AgentServe implements CallLog.                                          *)

Ruled == [c \in Channels |-> OutcomeOf(audit[c])]
Logged == [c \in Channels |-> OutcomeOf(logged[c])]

LogStep == Log!Next \/ UNCHANGED <<Running, Ruled, Logged, sent>>

\* A step that starts or ends no call, records and sends nothing.
LEMMA UnseenStep ==
    ASSUME UNCHANGED <<sent, audit, logged>>,
           \A c \in Channels : (stage'[c] = "call") <=> (stage[c] = "call")
    PROVE  LogStep
<1>1. Running' = Running
  BY Zenon DEF Running
<1>2. Ruled' = Ruled /\ Logged' = Logged
  BY DEF Ruled, Logged
<1> QED
  BY <1>1, <1>2 DEF LogStep

\* What a step of a handler other than c's own is to the log.
LEMMA OtherCalls ==
    ASSUME NEW c \in Channels, NEW s, stage \in [Channels -> Stages],
           stage' = [stage EXCEPT ![c] = s]
    PROVE  Running' = [Running EXCEPT ![c] = (s = "call")]
<1>1. \A d \in Channels : stage'[d] = IF d = c THEN s ELSE stage[d]
  OBVIOUS
<1>2. Running' = [d \in Channels |-> stage'[d] = "call"]
  BY DEF Running
<1>3. [Running EXCEPT ![c] = (s = "call")]
        = [d \in Channels |-> IF d = c THEN s = "call" ELSE stage[d] = "call"]
  BY Zenon DEF Running
<1>4. \A d \in Channels :
         (stage'[d] = "call") = (IF d = c THEN s = "call" ELSE stage[d] = "call")
  BY <1>1
<1> QED
  BY <1>2, <1>3, <1>4, Zenon

LEMMA SameCall ==
    ASSUME NEW c \in Channels, NEW s, stage \in [Channels -> Stages],
           stage' = [stage EXCEPT ![c] = s], s # "call", stage[c] # "call"
    PROVE  Running' = Running
<1>1. \A d \in Channels : (stage'[d] = "call") <=> (stage[d] = "call")
  OBVIOUS
<1> QED
  BY <1>1, Zenon DEF Running

\* A record that is made, and written or lost, as the log sees it.
LEMMA RecordMaps ==
    ASSUME Struct, NEW c \in Channels, NEW v \in {"refused", "allowed"}, Record(c, v)
    PROVE  /\ Ruled' = [Ruled EXCEPT ![c] = OutcomeOf(v)]
           /\ Logged' \in {Logged, [Logged EXCEPT ![c] = OutcomeOf(v)]}
<1>1. audit \in [Channels -> {"none", "refused", "allowed"}]
      /\ logged \in [Channels -> {"none", "refused", "allowed"}]
  BY DEF Struct, TypeOK
<1>2. ASSUME NEW f \in [Channels -> {"none", "refused", "allowed"}],
             NEW g, g = [f EXCEPT ![c] = v]
      PROVE  [d \in Channels |-> OutcomeOf(g[d])]
                = [[d \in Channels |-> OutcomeOf(f[d])] EXCEPT ![c] = OutcomeOf(v)]
  <2>1. \A d \in Channels : g[d] = IF d = c THEN v ELSE f[d]
    BY <1>2
  <2> QED
    BY <2>1
<1>3. Ruled' = [Ruled EXCEPT ![c] = OutcomeOf(v)]
  BY <1>1, <1>2 DEF Record, Ruled
<1>4. CASE logged' = logged
  BY <1>3, <1>4 DEF Logged
<1>5. CASE logged' = [logged EXCEPT ![c] = v]
  <2>1. Logged' = [Logged EXCEPT ![c] = OutcomeOf(v)]
    BY <1>1, <1>2, <1>5 DEF Logged
  <2> QED
    BY <1>3, <2>1
<1> QED
  BY <1>4, <1>5 DEF Record

LEMMA CallSteps ==
    ASSUME Struct, NEW c \in Channels, CallStarts(c) \/ CallEnds(c) \/ HandlerPanics(c)
    PROVE  Log!Run(c) \/ Log!Record(c, "output") \/ Log!End(c)
<1>1. stage \in [Channels -> Stages]
  BY DEF Struct, TypeOK
<1>2. audit[c] = "none" /\ sent[c] = "none"
  BY DEF Struct, TypeOK, RecordFollowsCall, CallStarts, CallEnds, HandlerPanics, Move
<1>3. Log!Open(c)
  BY <1>2 DEF Log!Open, OutcomeOf
<1>4. CASE CallStarts(c)
  <2>1. ~Running[c] /\ UNCHANGED <<sent, audit, logged>>
    BY <1>4 DEF CallStarts, Move, Running
  <2>2. Running' = [Running EXCEPT ![c] = ("call" = "call")]
    BY <1>1, <1>4, OtherCalls DEF CallStarts, Move
  <2>3. Running' = [Running EXCEPT ![c] = TRUE]
    BY <2>2
  <2>4. Ruled' = Ruled /\ Logged' = Logged
    BY <2>1 DEF Ruled, Logged
  <2> QED
    BY <1>3, <2>1, <2>3, <2>4 DEF Log!Run, Ruled, Logged
<1>5. CASE CallEnds(c)
  <2>1. Running' = [Running EXCEPT ![c] = ("result" = "call")]
    BY <1>1, <1>5, OtherCalls DEF CallEnds, Move
  <2>2. Running' = [Running EXCEPT ![c] = FALSE]
    BY <2>1
  <2>3. Record(c, "allowed") /\ sent' = sent
    BY <1>5 DEF CallEnds
  <2>4. /\ Ruled' = [Ruled EXCEPT ![c] = "output"]
        /\ Logged' \in {Logged, [Logged EXCEPT ![c] = "output"]}
    BY <2>3, RecordMaps DEF OutcomeOf
  <2> QED
    BY <1>3, <2>2, <2>3, <2>4 DEF Log!Record, Ruled, Logged
<1>6. CASE HandlerPanics(c)
  <2>1. Running[c] /\ UNCHANGED <<sent, audit, logged>>
    BY <1>6 DEF HandlerPanics, Move, Running
  <2>2. Running' = [Running EXCEPT ![c] = ("refuse" = "call")]
    BY <1>1, <1>6, OtherCalls DEF HandlerPanics, Move
  <2>3. Running' = [Running EXCEPT ![c] = FALSE]
    BY <2>2
  <2>4. Ruled' = Ruled /\ Logged' = Logged
    BY <2>1 DEF Ruled, Logged
  <2> QED
    BY <2>1, <2>3, <2>4 DEF Log!End, Ruled, Logged
<1> QED
  BY <1>4, <1>5, <1>6

LEMMA RefusalLogged ==
    ASSUME Struct, NEW c \in Channels, ArgsRefused(c)
    PROVE  LogStep
<1>1. /\ stage \in [Channels -> Stages] /\ stage[c] = "args"
      /\ stage' = [stage EXCEPT ![c] = "refuse"]
      /\ audit[c] = "none" /\ sent[c] = "none" /\ sent' = sent
  BY DEF Struct, TypeOK, RecordFollowsCall, ArgsRefused, Move
<1>2. CASE UNCHANGED auditVars
  <2>1. \A d \in Channels : (stage'[d] = "call") <=> (stage[d] = "call")
    BY <1>1
  <2> QED
    BY <1>1, <1>2, <2>1, UnseenStep
<1>3. CASE Record(c, "refused")
  <2>1. Running' = [Running EXCEPT ![c] = ("refuse" = "call")]
    BY <1>1, OtherCalls
  <2>2. Running' = [Running EXCEPT ![c] = FALSE]
    BY <2>1
  <2>3. /\ Ruled' = [Ruled EXCEPT ![c] = "refused"]
        /\ Logged' \in {Logged, [Logged EXCEPT ![c] = "refused"]}
    BY <1>3, RecordMaps DEF OutcomeOf
  <2>4. Log!Record(c, "refused")
    BY <1>1, <2>2, <2>3 DEF Log!Record, Log!Open, Ruled, Logged, OutcomeOf
  <2> QED
    BY <2>4 DEF LogStep, Log!Next
<1> QED
  BY <1>2, <1>3 DEF ArgsRefused

LEMMA AnswerTold ==
    ASSUME Struct, NEW c \in Channels, WriteOutput(c) \/ WriteRefusal(c)
    PROVE  LogStep
<1>1. PICK o \in {"output", "refused"} :
        /\ stage[c] = IF o = "output" THEN "result" ELSE "refuse"
        /\ stage' = [stage EXCEPT ![c] = "closing"]
        /\ sent' = [sent EXCEPT ![c] = IF sess = "up" THEN o ELSE "none"]
        /\ UNCHANGED <<audit, logged>>
  BY DEF WriteOutput, WriteRefusal, Write, Move
<1>2. stage \in [Channels -> Stages] /\ sent[c] = "none"
  BY <1>1 DEF Struct, TypeOK, RecordFollowsCall
<1>3. Running' = Running /\ Ruled' = Ruled /\ Logged' = Logged
  <2>1. Running' = Running
    BY <1>1, <1>2, SameCall
  <2>2. Ruled' = Ruled /\ Logged' = Logged
    BY <1>1 DEF Ruled, Logged
  <2> QED
    BY <2>1, <2>2
<1>4. CASE sess = "up"
  <2>1. ~Running[c]
    BY <1>1 DEF Running
  <2>2. o = Ruled[c] \/ (Ruled[c] = "none" /\ o = "refused")
    BY <1>1 DEF Ruled, OutcomeOf, Struct, TypeOK, RecordFollowsCall
  <2>3. sent' = [sent EXCEPT ![c] = o]
    BY <1>1, <1>4
  <2>4. Log!Tell(c, o)
    BY <1>2, <1>3, <2>1, <2>2, <2>3 DEF Log!Tell, Ruled, Logged
  <2> QED
    BY <2>4 DEF LogStep, Log!Next
<1>5. CASE sess # "up"
  <2>1. sent' = sent
    BY <1>1, <1>2, <1>5 DEF Struct, TypeOK
  <2> QED
    BY <1>3, <2>1 DEF LogStep
<1> QED
  BY <1>4, <1>5

LEMMA HandlerLogs ==
    ASSUME Struct, NEW c \in Channels, HandlerStep(c) \/ LocalStep(c)
    PROVE  LogStep
<1>1. CASE CallStarts(c) \/ CallEnds(c) \/ HandlerPanics(c)
  BY <1>1, CallSteps DEF LogStep, Log!Next
<1>2. CASE ArgsRefused(c)
  BY <1>2, RefusalLogged
<1>3. CASE WriteOutput(c) \/ WriteRefusal(c)
  BY <1>3, AnswerTold
<1>4. CASE DialTarget(c) \/ DialFails(c) \/ PipeEnds(c) \/ LocalStep(c) \/ HandlerDone(c)
  <2>1. /\ UNCHANGED <<sent, audit, logged>>
        /\ stage[c] # "call"
        /\ \E s \in {"pipe", "stuck", "closing", "done"} :
              stage' = [stage EXCEPT ![c] = s]
    BY <1>4 DEF DialTarget, DialFails, PipeEnds, LocalStep, LocalStalls, LocalReads,
                LocalCloses, HandlerDone, Move
  <2>2. \A d \in Channels : (stage'[d] = "call") <=> (stage[d] = "call")
    BY <2>1 DEF Struct, TypeOK
  <2> QED
    BY <2>1, <2>2, UnseenStep
<1> QED
  BY <1>1, <1>2, <1>3, <1>4 DEF HandlerStep

LEMMA JudgingLogs ==
    ASSUME Struct, Rejection \/ HeaderAccepted
    PROVE  LogStep
<1>1. /\ backlog # << >>
      /\ UNCHANGED <<sent, audit, logged>>
      /\ \E v \in TurnedAway \cup {"args", "dial", "refuse"} :
            stage' = [stage EXCEPT ![cur] = v]
  BY DEF Rejection, HeaderRejected, HeaderTimeout, HeaderEOF, AcceptDrops, HeaderAccepted,
         Judge, Dispatch, Struct, BacklogUnjudged
<1>2. cur \in Channels /\ stage[cur] = "idle"
  BY <1>1, BacklogTail
<1>3. \A d \in Channels : (stage'[d] = "call") <=> (stage[d] = "call")
  BY <1>1, <1>2 DEF Struct, TypeOK
<1> QED
  BY <1>1, <1>3, UnseenStep

\* Closing the session drops its streams, none of them with a call running.
LEMMA SessionRenews == Struct /\ EndSession => LogStep
<1> SUFFICES ASSUME Struct, EndSession PROVE Log!Renew
  BY DEF LogStep, Log!Next
<1>1. \A c \in Channels : ~Live(c)
  BY DEF EndSession, Struct, NoHandlerOutlivesServe, NoHandler
<1>2. \A c \in Channels : stage[c] # "call" /\ stage'[c] = "idle"
  BY <1>1 DEF EndSession, Live
<1>3. \A c \in Channels : ~Running[c]
  BY <1>2 DEF Running
<1>4. Running' = [c \in Channels |-> FALSE]
  <2>1. \A c \in Channels : (stage'[c] = "call") = FALSE
    BY <1>2
  <2> QED
    BY <2>1, Zenon DEF Running
<1>5. /\ Ruled' = [c \in Channels |-> "none"]
      /\ Logged' = [c \in Channels |-> "none"]
      /\ sent' = [c \in Channels |-> "none"]
  BY DEF EndSession, Ruled, Logged, OutcomeOf
<1> QED
  BY <1>3, <1>4, <1>5 DEF Log!Renew, Log!Fresh, Ruled, Logged

LEMMA StepLogs == Struct /\ [Next]_vars => [Log!Next]_(Log!vars)
<1> SUFFICES ASSUME Struct, [Next]_vars PROVE LogStep
  BY DEF LogStep, Log!vars, Ruled, Logged
<1>1. CASE \/ UNCHANGED vars \/ Exited \/ GotoSteps \/ HelloAccepted \/ AcceptFails
           \/ ServeReturns \/ HookFires \/ Signal \/ LoseSession
           \/ \E c \in Channels :
                 OpenStream(c) \/ SendHeader(c) \/ SendArgs(c) \/ PeerClose(c)
  <2>1. UNCHANGED <<stage, sent, audit, logged>>
    BY <1>1 DEF Exited, GotoSteps, LoopHead, DialAnswered, DialCancelled, HelloFails,
        BackoffOver, AcceptStream, PauseOver, FlapWait, Goto, HelloAccepted, AcceptFails,
        ServeReturns, HookFires, Signal, LoseSession, OpenStream, SendHeader, SendArgs,
        PeerClose, vars, workVars
  <2> QED
    BY <2>1, UnseenStep
<1>2. CASE Rejection \/ HeaderAccepted
  BY <1>2, JudgingLogs
<1>3. CASE EndSession
  BY <1>3, SessionRenews
<1>4. CASE \E c \in Channels : HandlerStep(c) \/ LocalStep(c)
  BY <1>4, HandlerLogs
<1> QED
  BY <1>1, <1>2, <1>3, <1>4 DEF Next, MainStep, GotoSteps, PeerStep, Rejection

LEMMA InitLogs == Init => Log!Init
<1> SUFFICES ASSUME Init PROVE Log!Init
  OBVIOUS
<1>1. Running = [c \in Channels |-> FALSE]
  <2>1. \A c \in Channels : (stage[c] = "call") = FALSE
    BY DEF Init, FreshStreams
  <2> QED
    BY <2>1, Zenon DEF Running
<1> QED
  BY <1>1 DEF Init, FreshStreams, Log!Init, Log!Fresh, OutcomeOf

\* The agent keeps the call log: a tool channel is answered after its call is
\* over and its record was put to the log, with what the record says, and once.
THEOREM KeepsLog == Spec => ImplementsLog
<1>1. Init => Log!Init
  BY InitLogs
<1>2. Struct /\ [Next]_vars => [Log!Next]_(Log!vars)
  BY StepLogs
<1> QED
  BY <1>1, <1>2, StructInvariant, PTL DEF Spec, ImplementsLog, Log!Spec
=============================================================================
