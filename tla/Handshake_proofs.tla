-------------------------- MODULE Handshake_proofs --------------------------
(* Proofs about how a tunnel begins and what the agent records of it, for  *)
(* any number of connections, any agent builds, any window of versions and *)
(* anything the SaaS may report.                                           *)
EXTENDS Handshake, SequenceTheorems, TLAPS

\* The conjuncts of IndInv other than the last.
TunnelInv ==
    /\ TypeOK /\ WireIsCleared /\ HelloFirst /\ VerdictStands /\ RecordedSoFar
    /\ AdvisoryIsHonest

USE HandshakeAssumption DEF TunnelInv

Frames == {"stream", "hello", "kill"}

LEMMA FrameSeqs ==
    ASSUME NEW S, NEW s \in Seq(S)
    PROVE  /\ Len(s) \in Nat /\ DOMAIN s = 1..Len(s)
           /\ \A i \in 1..Len(s) : s[i] \in S
           /\ \A e \in S : /\ Append(s, e) \in Seq(S) /\ Append(s, e) # << >>
                           /\ Len(Append(s, e)) = Len(s) + 1
                           /\ \A i \in 1..Len(s) : Append(s, e)[i] = s[i]
                           /\ Append(s, e)[Len(s) + 1] = e
           /\ s # << >> => /\ Head(s) = s[1] /\ Head(s) \in S /\ Len(s) >= 1
                           /\ Tail(s) \in Seq(S) /\ Len(Tail(s)) = Len(s) - 1
                           /\ \A i \in 1..Len(s) - 1 : Tail(s)[i] = s[i + 1]
           /\ \A t \in Prefixes(s) : /\ t \in Seq(S) /\ Len(t) <= Len(s)
                                     /\ \A i \in 1..Len(t) : t[i] = s[i]
           /\ s = << >> => Prefixes(s) = {<< >>}
<1>1. Len(s) \in Nat /\ DOMAIN s = 1..Len(s) /\ \A i \in 1..Len(s) : s[i] \in S
  BY LenProperties, ElementOfSeq
<1>2. ASSUME NEW e \in S
      PROVE  /\ Append(s, e) \in Seq(S) /\ Append(s, e) # << >>
             /\ Len(Append(s, e)) = Len(s) + 1
             /\ \A i \in 1..Len(s) : Append(s, e)[i] = s[i]
             /\ Append(s, e)[Len(s) + 1] = e
  BY <1>1, AppendProperties, EmptySeq
<1>3. s # << >> => /\ Head(s) = s[1] /\ Head(s) \in S /\ Len(s) >= 1
                   /\ Tail(s) \in Seq(S) /\ Len(Tail(s)) = Len(s) - 1
                   /\ \A i \in 1..Len(s) - 1 : Tail(s)[i] = s[i + 1]
  BY <1>1, HeadTailProperties, EmptySeq
<1>4. ASSUME NEW l \in 0..Len(s)
      PROVE  /\ SubSeq(s, 1, l) \in Seq(S) /\ Len(SubSeq(s, 1, l)) = l
             /\ \A i \in 1..l : SubSeq(s, 1, l)[i] = s[i]
  BY <1>1, SubSeqProperties
<1>5. \A t \in Prefixes(s) : /\ t \in Seq(S) /\ Len(t) <= Len(s)
                             /\ \A i \in 1..Len(t) : t[i] = s[i]
  BY <1>1, <1>4 DEF Prefixes
<1>6. s = << >> => Prefixes(s) = {<< >>}
  <2> SUFFICES ASSUME s = << >> PROVE Prefixes(s) = {<< >>}
    OBVIOUS
  <2>1. Len(s) = 0
    BY EmptySeq
  <2>2. SubSeq(s, 1, 0) = << >>
    BY SubSeqEmpty
  <2>3. 0..Len(s) = {0}
    BY <2>1
  <2> QED
    BY <2>2, <2>3 DEF Prefixes
<1> QED
  BY <1>1, <1>2, <1>3, <1>5, <1>6

LEMMA InitOK == Init => TunnelInv
<1> SUFFICES ASSUME Init PROVE TunnelInv
  OBVIOUS
<1>1. << >> \in Seq(Frames) /\ << >> \in Seq(Acks) /\ DOMAIN << >> = {}
  BY EmptySeq, LenProperties
<1>2. TypeOK
  <2>1. NoAck \in Acks /\ ~NoAck.accepted
    BY DEF NoAck, Acks, Advice
  <2>2. hello \in [Conns -> Hellos]
    BY DEF Init, SomeHello
  <2> QED
    BY <1>1, <2>1, <2>2
       DEF Init, TypeOK, AgentPlaces, SaasPlaces, Recording, FirstRecord, Advised, Frames
<1>3. WireIsCleared /\ HelloFirst /\ VerdictStands /\ RecordedSoFar /\ AdvisoryIsHonest
  BY <1>1 DEF Init, WireIsCleared, HelloFirst, VerdictStands, RecordedSoFar, AdvisoryIsHonest
<1> QED
  BY <1>2, <1>3

-----------------------------------------------------------------------------
(* The agent.                                                              *)

LEMMA LeaveOK ==
    ASSUME TunnelInv, at \in Conns, Leave(outcome'),
           outcome' \in {"none", "accepted", "refused", "timeout", "hungup", "stopped"}
    PROVE  TunnelInv'
<1> USE DEF Leave
<1>1. << >> \in Seq(Acks) /\ DOMAIN << >> = {}
  BY EmptySeq, LenProperties
<1>2. TypeOK'
  <2>1. NoAck \in Acks /\ ~NoAck.accepted
    BY DEF NoAck, Acks, Advice
  <2>2. down' \in [Conns -> Seq(Acks)]
    BY <1>1 DEF TypeOK
  <2> QED
    BY <2>1, <2>2 DEF TypeOK, AgentPlaces, Recording, FirstRecord, Advised
<1>3. \A c \in Conns : down'[c] = IF c = at THEN << >> ELSE down[c]
  BY DEF TypeOK
<1>4. WireIsCleared' /\ HelloFirst'
  BY <1>3 DEF WireIsCleared, HelloFirst, Closed
<1>5. VerdictStands'
  BY <1>1, <1>3 DEF VerdictStands, Accepted
<1>6. RecordedSoFar' /\ AdvisoryIsHonest'
  BY DEF RecordedSoFar, AdvisoryIsHonest, Told
<1> QED
  BY <1>2, <1>4, <1>5, <1>6

LEMMA ConnectOK == ASSUME TunnelInv, NEW c \in Conns, NEW h \in Hellos, Connect(c, h) PROVE TunnelInv'
<1> USE DEF Connect, fileVars
<1>1. /\ at = Nobody /\ up[c] = << >> /\ down[c] = << >> /\ DOMAIN << >> = {}
      /\ \A d \in Conns : /\ hello'[d] = IF d = c THEN h ELSE hello[d]
                          /\ saas'[d] = IF d = c THEN "stream" ELSE saas[d]
                          /\ link'[d] = IF d = c THEN "up" ELSE link[d]
  BY EmptySeq, LenProperties DEF TypeOK, WireIsCleared
<1>2. TypeOK'
  BY DEF TypeOK, AgentPlaces, SaasPlaces
<1>3. WireIsCleared' /\ HelloFirst'
  BY <1>1 DEF WireIsCleared, HelloFirst, Closed
<1>4. VerdictStands'
  BY <1>1 DEF VerdictStands, Accepted
<1>5. RecordedSoFar' /\ AdvisoryIsHonest'
  BY DEF RecordedSoFar, AdvisoryIsHonest, Told, TypeOK
<1> QED
  BY <1>2, <1>3, <1>4, <1>5

\* What the agent writes goes to the end of the wire, or nowhere.
LEMMA SendsOK ==
    ASSUME TunnelInv, OpenControl \/ SendHello \/ SendKillSwitch
    PROVE  TunnelInv'
<1>1. PICK frame \in Frames : /\ Up(at, frame)
                              /\ \/ agent = "open" /\ agent' = "hello"
                                 \/ agent = "hello" /\ agent' = "ack"
                                 \/ agent = "serve" /\ agent' = "serve"
  BY DEF OpenControl, SendHello, SendKillSwitch, agentVars, Frames
<1>2. /\ UNCHANGED <<at, doing, outcome, ack, link, hello, saas, armed, down, file, failed>>
      /\ killed' \in [Conns -> BOOLEAN] /\ at \in Conns
  BY DEF OpenControl, SendHello, SendKillSwitch, agentVars, fileVars, TypeOK
<1>3. /\ up' \in [Conns -> Seq(Frames)]
      /\ \A c \in Conns : c # at \/ Closed(c) => up'[c] = up[c]
      /\ up[at] = << >> => Len(up'[at]) <= 1
  <2>1. up \in [Conns -> Seq(Frames)]
    BY DEF TypeOK, Frames
  <2>2. CASE up' = up
    BY <1>2, <2>1, <2>2, EmptySeq
  <2>3. CASE up' # up
    <3>1. up' = [up EXCEPT ![at] = Append(up[at], frame)] /\ ~Closed(at)
      BY <1>1, <2>3 DEF Up
    <3>2. Append(up[at], frame) \in Seq(Frames) /\ Len(Append(up[at], frame)) = Len(up[at]) + 1
      BY <1>2, <2>1, FrameSeqs
    <3>3. up[at] = << >> => Len(up[at]) = 0
      BY EmptySeq
    <3> QED
      BY <1>2, <2>1, <3>1, <3>2, <3>3
  <2> QED
    BY <2>2, <2>3
<1>4. TypeOK'
  BY <1>1, <1>2, <1>3 DEF TypeOK, AgentPlaces, Frames
<1>5. WireIsCleared'
  BY <1>2, <1>3 DEF WireIsCleared, Closed, HelloFirst, TypeOK
<1>6. HelloFirst'
  <2> SUFFICES ASSUME agent = "open", agent' = "hello" PROVE HelloFirst'
    BY <1>1 DEF HelloFirst
  <2>1. up[at] = << >> /\ saas[at] \in {"stream", "failed"}
    BY DEF HelloFirst
  <2>2. Len(up'[at]) <= 1
    BY <1>3, <2>1
  <2> QED
    BY <1>2, <2>1, <2>2 DEF HelloFirst
<1>7. VerdictStands'
  BY <1>1, <1>2 DEF VerdictStands, Accepted, HelloFirst
<1>8. RecordedSoFar' /\ AdvisoryIsHonest'
  BY <1>1, <1>2 DEF RecordedSoFar, AdvisoryIsHonest, Told
<1> QED
  BY <1>4, <1>5, <1>6, <1>7, <1>8

LEMMA ReadAckOK == ASSUME TunnelInv, ReadAck PROVE TunnelInv'
<1> USE DEF ReadAck, fileVars
<1>1. at \in Conns /\ down[at] \in Seq(Acks) /\ down[at] # << >>
  BY DEF TypeOK
<1>2. /\ DOMAIN down[at] = 1..Len(down[at]) /\ Len(down[at]) \in Nat
      /\ Head(down[at]) \in Acks /\ Tail(down[at]) \in Seq(Acks)
      /\ DOMAIN Tail(down[at]) = 1..Len(down[at]) - 1
      /\ \A i \in 1..Len(down[at]) - 1 : Tail(down[at])[i] = down[at][i + 1]
  BY <1>1, FrameSeqs
<1>3. TypeOK'
  BY <1>1, <1>2 DEF TypeOK, AgentPlaces
<1>4. \A c \in Conns : down'[c] = IF c = at THEN Tail(down[at]) ELSE down[c]
  BY DEF TypeOK
<1>5. WireIsCleared' /\ HelloFirst'
  BY <1>4 DEF WireIsCleared, HelloFirst, Closed
<1>6. VerdictStands'
  <2>1. \A i \in DOMAIN Tail(down[at]) : Tail(down[at])[i].accepted <=> Accepted(hello[at])
    BY <1>1, <1>2 DEF VerdictStands
  <2> QED
    BY <1>4, <2>1 DEF VerdictStands, Accepted
<1>7. RecordedSoFar' /\ AdvisoryIsHonest'
  BY DEF RecordedSoFar, AdvisoryIsHonest, Told, FirstRecord
<1> QED
  BY <1>3, <1>5, <1>6, <1>7

\* A step of the recording, done or failed.
LEMMA RecordOK == ASSUME TunnelInv, NEW f \in Advised, Record(f) PROVE TunnelInv'
<1>1. /\ UNCHANGED <<at, outcome, ack, link, hello, saas, armed, up, down, killed>>
      /\ agent = "record" /\ doing[2] = f /\ doing \in Recording \X Advised
      /\ file' \in [Advised -> Reports \cup {Half}] /\ failed' \subseteq Advised
  <2>1. Told(f) \in Reports
    BY DEF Told, TypeOK, Acks, Advice
  <2> QED
    BY <2>1 DEF Record, Compare, Write, Rename, RecordFails, At, sideVars, fileVars, TypeOK, Recording
<1>2. \/ /\ agent' = "record" /\ doing' \in {<<"write", f>>, <<"rename", f>>}
         /\ UNCHANGED <<file, failed>>
      \/ /\ \A g \in Advised : g # f => file'[g] = file[g]
         /\ \/ file'[f] = Told(f) /\ failed' = failed
            \/ file' = file /\ failed' = failed \cup {f}
         /\ Recorded(f)
  <2>1. CASE Compare(f)
    <3>1. file \in [Advised -> Reports \cup {Half}]
      BY DEF TypeOK
    <3>2. CASE Told(f) \in {Nothing, file[f]}
      BY <2>1, <3>1, <3>2 DEF Compare
    <3>3. CASE Told(f) \notin {Nothing, file[f]}
      BY <1>1, <2>1, <3>3 DEF Compare, Goto
    <3> QED
      BY <3>2, <3>3
  <2>2. CASE Write(f)
    BY <1>1, <2>2 DEF Write, Goto, fileVars
  <2>3. CASE Rename(f)
    BY <2>3 DEF Rename, TypeOK
  <2>4. CASE RecordFails(f)
    BY <2>4 DEF RecordFails
  <2> QED
    BY <2>1, <2>2, <2>3, <2>4 DEF Record
<1>3. /\ Told(f) \in Reports /\ \A g \in Advised : Told(g)' = Told(g)
      /\ Advised = {"console-origins", "current-release"}
  BY <1>1 DEF Told, TypeOK, Acks, Advice, Advised
<1>4. \/ /\ agent' = "record" /\ doing' \in Recording \X Advised /\ doing'[2] = f
         /\ UNCHANGED <<file, failed>>
      \/ /\ agent' = "record" /\ f = "console-origins" /\ Recorded(f)
         /\ doing' = <<"compare", "current-release">>
      \/ /\ agent' = "serve" /\ f = "current-release" /\ Recorded(f)
         /\ doing' = FirstRecord
  BY <1>1, <1>2, <1>3 DEF Recorded, Goto, Recording
<1>5. TypeOK'
  BY <1>1, <1>4 DEF TypeOK, AgentPlaces, Recording, Advised, FirstRecord
<1>6. WireIsCleared' /\ HelloFirst' /\ VerdictStands'
  BY <1>1, <1>4 DEF WireIsCleared, HelloFirst, VerdictStands, Closed, Accepted
<1>7. AdvisoryIsHonest'
  <2>1. \A g \in Advised : file'[g] # Half
    BY <1>2, <1>3 DEF AdvisoryIsHonest
  <2>2. ASSUME agent' = "serve", NEW g \in Advised, g \notin failed' PROVE file'[g] = Told(g)
    <3>1. f = "current-release" /\ Recorded(f)
      BY <1>2, <1>4, <2>2
    <3>2. CASE g = f
      BY <1>2, <2>2, <3>2
    <3>3. CASE g # f
      BY <1>1, <1>2, <1>3, <2>2, <3>1, <3>3 DEF RecordedSoFar
    <3> QED
      BY <3>2, <3>3
  <2> QED
    BY <1>3, <2>1, <2>2 DEF AdvisoryIsHonest
<1>8. RecordedSoFar'
  BY <1>1, <1>2, <1>3, <1>4 DEF RecordedSoFar
<1> QED
  BY <1>5, <1>6, <1>7, <1>8
-----------------------------------------------------------------------------
(* The SaaS and the wire.                                                  *)

\* Steps that leave the agent and its files alone.
Away == UNCHANGED <<agentVars, fileVars>>

LEMMA AwayOK ==
    ASSUME TunnelInv, Away, TypeOK', WireIsCleared', HelloFirst', VerdictStands'
    PROVE  TunnelInv'
  BY DEF Away, agentVars, fileVars, RecordedSoFar, AdvisoryIsHonest, Told

\* The SaaS is off the connection.
LEMMA ClosesOK ==
    ASSUME TunnelInv, NEW c \in Conns, NEW how \in {"over", "failed", "deaf"}, Close(c, how),
           Away, UNCHANGED <<link, hello>>,
           killed' \in [Conns -> BOOLEAN], down' \in [Conns -> Seq(Acks)],
           how = "deaf" => saas[c] = "session",
           how = "over" /\ at = c =>
              /\ agent \notin {"open", "hello"}
              /\ link[c] = "up" => Accepted(hello[c]) \/ down'[c] # << >>,
           \A d \in Conns :
              /\ d # c => down'[d] = down[d]
              /\ at # d => down'[d] = down[d]
              /\ \A i \in DOMAIN down'[d] : down'[d][i].accepted <=> Accepted(hello[d])
    PROVE  TunnelInv'
<1> USE DEF Away, agentVars, Close
<1>1. << >> \in Seq(Frames)
  BY EmptySeq
<1>2. \A d \in Conns : /\ saas'[d] = IF d = c THEN how ELSE saas[d]
                       /\ up'[d] = IF d = c THEN << >> ELSE up[d]
  BY DEF TypeOK
<1>3. TypeOK'
  BY <1>1 DEF TypeOK, SaasPlaces, Frames, fileVars
<1>a. UNCHANGED <<at, agent>>
  OBVIOUS
<1>4. WireIsCleared'
  <2> SUFFICES ASSUME NEW d \in Conns
               PROVE  /\ saas'[d] \in {"over", "failed", "free"} => up'[d] = << >>
                      /\ at # d => down'[d] = << >>
                      /\ at = d => saas'[d] # "free"
    BY <1>a DEF WireIsCleared, Closed
  <2>1. /\ saas[d] \in {"over", "failed", "free"} => up[d] = << >>
        /\ at # d => down[d] = << >>
        /\ at = d => saas[d] # "free"
    BY DEF WireIsCleared, Closed
  <2> QED
    BY <1>2, <2>1
<1>5. HelloFirst'
  <2>1. CASE at # c
    BY <1>2, <2>1 DEF HelloFirst, TypeOK
  <2>2. CASE at = c /\ agent \in {"open", "hello"}
    <3>1. saas[c] # "session"
      BY <2>2 DEF HelloFirst
    <3> QED
      BY <1>2, <2>2, <3>1 DEF HelloFirst
  <2> QED
    BY <2>1, <2>2 DEF HelloFirst
<1>6. VerdictStands'
  <2> SUFFICES ASSUME NEW d \in Conns
               PROVE  /\ \A i \in DOMAIN down'[d] : down'[d][i].accepted <=> Accepted(hello[d])
                      /\ saas'[d] \in {"session", "deaf"} => Accepted(hello[d])
                      /\ (at = d /\ agent = "ack" /\ saas'[d] = "over" /\ link[d] = "up")
                         => Accepted(hello[d]) \/ down'[d] # << >>
    BY <1>a DEF VerdictStands, Accepted
  <2>1. CASE d = c
    BY <1>2, <2>1 DEF VerdictStands
  <2>2. CASE d # c
    BY <1>2, <2>2 DEF VerdictStands
  <2> QED
    BY <2>1, <2>2
<1> QED
  BY <1>3, <1>4, <1>5, <1>6, AwayOK

LEMMA AcceptsOK == ASSUME TunnelInv, NEW c \in Conns, AcceptControl(c) \/ ReadHello(c) PROVE TunnelInv'
<1>1. /\ Away /\ UNCHANGED <<link, hello, down, killed>> /\ up[c] # << >>
      /\ up' = [up EXCEPT ![c] = Tail(@)] /\ armed' \in [Conns -> BOOLEAN]
      /\ \/ saas[c] = "stream" /\ saas' = [saas EXCEPT ![c] = "hello"]
         \/ saas[c] = "hello" /\ saas' = [saas EXCEPT ![c] = "answer"]
  BY DEF AcceptControl, ReadHello, Away, TypeOK
<1>2. /\ up[c] \in Seq(Frames) /\ Tail(up[c]) \in Seq(Frames)
      /\ Len(Tail(up[c])) = Len(up[c]) - 1 /\ Len(up[c]) \in Nat /\ Len(up[c]) >= 1
  BY <1>1, FrameSeqs DEF TypeOK, Frames
<1>3. TypeOK'
  BY <1>1, <1>2 DEF TypeOK, SaasPlaces, Frames, Away, agentVars, fileVars
<1>4. \A d \in Conns : d # c => saas'[d] = saas[d] /\ up'[d] = up[d]
  BY <1>1 DEF TypeOK
<1>5. /\ \/ saas[c] = "stream" /\ saas'[c] = "hello"
         \/ saas[c] = "hello" /\ saas'[c] = "answer"
      /\ up'[c] = Tail(up[c])
  BY <1>1 DEF TypeOK
<1>6. WireIsCleared'
  BY <1>1, <1>4, <1>5 DEF WireIsCleared, Closed, Away, agentVars
<1>7. HelloFirst'
  <2>1. CASE at # c
    BY <1>1, <1>4, <2>1 DEF HelloFirst, TypeOK, Away, agentVars
  <2>2. CASE at = c /\ agent = "open"
    BY <1>1, <2>2 DEF HelloFirst
  <2>3. CASE at = c /\ agent = "hello"
    <3>1. saas[c] = "stream" /\ Len(up[c]) <= 1 /\ saas'[c] = "hello"
      BY <1>1, <1>5, <2>3 DEF HelloFirst
    <3>2. \A n, m : n \in Nat /\ n >= 1 /\ n <= 1 /\ m = n - 1 => m = 0
      OBVIOUS
    <3>3. Len(Tail(up[c])) = 0
      BY <1>2, <3>1, <3>2, Zenon
    <3>4. up'[c] = << >>
      BY <1>2, <1>5, <3>3, EmptySeq
    <3> QED
      BY <1>1, <2>3, <3>1, <3>4 DEF HelloFirst, Away, agentVars
  <2> QED
    BY <1>1, <2>1, <2>2, <2>3 DEF HelloFirst, Away, agentVars
<1>8. VerdictStands'
  BY <1>1, <1>4, <1>5 DEF VerdictStands, Accepted, Away, agentVars
<1> QED
  BY <1>1, <1>3, <1>6, <1>7, <1>8, AwayOK

\* What Accept's answer adds to the wire.
LEMMA DownOK ==
    ASSUME TunnelInv, NEW c \in Conns, NEW a \in Answers(c), Down(c, a), saas[c] = "answer"
    PROVE  /\ down' \in [Conns -> Seq(Acks)]
           /\ at = c /\ link[c] = "up" => down'[c] # << >>
           /\ \A d \in Conns : /\ d # c => down'[d] = down[d]
                               /\ at # d => down'[d] = down[d]
                               /\ \A i \in DOMAIN down'[d] :
                                     down'[d][i].accepted <=> Accepted(hello[d])
<1>1. a \in Acks /\ a.accepted = Accepted(hello[c])
  BY DEF Answers
<1>2. down \in [Conns -> Seq(Acks)] /\ down[c] \in Seq(Acks)
  BY DEF TypeOK
<1>3. CASE down' = [down EXCEPT ![c] = Append(down[c], a)] /\ at = c
  <2>1. /\ Append(down[c], a) \in Seq(Acks) /\ Append(down[c], a) # << >>
        /\ DOMAIN down[c] = 1..Len(down[c]) /\ Len(down[c]) \in Nat
        /\ Len(Append(down[c], a)) = Len(down[c]) + 1
        /\ \A i \in 1..Len(down[c]) : Append(down[c], a)[i] = down[c][i]
        /\ Append(down[c], a)[Len(down[c]) + 1] = a
    BY <1>1, <1>2, FrameSeqs
  <2>2. DOMAIN Append(down[c], a) = 1..Len(down[c]) + 1
    BY <2>1, LenProperties
  <2>3. \A i \in DOMAIN Append(down[c], a) : Append(down[c], a)[i].accepted <=> Accepted(hello[c])
    BY <1>1, <2>1, <2>2 DEF VerdictStands
  <2> QED
    BY <1>2, <1>3, <2>1, <2>3 DEF VerdictStands
<1>4. CASE down' = down /\ ~(at = c /\ link[c] = "up")
  BY <1>2, <1>4 DEF VerdictStands
<1> QED
  BY <1>3, <1>4 DEF Down

LEMMA AnswerOK == ASSUME TunnelInv, NEW c \in Conns, Answer(c) PROVE TunnelInv'
<1>1. PICK a \in Answers(c) : Down(c, a) /\ Verdict(c, a)
  BY DEF Answer
<1>2. saas[c] = "answer" /\ UNCHANGED <<agentVars, link, hello, killed, fileVars>>
  BY DEF Answer
<1>3. at = c => agent \notin {"open", "hello"}
  BY <1>2 DEF HelloFirst
<1>4. CASE a.accepted
  <2>1. /\ saas' = [saas EXCEPT ![c] = "session"] /\ armed' = [armed EXCEPT ![c] = FALSE]
        /\ up' = up /\ Accepted(hello[c])
    BY <1>1, <1>4 DEF Verdict, Answers
  <2>2. TypeOK'
    BY <1>1, <1>2, <2>1, DownOK DEF TypeOK, SaasPlaces, agentVars, fileVars
  <2>3. WireIsCleared'
    BY <1>1, <1>2, <2>1, DownOK DEF WireIsCleared, Closed, agentVars, TypeOK
  <2>4. HelloFirst'
    BY <1>2, <1>3, <2>1 DEF HelloFirst, agentVars, TypeOK
  <2>5. VerdictStands'
    <3>1. \A d \in Conns : \A i \in DOMAIN down'[d] : down'[d][i].accepted <=> Accepted(hello[d])
      BY <1>1, <1>2, DownOK
    <3>2. \A d \in Conns : saas'[d] = IF d = c THEN "session" ELSE saas[d]
      BY <2>1 DEF TypeOK
    <3>3. \A d \in Conns : d # c => down'[d] = down[d]
      BY <1>1, <1>2, DownOK
    <3> QED
      BY <1>2, <2>1, <3>1, <3>2, <3>3 DEF VerdictStands, Accepted, agentVars
  <2> QED
    BY <1>2, <2>2, <2>3, <2>4, <2>5, AwayOK DEF Away
<1>5. CASE ~a.accepted
  <2>1. Close(c, "over")
    BY <1>1, <1>5 DEF Verdict
  <2>2. Away /\ UNCHANGED <<link, hello>> /\ killed' \in [Conns -> BOOLEAN]
    BY <1>2 DEF Away, TypeOK
  <2> QED
    BY <1>1, <1>2, <1>3, <2>1, <2>2, DownOK, ClosesOK
<1> QED
  BY <1>4, <1>5

LEMMA AnswerFailsOK == ASSUME TunnelInv, NEW c \in Conns, AnswerFails(c) PROVE TunnelInv'
<1>1. /\ saas[c] = "answer" /\ Close(c, "failed")
      /\ UNCHANGED <<agentVars, link, hello, killed, fileVars>>
  BY DEF AnswerFails
<1>2. Away /\ UNCHANGED <<link, hello>> /\ killed' \in [Conns -> BOOLEAN]
  BY <1>1 DEF Away, TypeOK
<1>3. CASE UNCHANGED down
  <2>1. /\ down' \in [Conns -> Seq(Acks)]
        /\ \A d \in Conns : \A i \in DOMAIN down'[d] : down'[d][i].accepted <=> Accepted(hello[d])
    BY <1>3 DEF TypeOK, VerdictStands
  <2> QED
    BY <1>1, <1>2, <1>3, <2>1, ClosesOK
<1>4. CASE \E a \in Answers(c) : Down(c, a)
  BY <1>1, <1>2, <1>4, DownOK, ClosesOK
<1> QED
  BY <1>3, <1>4 DEF AnswerFails

LEMMA SaasClosesOK ==
    ASSUME TunnelInv, NEW c \in Conns,
           Deadline(c) \/ HangUp(c) \/ HearKillSwitch(c) \/ SaasCloses(c)
    PROVE  TunnelInv'
<1>1. PICK how \in {"over", "failed", "deaf"} :
        /\ Close(c, how)
        /\ how = "deaf" => saas[c] = "session"
        /\ how = "over" => saas[c] \in {"session", "deaf"}
  BY DEF Deadline, HangUp, HearKillSwitch, SaasCloses
<1>2. UNCHANGED <<agentVars, link, hello, down, killed, fileVars>>
  BY DEF Deadline, HangUp, HearKillSwitch, SaasCloses
<1>3. /\ Away /\ UNCHANGED <<link, hello>> /\ killed' \in [Conns -> BOOLEAN]
      /\ down' \in [Conns -> Seq(Acks)]
      /\ \A d \in Conns : \A i \in DOMAIN down'[d] : down'[d][i].accepted <=> Accepted(hello[d])
  BY <1>2 DEF Away, TypeOK, VerdictStands
<1>4. saas[c] \in {"session", "deaf"} =>
         Accepted(hello[c]) /\ (at = c => agent \notin {"open", "hello"})
  BY DEF VerdictStands, HelloFirst
<1> QED
  BY <1>1, <1>2, <1>3, <1>4, ClosesOK

LEMMA ForgottenOK == ASSUME TunnelInv, NEW c \in Conns, Forgotten(c) PROVE TunnelInv'
<1> USE DEF Forgotten, agentVars
<1>1. /\ down[c] = << >> /\ up[c] = << >> /\ DOMAIN << >> = {} /\ at # c
      /\ \A d \in Conns : /\ saas'[d] = IF d = c THEN "free" ELSE saas[d]
                          /\ link'[d] = IF d = c THEN "none" ELSE link[d]
                          /\ d # c => hello'[d] = hello[d]
  BY EmptySeq, LenProperties DEF WireIsCleared, TypeOK
<1>2. TypeOK'
  <2>1. SomeHello \in Hellos
    BY DEF SomeHello
  <2> QED
    BY <2>1 DEF TypeOK, SaasPlaces, fileVars
<1>3. WireIsCleared' /\ HelloFirst'
  BY <1>1 DEF WireIsCleared, HelloFirst, Closed, TypeOK
<1>4. VerdictStands'
  BY <1>1 DEF VerdictStands, Accepted
<1> QED
  BY <1>2, <1>3, <1>4, AwayOK DEF Away

LEMMA LinkDiesOK == ASSUME TunnelInv, NEW c \in Conns, LinkDies(c) PROVE TunnelInv'
<1>1. /\ Away /\ UNCHANGED <<hello, saas, armed, killed>>
      /\ link' = [link EXCEPT ![c] = "dead"]
  BY DEF LinkDies, Away
<1>2. PICK u \in Prefixes(up[c]), d \in Prefixes(down[c]) :
        up' = [up EXCEPT ![c] = u] /\ down' = [down EXCEPT ![c] = d]
  BY DEF LinkDies
<1>3. /\ u \in Seq(Frames) /\ Len(u) <= Len(up[c]) /\ Len(u) \in Nat /\ Len(up[c]) \in Nat
      /\ up[c] = << >> => u = << >>
  <2>1. up[c] \in Seq(Frames)
    BY DEF TypeOK, Frames
  <2>2. u \in Seq(Frames) /\ Len(u) <= Len(up[c]) /\ Len(up[c]) \in Nat /\ up[c] = << >> => u = << >>
    BY <2>1, FrameSeqs
  <2> QED
    BY <2>1, <2>2, FrameSeqs
<1>4. /\ d \in Seq(Acks) /\ DOMAIN d = 1..Len(d)
      /\ \A i \in DOMAIN d : d[i].accepted <=> Accepted(hello[c])
      /\ down[c] = << >> => d = << >>
  <2>1. down[c] \in Seq(Acks)
    BY DEF TypeOK
  <2>2. /\ d \in Seq(Acks) /\ Len(d) <= Len(down[c]) /\ Len(down[c]) \in Nat
        /\ \A i \in 1..Len(d) : d[i] = down[c][i]
        /\ DOMAIN down[c] = 1..Len(down[c])
        /\ down[c] = << >> => d = << >>
    BY <2>1, FrameSeqs
  <2>3. DOMAIN d = 1..Len(d) /\ Len(d) \in Nat
    BY <2>2, LenProperties
  <2> QED
    BY <2>2, <2>3 DEF VerdictStands
<1>5. \A e \in Conns : /\ up'[e] = IF e = c THEN u ELSE up[e]
                       /\ down'[e] = IF e = c THEN d ELSE down[e]
                       /\ link'[e] = IF e = c THEN "dead" ELSE link[e]
  BY <1>1, <1>2 DEF TypeOK
<1>6. TypeOK'
  BY <1>1, <1>2, <1>3, <1>4 DEF TypeOK, Away, agentVars, fileVars, Frames
<1>7. WireIsCleared'
  BY <1>1, <1>3, <1>4, <1>5 DEF WireIsCleared, Closed, Away, agentVars
<1>8. HelloFirst'
  <2>1. CASE at # c
    BY <1>1, <1>5, <2>1 DEF HelloFirst, TypeOK, Away, agentVars
  <2>2. CASE at = c
    <3>1. Len(up[c]) <= 1 => Len(u) <= 1
      BY <1>3
    <3> QED
      BY <1>1, <1>3, <1>5, <2>2, <3>1 DEF HelloFirst, Away, agentVars
  <2> QED
    BY <2>1, <2>2
<1>9. VerdictStands'
  BY <1>1, <1>4, <1>5 DEF VerdictStands, Accepted, Away, agentVars
<1> QED
  BY <1>1, <1>6, <1>7, <1>8, <1>9, AwayOK

-----------------------------------------------------------------------------
\* An agent on no connection is idle.
LEMMA Somewhere == ASSUME TypeOK, agent # "idle" PROVE at \in Conns
  BY DEF TypeOK

LEMMA LeavesOK ==
    TunnelInv /\ (ReadRefusal \/ DialTimeout \/ DialHungUp \/ SessionEnds \/ AgentStops) => TunnelInv'
<1> SUFFICES ASSUME TunnelInv, ReadRefusal \/ DialTimeout \/ DialHungUp \/ SessionEnds \/ AgentStops
             PROVE  TunnelInv'
  OBVIOUS
<1>1. agent # "idle"
  BY DEF ReadRefusal, DialTimeout, DialHungUp, SessionEnds, AgentStops
<1>2. /\ Leave(outcome')
      /\ outcome' \in {"none", "accepted", "refused", "timeout", "hungup", "stopped"}
  BY DEF ReadRefusal, DialTimeout, DialHungUp, SessionEnds, AgentStops, Leave, TypeOK
<1> QED
  BY <1>1, <1>2, Somewhere, LeaveOK

LEMMA StutterOK == TunnelInv /\ UNCHANGED vars => TunnelInv'
<1> SUFFICES ASSUME TunnelInv, UNCHANGED vars PROVE TunnelInv'
  OBVIOUS
<1> USE DEF vars, agentVars, sideVars, fileVars
<1>1. TypeOK'
  BY DEF TypeOK
<1>2. WireIsCleared' /\ HelloFirst' /\ VerdictStands'
  BY DEF WireIsCleared, Closed, HelloFirst, VerdictStands
<1> QED
  BY <1>1, <1>2, AwayOK DEF Away

LEMMA NextOK == TunnelInv /\ [Next]_vars => TunnelInv'
<1> SUFFICES ASSUME TunnelInv, Next PROVE TunnelInv'
  BY StutterOK
<1>1. CASE \E c \in Conns, h \in Hellos : Connect(c, h)
  BY <1>1, ConnectOK
<1>2. CASE Dial \/ SessionEnds \/ AgentStops \/ SendKillSwitch
  BY <1>2, SendsOK, ReadAckOK, LeavesOK DEF Dial
<1>3. CASE \E f \in Advised : Record(f)
  BY <1>3, RecordOK
<1>4. CASE \E c \in Conns : Accept(c) \/ SaasCloses(c) \/ Forgotten(c) \/ LinkDies(c)
  BY <1>4, AcceptsOK, AnswerOK, AnswerFailsOK, SaasClosesOK, ForgottenOK, LinkDiesOK DEF Accept
<1> QED
  BY <1>1, <1>2, <1>3, <1>4 DEF Next

-----------------------------------------------------------------------------
(* The verdict comes first.                                                *)

\* What of JudgedFirst is said of one connection.
Judged(c) ==
    /\ (down[c] # << >> \/ killed[c] \/ Joined(c)) => saas[c] \in {"session", "over", "failed"}
    /\ Joined(c) => Accepted(hello[c])
    /\ saas[c] = "session" => ~armed[c]
    /\ saas[c] # "deaf"
    /\ (killed[c] /\ saas[c] = "session" /\ link[c] = "up") => up[c] # << >>

\* A step of the SaaS or the wire on one connection.
LEMMA SideJudges ==
    ASSUME TunnelInv, JudgedFirst, NEW c \in Conns,
           Accept(c) \/ SaasCloses(c) \/ Forgotten(c) \/ LinkDies(c)
    PROVE  JudgedFirst'
<1> USE DEF TypeOK, Joined, Accepted
<1>a. \A d \in Conns : Judged(d)
  BY DEF JudgedFirst, Judged
<1> SUFFICES ASSUME NEW e \in Conns PROVE Judged(e)'
  BY DEF JudgedFirst, Judged
<1>0. UNCHANGED agentVars /\ UNCHANGED <<at, agent>>
  BY DEF Accept, AcceptControl, ReadHello, Answer, AnswerFails, Deadline, HangUp,
         HearKillSwitch, SaasCloses, Forgotten, LinkDies, agentVars
<1>1. ASSUME NEW d \in Conns, d # c PROVE Judged(d)'
  <2>1. /\ saas'[d] = saas[d] /\ armed'[d] = armed[d] /\ link'[d] = link[d]
        /\ killed'[d] = killed[d] /\ hello'[d] = hello[d] /\ up'[d] = up[d] /\ down'[d] = down[d]
    BY <1>1 DEF Accept, AcceptControl, ReadHello, Answer, AnswerFails, Deadline, HangUp,
         HearKillSwitch, SaasCloses, Forgotten, LinkDies, Close, Verdict, Down
  <2> QED
    BY <1>0, <2>1, <1>a DEF Judged
<1>2. Judged(c)
  BY <1>a
<1>3. Judged(c)'
  <2>1. CASE AcceptControl(c) \/ ReadHello(c)
    BY <1>0, <1>2, <2>1 DEF Judged, AcceptControl, ReadHello
  <2>2. CASE Answer(c)
    <3>1. saas[c] = "answer" /\ ~killed[c] /\ killed' = killed /\ ~Joined(c)
      BY <1>2, <2>2 DEF Judged, Answer
    <3>2. PICK a \in Answers(c) : Verdict(c, a)
      BY <2>2 DEF Answer
    <3>3. (saas'[c] = "session" /\ ~armed'[c]) \/ saas'[c] = "over"
      BY <3>2 DEF Verdict, Close
    <3> QED
      BY <1>0, <3>1, <3>3 DEF Judged
  <2>3. CASE AnswerFails(c) \/ Deadline(c) \/ HangUp(c) \/ HearKillSwitch(c) \/ SaasCloses(c)
    <3>1. saas'[c] \in {"over", "failed"} /\ hello' = hello
      BY <1>2, <2>3
      DEF Judged, AnswerFails, Deadline, HangUp, HearKillSwitch, SaasCloses, Close
    <3> QED
      BY <1>0, <1>2, <3>1 DEF Judged
  <2>4. CASE Forgotten(c)
    <3>1. at # c /\ down[c] = << >> /\ down' = down /\ saas'[c] = "free" /\ ~killed'[c]
      BY <2>4 DEF Forgotten, WireIsCleared
    <3> QED
      BY <1>0, <3>1 DEF Judged
  <2>5. CASE LinkDies(c)
    <3>1. /\ saas' = saas /\ armed' = armed /\ killed' = killed /\ hello' = hello
          /\ link'[c] = "dead"
      BY <2>5 DEF LinkDies
    <3>2. down[c] = << >> => down'[c] = << >>
      <4>1. PICK d \in Prefixes(down[c]) : down' = [down EXCEPT ![c] = d]
        BY <2>5 DEF LinkDies
      <4>2. down[c] = << >> => d = << >>
        BY FrameSeqs
      <4> QED
        BY <4>1, <4>2
    <3> QED
      BY <1>0, <1>2, <3>1, <3>2 DEF Judged
  <2> QED
    BY <2>1, <2>2, <2>3, <2>4, <2>5 DEF Accept
<1> QED
  BY <1>1, <1>3

\* A step of the agent.
LEMMA AgentJudges ==
    ASSUME TunnelInv, JudgedFirst,
           \/ \E c \in Conns, h \in Hellos : Connect(c, h)
           \/ Dial \/ SessionEnds \/ AgentStops \/ SendKillSwitch
           \/ \E f \in Advised : Record(f)
    PROVE  JudgedFirst'
<1> USE DEF TypeOK, Joined, Accepted
<1>a. \A d \in Conns : Judged(d)
  BY DEF JudgedFirst, Judged
<1> SUFFICES ASSUME NEW e \in Conns PROVE Judged(e)'
  BY DEF JudgedFirst, Judged
<1>1. CASE \E c \in Conns, h \in Hellos : Connect(c, h)
  <2>1. PICK c \in Conns, h \in Hellos : Connect(c, h)
    BY <1>1
  <2>2. /\ agent' = "open" /\ down[c] = << >> /\ ~killed[c] /\ saas'[c] = "stream"
        /\ UNCHANGED <<down, killed, armed, up>>
    BY <2>1, <1>a DEF Connect, WireIsCleared, Judged
  <2>3. \A d \in Conns \ {c} : saas'[d] = saas[d] /\ link'[d] = link[d]
    BY <2>1 DEF Connect
  <2>4. \A d \in Conns : Judged(d)'
    BY <2>2, <2>3, <1>a DEF Judged
  <2> QED
    BY <2>4
<1>2. CASE OpenControl \/ SendHello \/ SendKillSwitch
  <2>1. PICK frame \in Frames : Up(at, frame)
    BY <1>2 DEF OpenControl, SendHello, SendKillSwitch, Frames
  <2>2. /\ UNCHANGED <<at, link, hello, saas, armed, down>> /\ at \in Conns
        /\ \/ agent' \in {"hello", "ack"} /\ killed' = killed
           \/ agent = "serve" /\ agent' = "serve" /\ killed' = [killed EXCEPT ![at] = TRUE]
    BY <1>2 DEF OpenControl, SendHello, SendKillSwitch, agentVars
  <2>a. Append(up[at], frame) # << >>
    <3>1. up \in [Conns -> Seq(Frames)]
      BY DEF Frames
    <3>2. up[at] \in Seq(Frames)
      BY <2>2, <3>1
    <3> HIDE DEF TypeOK
    <3> QED
      BY <3>2, FrameSeqs
  <2>3. \A d \in Conns : up'[d] = up[d] \/ (up'[d] # << >> /\ d = at)
    BY <2>1, <2>2, <2>a DEF Up
  <2>4. link[at] = "up" /\ saas[at] = "session" => up'[at] # << >>
    BY <2>1, <2>2, <2>a DEF Up, Closed
  <2>5. \A d \in Conns : Judged(d)'
    BY <2>2, <2>3, <2>4, <1>a DEF Judged
  <2> QED
    BY <2>5
<1>3. CASE ReadAck
  <2>1. /\ UNCHANGED <<at, link, hello, saas, armed, up, killed>> /\ at \in Conns
        /\ down[at] # << >> /\ Head(down[at]).accepted
        /\ down' = [down EXCEPT ![at] = Tail(@)]
    BY <1>3 DEF ReadAck
  <2>2. Accepted(hello[at])
    <3>1. /\ down[at] \in Seq(Acks) /\ Head(down[at]) = down[at][1]
          /\ DOMAIN down[at] = 1..Len(down[at]) /\ Len(down[at]) \in Nat /\ Len(down[at]) >= 1
      BY <2>1, FrameSeqs
    <3>2. 1 \in DOMAIN down[at]
      BY <3>1
    <3> QED
      BY <2>1, <3>1, <3>2 DEF VerdictStands
  <2>3. \A d \in Conns : Judged(d)'
    BY <1>3, <2>1, <2>2, <1>a DEF Judged, ReadAck
  <2> QED
    BY <2>3
<1>4. CASE ReadRefusal \/ DialTimeout \/ DialHungUp \/ SessionEnds \/ AgentStops
  <2>1. Leave(outcome')
    BY <1>4 DEF ReadRefusal, DialTimeout, DialHungUp, SessionEnds, AgentStops, Leave
  <2>2. \A d \in Conns : down'[d] = down[d] \/ down'[d] = << >>
    BY <2>1 DEF Leave
  <2>3. \A d \in Conns : Judged(d)'
    BY <2>1, <2>2, <1>a DEF Judged, Leave
  <2> QED
    BY <2>3
<1>5. CASE \E f \in Advised : Record(f)
  <2>1. /\ UNCHANGED <<at, link, hello, saas, armed, up, down, killed>>
        /\ agent = "record" /\ agent' \in {"record", "serve"}
    BY <1>5 DEF Recorded, Goto, Record, Compare, Write, Rename, RecordFails, At, sideVars
  <2>2. \A d \in Conns : Judged(d)'
    BY <2>1, <1>a DEF Judged
  <2> QED
    BY <2>2
<1> QED
  BY <1>1, <1>2, <1>3, <1>4, <1>5 DEF Dial

LEMMA JudgedOK == TunnelInv /\ JudgedFirst /\ [Next]_vars => JudgedFirst'
<1> SUFFICES ASSUME TunnelInv, JudgedFirst, [Next]_vars PROVE JudgedFirst'
  OBVIOUS
<1>1. CASE UNCHANGED vars
  BY <1>1 DEF vars, agentVars, sideVars, JudgedFirst, Joined, Accepted
<1> QED
  BY <1>1, SideJudges, AgentJudges DEF Next

\* The inductive invariant of a tunnel's beginning (Dial, Accept, connect and
\* the two Record functions) holds in every reachable state.
THEOREM HandshakeInductive == Spec => []IndInv
<1>1. Init => TunnelInv /\ JudgedFirst
  <2>1. Init => JudgedFirst
    BY DEF Init, JudgedFirst, Joined
  <2> QED
    BY <2>1, InitOK
<1>2. TunnelInv /\ JudgedFirst /\ [Next]_vars => (TunnelInv /\ JudgedFirst)'
  BY NextOK, JudgedOK
<1>3. TunnelInv /\ JudgedFirst <=> IndInv
  BY DEF TunnelInv, IndInv
<1> QED
  BY <1>1, <1>2, <1>3, PTL DEF Spec

USE DEF IndInv

\* The node's tooling never finds half a value, nor during a session one the
\* agent's session did not report (RecordConsoleOrigins, RecordCurrentRelease).
THEOREM AdvisoryHonest == Spec => []AdvisoryIsHonest
<1>1. IndInv => AdvisoryIsHonest
  OBVIOUS
<1> QED
  BY HandshakeInductive, <1>1, PTL

\* A refused agent is not hung up on before it has read the refusal (Accept,
\* Dial).
THEOREM RefusalReaches == Spec => RefusalIsRead
<1> DEFINE Told1(c) == (at = c /\ at' # c /\ outcome' = "hungup" /\ link[c] = "up")
                         => Accepted(hello[c]) \/ saas[c] = "failed"
<1>1. ASSUME IndInv, [Next]_vars, NEW c \in Conns,
             at = c, at' # c, outcome' = "hungup", link[c] = "up",
             ~Accepted(hello[c]), saas[c] # "failed"
      PROVE  FALSE
  <2>1. at # Nobody /\ agent # "idle"
    BY <1>1 DEF TypeOK
  <2>2. DialHungUp
    <3>1. ~UNCHANGED vars /\ \A d \in Conns, h \in Hellos : ~Connect(d, h)
      BY <1>1, <2>1 DEF vars, agentVars, Connect
    <3>2. ~SendKillSwitch /\ \A f \in Advised : ~Record(f)
      BY <1>1 DEF SendKillSwitch, agentVars, Record, Compare, Write, Rename, RecordFails
    <3>3. \A d \in Conns : ~Accept(d) /\ ~SaasCloses(d) /\ ~Forgotten(d) /\ ~LinkDies(d)
      BY <1>1 DEF agentVars, Accept, AcceptControl, ReadHello, Answer, AnswerFails, Deadline,
                  HangUp, HearKillSwitch, SaasCloses, Forgotten, LinkDies
    <3>4. ~OpenControl /\ ~SendHello /\ ~ReadAck
      BY <1>1 DEF OpenControl, SendHello, ReadAck
    <3>5. ~ReadRefusal /\ ~DialTimeout /\ ~AgentStops
      BY <1>1 DEF ReadRefusal, DialTimeout, AgentStops, Leave
    <3>6. ~SessionEnds
      BY <1>1 DEF SessionEnds, Leave, RecordedSoFar
    <3> QED
      BY <1>1, <3>1, <3>2, <3>3, <3>4, <3>5, <3>6 DEF Next, Dial
  <2>3. saas[c] = "over" /\ agent \in {"open", "hello", "ack"}
    BY <1>1, <2>2 DEF DialHungUp, Noticed, Closed
  <2>4. agent = "ack" /\ down[c] = << >>
    BY <1>1, <2>2, <2>3 DEF DialHungUp, HelloFirst
  <2> QED
    BY <1>1, <2>3, <2>4 DEF VerdictStands
<1>2. IndInv /\ [Next]_vars => [\A c \in Conns : Told1(c)]_vars
  BY <1>1
<1> QED
  BY HandshakeInductive, <1>2, PTL DEF Spec, RefusalIsRead

-----------------------------------------------------------------------------
(* The kill switch.                                                        *)

\* A switch that was pulled waits on a session whose reader no deadline
\* interrupts, unless the transport lost it or the session is over.
KillSwitchIsKept ==
    \A c \in Conns :
        killed[c] => \/ Closed(c)
                     \/ saas[c] = "session" /\ ~armed[c] /\ (link[c] = "up" => up[c] # << >>)

\* What KillSwitchIsHeard needs of every state: SendKillSwitch's frame is not
\* lost between the agent and AwaitKillSwitch while the connection is up.
THEOREM KillSwitchKept == Spec => []KillSwitchIsKept
<1>1. IndInv => KillSwitchIsKept
  <2> SUFFICES ASSUME IndInv, NEW c \in Conns, killed[c], ~Closed(c)
               PROVE  saas[c] = "session" /\ ~armed[c] /\ (link[c] = "up" => up[c] # << >>)
    BY DEF KillSwitchIsKept
  <2> QED
    BY DEF JudgedFirst, Closed
<1> QED
  BY HandshakeInductive, <1>1, PTL

-----------------------------------------------------------------------------
(* Handshake implements Admission.                                         *)

Sides == [c \in Conns |-> Side(c)]
InSession == agent \in {"record", "serve"}
AdmissionStep == Connections!Next \/ UNCHANGED <<at, InSession, hello, Sides>>

LEMMA SameSides == ASSUME UNCHANGED saas PROVE Sides' = Sides
  BY DEF Sides, Side

\* A step that moves one connection at the SaaS.
LEMMA OneSide ==
    ASSUME TypeOK, NEW c \in Conns, NEW s \in SaasPlaces, saas' = [saas EXCEPT ![c] = s]
    PROVE  /\ Sides[c] = Side(c)
           /\ Sides' = [Sides EXCEPT ![c] = Side(c)']
           /\ saas'[c] = s
<1>1. \A d \in Conns : saas'[d] = IF d = c THEN s ELSE saas[d]
  BY DEF TypeOK
<1>2. \A d \in Conns : Side(d)' = IF d = c THEN Side(c)' ELSE Side(d)
  BY <1>1 DEF Side
<1> QED
  BY <1>1, <1>2 DEF Sides

\* The agent dials, or takes an ack for a session, or is off the connection.
LEMMA AgentAdmits ==
    ASSUME IndInv, IndInv',
           \/ \E c \in Conns, h \in Hellos : Connect(c, h)
           \/ Dial \/ SessionEnds \/ AgentStops \/ SendKillSwitch
           \/ \E f \in Advised : Record(f)
    PROVE  AdmissionStep
<1>1. CASE \E c \in Conns, h \in Hellos : Connect(c, h)
  <2>1. PICK c \in Conns, h \in Hellos : Connect(c, h)
    BY <1>1
  <2>2. /\ at = Nobody /\ at' = c /\ saas[c] = "free" /\ agent = "idle" /\ agent' = "open"
        /\ hello' = [hello EXCEPT ![c] = h] /\ saas' = [saas EXCEPT ![c] = "stream"]
    BY <2>1 DEF Connect, TypeOK
  <2>3. Sides[c] = "none" /\ Sides' = [Sides EXCEPT ![c] = "pending"]
    BY <2>2, OneSide DEF Side, SaasPlaces
  <2>4. UNCHANGED InSession
    BY <2>2 DEF InSession
  <2>5. Connections!Ask(c, h)
    BY <2>2, <2>3, <2>4 DEF Connections!Ask, Sides, InSession
  <2> QED
    BY <2>5 DEF AdmissionStep, Connections!Next
<1>2. CASE \/ OpenControl \/ SendHello \/ SendKillSwitch
           \/ \E f \in Advised : Record(f)
  <2>1. /\ UNCHANGED <<at, hello, saas>>
        /\ (agent' \in {"record", "serve"}) <=> (agent \in {"record", "serve"})
    <3>1. CASE OpenControl \/ SendHello \/ SendKillSwitch
      BY <3>1 DEF OpenControl, SendHello, SendKillSwitch, agentVars
    <3>2. CASE \E f \in Advised : Record(f)
      BY <3>2 DEF Record, Compare, Write, Rename, RecordFails, Recorded, Goto, At, sideVars
    <3> QED
      BY <1>2, <3>1, <3>2
  <2>2. UNCHANGED InSession
    <3>1. (agent' \in {"record", "serve"}) = (agent \in {"record", "serve"})
      BY <2>1
    <3> QED
      BY <3>1, Zenon DEF InSession
  <2> QED
    BY <2>1, <2>2, SameSides DEF AdmissionStep
<1>3. CASE ReadAck
  <2>1. /\ at \in Conns /\ agent = "ack" /\ agent' = "record" /\ UNCHANGED <<at, hello, saas>>
        /\ down[at] # << >>
    BY <1>3 DEF ReadAck, TypeOK
  <2>2. Joined(at)' /\ at' = at
    BY <2>1 DEF Joined
  <2>3. Accepted(hello[at])
    BY <2>1, <2>2 DEF JudgedFirst, Accepted
  <2>4. Side(at) \in {"admitted", "over"}
    BY <2>1 DEF JudgedFirst, Side
  <2>5. hello[at] \in {h \in Hellos : Accepted(h)}
    BY <2>1, <2>3 DEF TypeOK
  <2>6. ~InSession /\ InSession' = TRUE
    BY <2>1 DEF InSession
  <2>7. Connections!Join(at)
    BY <2>1, <2>4, <2>5, <2>6, SameSides DEF Connections!Join, Sides, InSession
  <2> QED
    BY <2>1, <2>7 DEF AdmissionStep, Connections!Next
<1>4. CASE ReadRefusal \/ DialTimeout \/ DialHungUp \/ SessionEnds \/ AgentStops
  <2>1. Leave(outcome') /\ agent # "idle"
    BY <1>4 DEF ReadRefusal, DialTimeout, DialHungUp, SessionEnds, AgentStops, Leave
  <2>2. at # Nobody /\ at' = Nobody /\ agent' = "idle" /\ UNCHANGED <<hello, saas>>
    BY <2>1 DEF Leave, TypeOK
  <2>3. InSession' = FALSE
    BY <2>2 DEF InSession
  <2>4. Connections!Leave
    BY <2>2, <2>3, SameSides DEF Connections!Leave, Sides, InSession
  <2> QED
    BY <2>4 DEF AdmissionStep, Connections!Next
<1> QED
  BY <1>1, <1>2, <1>3, <1>4 DEF Dial

\* The SaaS is off the connection, or fails on it.
LEMMA EndAdmits ==
    ASSUME IndInv, NEW c \in Conns, UNCHANGED <<agentVars, hello>>,
           saas[c] \in {"stream", "hello", "answer", "session", "deaf"},
           NEW how \in {"over", "failed"}, saas' = [saas EXCEPT ![c] = how]
    PROVE  Connections!End(c)
<1>1. Sides[c] \in {"pending", "admitted"} /\ Sides' = [Sides EXCEPT ![c] = "over"]
  BY OneSide DEF Side, SaasPlaces
<1>2. UNCHANGED <<at, InSession, hello>>
  BY DEF agentVars, InSession
<1> QED
  BY <1>1, <1>2 DEF Connections!End, Sides, InSession

LEMMA SideAdmits ==
    ASSUME IndInv, NEW c \in Conns,
           Accept(c) \/ SaasCloses(c) \/ Forgotten(c) \/ LinkDies(c)
    PROVE  AdmissionStep
<1>0. UNCHANGED agentVars /\ UNCHANGED <<at, InSession>>
  BY DEF Accept, AcceptControl, ReadHello, Answer, AnswerFails, Deadline, HangUp,
         HearKillSwitch, SaasCloses, Forgotten, LinkDies, agentVars, InSession
<1>1. CASE AcceptControl(c) \/ ReadHello(c)
  <2>1. PICK s \in {"hello", "answer"} :
          /\ saas' = [saas EXCEPT ![c] = s] /\ saas[c] \in {"stream", "hello"}
          /\ hello' = hello
    BY <1>1 DEF AcceptControl, ReadHello
  <2>2. Side(c) = "pending" /\ Side(c)' = "pending"
    BY <2>1, OneSide DEF Side, SaasPlaces
  <2>3. Sides' = Sides
    <3>1. Sides[c] = "pending" /\ Sides' = [Sides EXCEPT ![c] = "pending"]
      BY <2>1, <2>2, OneSide DEF SaasPlaces
    <3>2. Sides = [d \in Conns |-> Sides[d]]
      BY DEF Sides
    <3> QED
      BY <3>1, <3>2
  <2> QED
    BY <1>0, <2>1, <2>3 DEF AdmissionStep
<1>2. CASE Answer(c)
  <2>1. PICK a \in Answers(c) : Verdict(c, a)
    BY <1>2 DEF Answer
  <2>2. saas[c] = "answer" /\ hello' = hello /\ hello[c] \in Hellos
    BY <1>2 DEF Answer, TypeOK
  <2>3. CASE a.accepted
    <3>1. saas' = [saas EXCEPT ![c] = "session"] /\ Accepted(hello[c])
      BY <2>1, <2>3 DEF Verdict, Answers
    <3>2. Sides[c] = "pending" /\ Sides' = [Sides EXCEPT ![c] = "admitted"]
      BY <2>2, <3>1, OneSide DEF Side, SaasPlaces
    <3>3. Connections!Admit(c)
      BY <1>0, <2>2, <3>1, <3>2 DEF Connections!Admit, Sides, InSession
    <3> QED
      BY <3>3 DEF AdmissionStep, Connections!Next
  <2>4. CASE ~a.accepted
    <3>1. saas' = [saas EXCEPT ![c] = "over"]
      BY <2>1, <2>4 DEF Verdict, Close
    <3>2. Connections!End(c)
      BY <1>0, <2>2, <3>1, EndAdmits
    <3> QED
      BY <3>2 DEF AdmissionStep, Connections!Next
  <2> QED
    BY <2>3, <2>4
<1>3. CASE AnswerFails(c) \/ Deadline(c) \/ HangUp(c) \/ HearKillSwitch(c) \/ SaasCloses(c)
  <2>1. hello' = hello /\ saas[c] \in {"stream", "hello", "answer", "session", "deaf"}
    BY <1>3 DEF AnswerFails, Deadline, HangUp, HearKillSwitch, SaasCloses
  <2>2. PICK how \in {"over", "failed"} : saas' = [saas EXCEPT ![c] = how]
    BY <1>3 DEF AnswerFails, Deadline, HangUp, HearKillSwitch, SaasCloses, Close, JudgedFirst
  <2>3. Connections!End(c)
    BY <1>0, <2>1, <2>2, EndAdmits
  <2> QED
    BY <2>3 DEF AdmissionStep, Connections!Next
<1>4. CASE Forgotten(c)
  <2>1. /\ saas[c] \in {"over", "failed"} /\ at # c /\ saas' = [saas EXCEPT ![c] = "free"]
        /\ hello' = [hello EXCEPT ![c] = SomeHello]
    BY <1>4 DEF Forgotten, Closed
  <2>2. Sides[c] = "over" /\ Sides' = [Sides EXCEPT ![c] = "none"]
    BY <2>1, OneSide DEF Side, SaasPlaces
  <2>3. Connections!Forget(c)
    BY <1>0, <2>1, <2>2 DEF Connections!Forget, Sides, InSession
  <2> QED
    BY <2>3 DEF AdmissionStep, Connections!Next
<1>5. CASE LinkDies(c)
  BY <1>0, <1>5, SameSides DEF AdmissionStep, LinkDies
<1> QED
  BY <1>1, <1>2, <1>3, <1>4, <1>5 DEF Accept

LEMMA StepAdmits ==
    IndInv /\ IndInv' /\ [Next]_vars => [Connections!Next]_(Connections!vars)
<1> SUFFICES ASSUME IndInv, IndInv', [Next]_vars PROVE AdmissionStep
  BY DEF AdmissionStep, Connections!vars, Sides, InSession
<1>1. CASE UNCHANGED vars
  BY <1>1, SameSides DEF vars, agentVars, sideVars, AdmissionStep, InSession
<1> QED
  BY <1>1, AgentAdmits, SideAdmits DEF Next

LEMMA InitAdmits == Init => Connections!Init
BY DEF Init, Connections!Init, Side

\* Dial and Accept implement Admission: the agent has a session only on a
\* connection whose build the SaaS judged and takes, one at a time, and a
\* connection is reused only after both sides are off it.
THEOREM Admits == Spec => ImplementsAdmission
<1>1. Init => Connections!Init
  BY InitAdmits
<1>2. IndInv /\ IndInv' /\ [Next]_vars => [Connections!Next]_(Connections!vars)
  BY StepAdmits
<1> QED
  BY <1>1, <1>2, HandshakeInductive, PTL DEF Spec, ImplementsAdmission, Connections!Spec
=============================================================================
