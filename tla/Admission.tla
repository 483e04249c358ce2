------------------------------ MODULE Admission ------------------------------
(***************************************************************************)
(* What the handshake promises of the connections between one agent and    *)
(* the SaaS: a session begins on the agent's side only where the SaaS has  *)
(* given its verdict on a build it takes, on one connection at a time, and *)
(* a connection is forgotten only when both sides are off it.              *)
(***************************************************************************)

CONSTANTS
    Conns,
    Builds,
    Admissible,  \* the builds the SaaS takes
    Nobody,      \* the agent is on no connection
    SomeBuild    \* of a connection nobody has asked on

VARIABLES
    at,      \* the connection the agent is on
    joined,  \* it takes that connection for a session
    build,   \* per connection: what the agent said it is
    verdict  \* per connection: the SaaS's side of it

vars == <<at, joined, build, verdict>>

Init ==
    /\ at = Nobody /\ joined = FALSE
    /\ build = [c \in Conns |-> SomeBuild]
    /\ verdict = [c \in Conns |-> "none"]

Ask(c, b) ==
    /\ at = Nobody /\ verdict[c] = "none"
    /\ at' = c
    /\ build' = [build EXCEPT ![c] = b]
    /\ verdict' = [verdict EXCEPT ![c] = "pending"]
    /\ UNCHANGED joined

Admit(c) ==
    /\ verdict[c] = "pending" /\ build[c] \in Admissible
    /\ verdict' = [verdict EXCEPT ![c] = "admitted"]
    /\ UNCHANGED <<at, joined, build>>

\* The SaaS refuses, fails or ends the session, whether or not the agent knows.
End(c) ==
    /\ verdict[c] \in {"pending", "admitted"}
    /\ verdict' = [verdict EXCEPT ![c] = "over"]
    /\ UNCHANGED <<at, joined, build>>

\* The agent may learn that it was admitted when the session is over already.
Join(c) ==
    /\ at = c /\ ~joined
    /\ verdict[c] \in {"admitted", "over"} /\ build[c] \in Admissible
    /\ joined' = TRUE
    /\ UNCHANGED <<at, build, verdict>>

Leave ==
    /\ at # Nobody
    /\ at' = Nobody /\ joined' = FALSE
    /\ UNCHANGED <<build, verdict>>

Forget(c) ==
    /\ verdict[c] = "over" /\ at # c
    /\ verdict' = [verdict EXCEPT ![c] = "none"]
    /\ build' = [build EXCEPT ![c] = SomeBuild]
    /\ UNCHANGED <<at, joined>>

Next ==
    \/ Leave
    \/ \E c \in Conns :
          \/ Admit(c) \/ End(c) \/ Join(c) \/ Forget(c)
          \/ \E b \in Builds : Ask(c, b)

Spec == Init /\ [][Next]_vars
=============================================================================
