------------------------------- MODULE CallLog -------------------------------
(***************************************************************************)
(* What the agent promises the customer of the tool calls it runs: before  *)
(* the SaaS is told what came of a call, the call is over and its record   *)
(* was put to the local log; the log never says anything else than what    *)
(* was told; and each is done once.  A record whose write fails is lost    *)
(* and the call is answered all the same.  A call of which no record was   *)
(* made is told one of Unlogged, if anything.                              *)
(***************************************************************************)

CONSTANTS
    Calls,     \* the calls under way, one after another each
    Outcomes,  \* what may come of a call
    Unlogged   \* outcomes that may be told of a call without a record

VARIABLES
    running,  \* per call: its command is being run
    ruled,    \* per call: the outcome its record was made of
    logged,   \* per call: the outcome in the log
    told      \* per call: the outcome the caller has

vars == <<running, ruled, logged, told>>

Fresh ==
    /\ running = [c \in Calls |-> FALSE]
    /\ ruled = [c \in Calls |-> "none"]
    /\ logged = [c \in Calls |-> "none"]
    /\ told = [c \in Calls |-> "none"]

Init == Fresh

\* No record of the call was made and nothing was told of it.
Open(c) == ruled[c] = "none" /\ told[c] = "none"

Run(c) ==
    /\ Open(c) /\ ~running[c]
    /\ running' = [running EXCEPT ![c] = TRUE]
    /\ UNCHANGED <<ruled, logged, told>>

\* The command is over, its call not yet.
End(c) ==
    /\ running[c]
    /\ running' = [running EXCEPT ![c] = FALSE]
    /\ UNCHANGED <<ruled, logged, told>>

\* The one record of the call, at the end of its command or after: the log has
\* it from then on, or never.
Record(c, o) ==
    /\ Open(c)
    /\ ruled' = [ruled EXCEPT ![c] = o]
    /\ logged' \in {logged, [logged EXCEPT ![c] = o]}
    /\ running' = [running EXCEPT ![c] = FALSE]
    /\ UNCHANGED told

Tell(c, o) ==
    /\ ~running[c] /\ told[c] = "none"
    /\ o = ruled[c] \/ (ruled[c] = "none" /\ o \in Unlogged)
    /\ told' = [told EXCEPT ![c] = o]
    /\ UNCHANGED <<running, ruled, logged>>

\* Other calls take the place of these, none of which is running.
Renew == (\A c \in Calls : ~running[c]) /\ Fresh'

Next ==
    \/ Renew
    \/ \E c \in Calls :
          \/ Run(c) \/ End(c)
          \/ \E o \in Outcomes : Record(c, o) \/ Tell(c, o)

Spec == Init /\ [][Next]_vars
=============================================================================
