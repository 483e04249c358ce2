--------------------------- MODULE ChannelService ---------------------------
(***************************************************************************)
(* What the agent promises of the channels a SaaS opens on it, whatever    *)
(* its goroutines do: a stream is judged once, a served one is settled     *)
(* exactly once, and neither a session nor the process ends under a        *)
(* channel that is still being served.                                     *)
(***************************************************************************)

CONSTANT Channels

VARIABLES
    agent,  \* "running" or "stopped"
    link,   \* "up" while a session is being served
    chan    \* per stream of the session: what became of it

vars == <<agent, link, chan>>

AllFree == [c \in Channels |-> "free"]
NoneServed == \A c \in Channels : chan[c] # "serving"

Init == agent = "running" /\ link = "down" /\ chan = AllFree

Connect ==
    /\ agent = "running"
    /\ link = "down"
    /\ link' = "up"
    /\ UNCHANGED <<agent, chan>>

\* A stream moves along free, offered, then rejected, dropped, or serving and settled.
Advance(c, from, to) ==
    /\ link = "up"
    /\ chan[c] = from
    /\ chan' = [chan EXCEPT ![c] = to]
    /\ UNCHANGED <<agent, link>>

Offer(c) == Advance(c, "free", "offered")
Reject(c) == Advance(c, "offered", "rejected")
\* Neither rejected nor served, and never looked at again.
Drop(c) == Advance(c, "offered", "dropped")
Serve(c) == Advance(c, "offered", "serving")
Settle(c) == Advance(c, "serving", "settled")

\* The session ends with nothing being served; its streams go with it.
Disconnect ==
    /\ link = "up"
    /\ NoneServed
    /\ link' = "down"
    /\ chan' = AllFree
    /\ UNCHANGED agent

Stop ==
    /\ agent = "running"
    /\ link = "down"
    /\ agent' = "stopped"
    /\ UNCHANGED <<link, chan>>

Next ==
    \/ Connect \/ Disconnect \/ Stop
    \/ \E c \in Channels : Offer(c) \/ Reject(c) \/ Drop(c) \/ Serve(c) \/ Settle(c)

Spec == Init /\ [][Next]_vars
=============================================================================
