---------------------------- MODULE TunnelProto ----------------------------
(***************************************************************************)
(* The channel-open frame of the tunnel protocol and the checks the agent  *)
(* applies to it on receipt (pkg/tunnelproto/tunnelproto.go).              *)
(*                                                                         *)
(* A name is a member of Names; what Target.Validate can tell of its text  *)
(* is the function Shape.  The numeric channel ID carries no decision on   *)
(* the agent's side and is left out.                                       *)
(***************************************************************************)

CONSTANTS
    Names,   \* the target names a frame may carry
    Shape    \* what Target.Validate sees of each name's text

\* "endText" is a short text with a rune no name has which says "session
\* shutdown" or "use of closed".
NameShapes == {"label", "empty", "tooLong", "otherRune", "dottedNumeric", "endText"}

ASSUME ShapeAssumption == Shape \in [Names -> NameShapes]

ChannelKinds == {"ctl", "tool", "console", "unknown"}
TargetKinds == {"ssh", "web", "tool"}
Targets == [kind : TargetKinds \cup {"unknown", "endText"}, name : Names]

\* The decoded frame.  Approved and AgentDriven are claims of the SaaS.
ChannelOpens ==
    [kind : ChannelKinds, target : Targets,
     approved : BOOLEAN, agentDriven : BOOLEAN]

\* Target.Validate: a known kind and a name that is a plain label.
TargetValid(t) ==
    /\ t.kind \in TargetKinds
    /\ Shape[t.name] = "label"

\* The plane rule: a tool channel reaches a tool, a console never does.
PlanesApart(o) ==
    /\ o.kind = "tool" => o.target.kind = "tool"
    /\ o.kind = "console" => o.target.kind # "tool"

\* ChannelOpen.Validate, which AcceptChannel applies to every open frame.
OpenValid(o) ==
    /\ o.kind \notin {"unknown", "ctl"}
    /\ TargetValid(o.target)
    /\ PlanesApart(o)
    /\ o.agentDriven => o.kind = "console" /\ o.target.kind = "ssh"

\* Target.Validate's error quotes a target kind it does not know, and else a
\* name with other runes: what it says is then the peer's text.
QuotesSessionEnd(o) ==
    /\ o.kind \notin {"unknown", "ctl"}
    /\ \/ o.target.kind = "endText"
       \/ o.target.kind \in TargetKinds /\ Shape[o.target.name] = "endText"
=============================================================================
