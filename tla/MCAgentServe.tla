---------------------------- MODULE MCAgentServe ----------------------------
(* Small instances of AgentServe for TLC. *)
EXTENDS AgentServe, TLC

MCNames == {"node1", "node2", "dash", "shell_read", "other_tool", "10.0.0.1", "use of closed"}
MCShape ==
    [n \in MCNames |-> CASE n = "10.0.0.1" -> "dottedNumeric"
                        [] n = "use of closed" -> "endText"
                        [] OTHER -> "label"]

Frame(kind, target, name, approved, driven) ==
    [kind |-> kind, target |-> [kind |-> target, name |-> name],
     approved |-> approved, agentDriven |-> driven]

\* One of each: a call, a call of an unknown tool, this node's console, another
\* node's, a web console, a plane crossing, an address for a name, and a
\* name whose text isSessionOver takes for the session's end.
MCOpens ==
    {Frame("tool", "tool", "shell_read", FALSE, FALSE),
     Frame("tool", "tool", "other_tool", FALSE, FALSE),
     Frame("console", "ssh", "node1", FALSE, FALSE),
     Frame("console", "ssh", "node2", FALSE, FALSE),
     Frame("console", "web", "dash", FALSE, FALSE),
     Frame("console", "tool", "shell_read", FALSE, FALSE),
     Frame("console", "ssh", "10.0.0.1", FALSE, FALSE),
     Frame("console", "ssh", "use of closed", FALSE, FALSE)}

\* For liveness: a call and a console; a malformed header is rejected as well.
FewOpens ==
    {Frame("tool", "tool", "shell_read", FALSE, FALSE),
     Frame("console", "ssh", "node1", FALSE, FALSE)}

TheTools == {"shell_read"}
TheWebs == {"dash"}

\* Streams are interchangeable in the safety properties.
AnyChannels == Permutations(Channels)
=============================================================================
