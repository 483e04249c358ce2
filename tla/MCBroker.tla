------------------------------ MODULE MCBroker ------------------------------
(* Instances of Broker for TLC: versions of a small command table, with a   *)
(* command whose mark changes and two that fit the same words equally well. *)
EXTENDS Broker, TLC

Command(sig, perm) == [sig |-> sig, rest |-> FALSE, perm |-> perm]

OldTable == {
    Command(<<"osd", Param, "df">>, "r"),
    Command(<<"osd", "pool", Param>>, "rw")}
NewTable == {
    Command(<<"osd", "df", Param>>, "rw"),
    [sig |-> <<"osd", Param>>, rest |-> TRUE, perm |-> "r"]}

\* An upgrade changes the table; a manager that lists nothing leaves it nil.
Versions == {OldTable, NewTable, {}}

SomeArgs == {
    << >>, <<"osd">>, <<"osd", "df">>, <<"osd", "pool">>, <<"osd", "pool", "df">>,
    <<"osd", "df", "-f", "json">>, <<"osd", "df", "json">>, <<"osd", "-f">>,
    <<"pg", "1.a", "query">>, <<"pg", "1.a", "query", "x">>, <<"-x", "osd", "df">>}

CallSymmetry == Permutations(Calls)
=============================================================================
