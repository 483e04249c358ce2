------------------------------ MODULE CephArgs ------------------------------
(***************************************************************************)
(* Which Ceph commands the broker runs (internal/broker/ceph.go): the      *)
(* words of a command line against Ceph's own command table.  A word is a  *)
(* string; OtherOptions are the words that begin with a dash and are not   *)
(* one of the output-format flags.                                         *)
(***************************************************************************)
EXTENDS Naturals, Sequences, FiniteSets, SequencesExt

CONSTANT OtherOptions

\* A position of a signature that is a parameter, not a literal word.
Param == "<param>"

\* A line of the table: CephCommand.
IsCommand(c) ==
    /\ DOMAIN c = {"sig", "rest", "perm"}
    /\ c.sig \in Seq(STRING) /\ c.rest \in BOOLEAN

pgReads == {"query", "list_unfound"}
formats == {"json", "json-pretty", "plain"}
FormatFlags == {"-f", "--format"}
FormatWords == {"--format=json", "--format=json-pretty", "--format=plain"}

\* Every one of them begins with a dash.
ASSUME OptionsAssumption == OtherOptions \cap (FormatFlags \cup FormatWords \cup formats) = {}

-----------------------------------------------------------------------------
(* The three loops, each as what it has after every prefix of its input.    *)

\* What stripFormat's loop does with one word, the one after a flag included.
take(s, a) ==
    IF s.format THEN [s EXCEPT !.format = FALSE, !.ok = @ /\ a \in formats]
    ELSE IF a \in FormatFlags THEN [s EXCEPT !.format = TRUE]
    ELSE IF a \in OtherOptions THEN [s EXCEPT !.ok = FALSE]
    ELSE IF a \in FormatWords THEN s
    ELSE [s EXCEPT !.words = Append(@, a)]

strip(args) ==
    LET after[n \in 0..Len(args)] ==
          IF n = 0 THEN [words |-> << >>, format |-> FALSE, ok |-> TRUE]
          ELSE take(after[n - 1], args[n])
    IN  after

\* stripFormat's words, and whether it returns them without an error.
stripFormat(args) ==
    LET end == strip(args)[Len(args)]
    IN  [words |-> end.words, ok |-> end.ok /\ ~end.format]

\* What fit's loop does with the word at position i of a signature.
match(s, lit, i, words) ==
    IF lit = Param THEN s
    ELSE IF i > Len(words) \/ words[i] # lit THEN [s EXCEPT !.ok = FALSE]
    ELSE [s EXCEPT !.score = @ + 1]

score(c, words) ==
    LET after[n \in 0..Len(c.sig)] ==
          IF n = 0 THEN [score |-> 0, ok |-> TRUE]
          ELSE match(after[n - 1], c.sig[n], n, words)
    IN  after

fit(c, words) ==
    LET end == score(c, words)[Len(c.sig)]
    IN  IF (Len(words) > Len(c.sig) /\ ~c.rest) \/ ~end.ok THEN 0 ELSE end.score

\* The reads of one placement group, which the table does not mark.
IsPgRead(words) ==
    /\ Len(words) >= 3 /\ words[1] = "pg" /\ words[3] \in pgReads
    /\ Len(words) = 3 \/ (Len(words) = 4 /\ words[3] = "list_unfound")

\* Mutant: the first of the best fits stands for all.
considerFirst(best, c, words) ==
    IF fit(c, words) > best.score THEN [cmds |-> {c}, score |-> fit(c, words)] ELSE best

\* What CheckCephArgs' loop does with one command of the table.
consider(best, c, words) ==
    LET s == fit(c, words)
    IN  IF s > best.score THEN [cmds |-> {c}, score |-> s]
        ELSE IF s > 0 /\ s = best.score THEN [best EXCEPT !.cmds = @ \cup {c}]
        ELSE best

\* The loop's best and bestScore after each prefix of the table.
loop(table, words) ==
    LET after[n \in 0..Len(table)] ==
          IF n = 0 THEN [cmds |-> {}, score |-> 0]
          ELSE consider(after[n - 1], table[n], words)
    IN  after

\* The commands that fit best when the loop has seen them all.
bestFits(table, words) == loop(table, words)[Len(table)].cmds

\* CheckCephArgs returns no error.
CheckCephArgs(table, args) ==
    LET stripped == stripFormat(args)
        words == stripped.words
        best == bestFits(table, words)
    IN  /\ stripped.ok
        /\ words # << >>
        /\ \/ IsPgRead(words)
           \/ best # {} /\ \A c \in best : c.perm = "r"

-----------------------------------------------------------------------------
(* What the comments of the three promise, without a loop.                  *)

\* "Only output-format flags are accepted", each with a format.
FormatsWell(args) ==
    \A i \in DOMAIN args :
        /\ args[i] \in FormatFlags => i < Len(args) /\ args[i + 1] \in formats
        /\ args[i] \notin OtherOptions

\* The words of the command are those that are neither a flag nor its format,
\* in their order.
Plain(args) ==
    {i \in DOMAIN args :
        /\ args[i] \notin FormatFlags \cup FormatWords
        /\ i > 1 => args[i - 1] \notin FormatFlags}

Place(P, i) == Cardinality({j \in P : j <= i})

CommandWords(args) ==
    [k \in 1..Cardinality(Plain(args)) |->
        args[CHOOSE i \in Plain(args) : Place(Plain(args), i) = k]]

\* "How many literal words of c match words at their positions; 0 when any
\* literal mismatches or words don't fit the signature's length."
Literals(c) == {i \in DOMAIN c.sig : c.sig[i] # Param}

Fits(c, words) ==
    /\ Len(words) > Len(c.sig) => c.rest
    /\ \A i \in Literals(c) : ~ (i > Len(words)) /\ words[i] = c.sig[i]

Matches(c, words) == IF Fits(c, words) THEN Cardinality(Literals(c)) ELSE 0

\* Some command matches, and every one that no other matches better is marked
\* exactly "r"; or it is a named read of a placement group.
ReadOnly(commands, args) ==
    LET words == CommandWords(args)
        fitting == {c \in commands : Matches(c, words) > 0}
    IN  /\ FormatsWell(args) /\ words # << >>
        /\ \/ IsPgRead(words)
           \/ /\ fitting # {}
              /\ \A c \in fitting :
                    \/ c.perm = "r"
                    \/ \E d \in fitting : Matches(d, words) > Matches(c, words)
=============================================================================
