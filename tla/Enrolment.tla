------------------------------ MODULE Enrolment ------------------------------
(***************************************************************************)
(* The identity directory: `cube-advisor-agent enroll` writing it          *)
(* (cmd/agent/main.go, internal/identity), killed or failing at any file   *)
(* operation, and `run` reading it file by file at startup.                *)
(*                                                                         *)
(* A file holds the number of the enrolment that wrote it, 0 when absent.  *)
(* os.WriteFile truncates, then writes: between the two the file is empty. *)
(* Private keys, certificates and CAs are known only by their number.      *)
(***************************************************************************)
EXTENDS Naturals

CONSTANTS
    Enrollers,  \* enroll processes that may run at the same time
    MaxIssued,  \* bound: enrolments the SaaS answers
    WithCA,     \* whether its answer may carry, or lack, the CA
    Says        \* per enrolment: the dials of its answer, as Words

\* A dial's words, from the cautious to the loose: observe, operate, internal;
\* always, destructive, never.  An older Advisor says nothing of a dial.
Dials == {"level", "consent"}
Unsaid == 0
Words == 1..3
Default == 1  \* DefaultLevel, DefaultConsent

ASSUME EnrolAssumption ==
    /\ MaxIssued \in Nat
    /\ WithCA \subseteq BOOLEAN
    /\ Says \in [1..MaxIssued -> [Dials -> Words \cup {Unsaid}]]

Files == {"key", "crt", "ca", "server", "level", "consent", "console-ca"}
Absent == 0
Empty == MaxIssued + 1
Contents == 0..(MaxIssued + 1)

\* What Save writes, what enrollCmd writes after it when enrolment n's answer
\* has it, and what Remove deletes.  (A console-ca the answer lacks is a write
\* that fails before it has begun.)
SavedFiles(ca) == {"key", "crt"} \cup (IF ca THEN {"ca"} ELSE {})
ExtraFiles(n) == {"server", "console-ca"} \cup {d \in Dials : Says[n][d] # Unsaid}

\* Mutant: the CA, which not every enrolment writes, is forgotten.
RemovedFilesButCA == {"key", "crt", "server"}

RemovedFiles == {"key", "crt", "ca", "server"}

\* The order in which each of them goes through the files, removals first.
Place(f) ==
    CASE f = "key" -> 1
      [] f = "crt" -> 2
      [] f = "ca" -> 3
      [] f = "server" -> 4
      [] f = "level" -> 5
      [] f = "consent" -> 6
      [] f = "console-ca" -> 7
Rank(o) == IF o[1] = "remove" THEN Place(o[2]) ELSE 7 + Place(o[2])

\* os.Remove; os.WriteFile, which truncates and then fills.
Ops == {"remove", "write", "fill"}

VARIABLES
    file,    \* the directory
    issued,  \* how many identities the SaaS has issued
    pc,      \* per enroller: where it is, then how it ended
    force,   \* per enroller: -force was given
    id,      \* per enroller: the identity it was issued
    todo,    \* per enroller: the file operations it has left
    runner,  \* the run process: which file it reads next, or up
    loaded   \* what it read

enrolVars == <<issued, pc, force, id, todo>>
runVars == <<runner, loaded>>
vars == <<file, enrolVars, runVars>>

Exits == {"ok", "already", "refused", "unreachable", "failed", "killed"}
\* What run does next: the identity, the check of the pair, then its dials.
AfterRead == [server |-> "key", key |-> "crt", crt |-> "ca", ca |-> "check",
              level |-> "consent", consent |-> "up"]
Needed == {"server", "key", "crt"}  \* without these run exits

TypeOK ==
    /\ file \in [Files -> Contents]
    /\ issued \in 0..MaxIssued
    /\ pc \in [Enrollers -> {"idle", "asking", "writing"} \cup Exits]
    /\ force \in [Enrollers -> BOOLEAN]
    /\ id \in [Enrollers -> 0..MaxIssued]
    /\ todo \in [Enrollers -> SUBSET (Ops \X Files)]
    /\ \A p \in Enrollers : pc[p] = "writing" => todo[p] # {}
    /\ runner \in {"off", "check", "up"} \cup DOMAIN AfterRead
    /\ loaded \in [Files -> Contents]

Init ==
    /\ file = [f \in Files |-> Absent]
    /\ issued = 0
    /\ pc = [p \in Enrollers |-> "idle"]
    /\ force = [p \in Enrollers |-> FALSE]
    /\ id = [p \in Enrollers |-> 0]
    /\ todo = [p \in Enrollers |-> {}]
    /\ runner = "off"
    /\ loaded = [f \in Files |-> Absent]

\* identity.Exists: a key and a certificate are there, whatever they hold.
Exists == file["key"] # Absent /\ file["crt"] # Absent

-----------------------------------------------------------------------------
(* enroll.                                                                 *)

Running(p) == pc[p] \in {"asking", "writing"}

\* Mutant: the identity in place is not looked for.
BeginUnchecked(p, f) ==
    /\ ~Running(p)
    /\ force' = [force EXCEPT ![p] = f]
    /\ id' = [id EXCEPT ![p] = 0]
    /\ todo' = [todo EXCEPT ![p] = {}]
    /\ pc' = [pc EXCEPT ![p] = "asking"]
    /\ UNCHANGED <<file, issued, runVars>>

\* enrollCmd up to the request.  EnrollAndSave's own Exists follows at once.
Begin(p, f) ==
    /\ ~Running(p)
    /\ force' = [force EXCEPT ![p] = f]
    /\ id' = [id EXCEPT ![p] = 0]
    /\ todo' = [todo EXCEPT ![p] = {}]
    /\ pc' = [pc EXCEPT ![p] = IF Exists /\ ~f THEN "already" ELSE "asking"]
    /\ UNCHANGED <<file, issued, runVars>>

Writes(n, ca) == {"write"} \X (SavedFiles(ca) \cup ExtraFiles(n))
Removals == {"remove"} \X RemovedFiles

\* The file operations enrolment n goes through.
Plan(p, n, ca) == (IF force[p] THEN Removals ELSE {}) \cup Writes(n, ca)

\* The SaaS signs: Enroll returns an identity that matches its key.
Answered(p) ==
    /\ pc[p] = "asking"
    /\ issued < MaxIssued
    /\ issued' = issued + 1
    /\ id' = [id EXCEPT ![p] = issued + 1]
    /\ pc' = [pc EXCEPT ![p] = "writing"]
    /\ \E ca \in WithCA : todo' = [todo EXCEPT ![p] = Plan(p, issued + 1, ca)]
    /\ UNCHANGED <<file, force, runVars>>

\* Mutant: -force clears the directory before it has an identity.
NotAnsweredCleared(p) ==
    /\ pc[p] = "asking"
    /\ pc' = [pc EXCEPT ![p] = "refused"]
    /\ file' = IF force[p] THEN [f \in Files |-> IF f \in RemovedFiles THEN Absent ELSE file[f]]
               ELSE file
    /\ UNCHANGED <<issued, force, id, todo, runVars>>

\* The token is refused, or no answer comes; the SaaS may have signed all the
\* same.
NotAnswered(p) ==
    /\ pc[p] = "asking"
    /\ \/ pc' = [pc EXCEPT ![p] = "refused"] /\ UNCHANGED issued
       \/ /\ pc' = [pc EXCEPT ![p] = "unreachable"]
          /\ issued' \in {issued, issued + 1} \cap (0..MaxIssued)
    /\ UNCHANGED <<file, force, id, todo, runVars>>

\* Of the operations p has left, o is the one to come.
First(p, o) ==
    /\ pc[p] = "writing"
    /\ o \in todo[p]
    /\ \A q \in todo[p] : Rank(o) <= Rank(q)

\* When nothing is left, enroll has succeeded.
Leaves(p, rest) ==
    /\ todo' = [todo EXCEPT ![p] = rest]
    /\ pc' = [pc EXCEPT ![p] = IF rest = {} THEN "ok" ELSE "writing"]
    /\ UNCHANGED <<issued, force, id, runVars>>

RemoveFile(p, f) ==
    /\ First(p, <<"remove", f>>)
    /\ file' = [file EXCEPT ![f] = Absent]
    /\ Leaves(p, todo[p] \ {<<"remove", f>>})

TruncateFile(p, f) ==
    /\ First(p, <<"write", f>>)
    /\ file' = [file EXCEPT ![f] = Empty]
    /\ Leaves(p, (todo[p] \ {<<"write", f>>}) \cup {<<"fill", f>>})

FillFile(p, f) ==
    /\ First(p, <<"fill", f>>)
    /\ file' = [file EXCEPT ![f] = id[p]]
    /\ Leaves(p, todo[p] \ {<<"fill", f>>})

\* An operation fails: fatal in Remove and Save, reported and passed over after
\* them.
FileFails(p, o) ==
    /\ First(p, o)
    /\ IF o[1] = "remove" \/ o[2] \in {"key", "crt", "ca"}
         THEN /\ pc' = [pc EXCEPT ![p] = "failed"]
              /\ UNCHANGED <<todo, issued, force, id, runVars>>
         ELSE Leaves(p, todo[p] \ {o})
    /\ UNCHANGED file

\* The process is killed, or the node goes down.
Killed(p) ==
    /\ Running(p)
    /\ pc' = [pc EXCEPT ![p] = "killed"]
    /\ UNCHANGED <<file, issued, force, id, todo, runVars>>

-----------------------------------------------------------------------------
(* run.                                                                    *)

\* With -server the operator names the address, and none is read.
RunStarts ==
    /\ runner = "off"
    /\ runner' \in {"server", "key"}
    /\ loaded' = [f \in Files |-> Absent]
    /\ UNCHANGED <<file, enrolVars>>

\* resolveServerAddr, Load, ReadLevel and ReadConsent: one file at a time.
RunReads ==
    /\ runner \in DOMAIN AfterRead
    /\ IF runner \in Needed /\ file[runner] \in {Absent, Empty}
         THEN runner' = "off" /\ UNCHANGED loaded
         ELSE /\ runner' = AfterRead[runner]
              /\ loaded' = [loaded EXCEPT ![runner] = file[runner]]
    /\ UNCHANGED <<file, enrolVars>>

\* tls.X509KeyPair: the certificate is the key's.
KeyPair == loaded["key"] = loaded["crt"]

\* TLSConfig: the agent goes on to configure, or exits for systemd to restart.
RunServes ==
    /\ runner = "check"
    /\ runner' = IF KeyPair THEN "level" ELSE "off"
    /\ UNCHANGED <<file, loaded, enrolVars>>

RunStops ==
    /\ runner = "up"
    /\ runner' = "off"
    /\ UNCHANGED <<file, loaded, enrolVars>>

\* TLSConfig sets RootCAs only from a CA it has; without, Go trusts the
\* system's roots.
TrustsEnrolmentCA == loaded["ca"] \notin {Absent, Empty}

\* Mutant: nothing said is nothing asked.
ServedBlankIsLoose(d) == IF loaded[d] \in {Absent, Empty} THEN 3 ELSE Says[loaded[d]][d]

\* A missing, empty or half-written dial is the cautious default.
Served(d) == IF loaded[d] \in {Absent, Empty} THEN Default ELSE Says[loaded[d]][d]

-----------------------------------------------------------------------------
Enrol(p) ==
    \/ \E f \in BOOLEAN : Begin(p, f)
    \/ Answered(p) \/ NotAnswered(p) \/ Killed(p)
    \/ \E f \in Files : RemoveFile(p, f) \/ TruncateFile(p, f) \/ FillFile(p, f)
    \/ \E o \in Ops \X Files : FileFails(p, o)

Next ==
    \/ \E p \in Enrollers : Enrol(p)
    \/ RunStarts \/ RunReads \/ RunServes \/ RunStops

Spec == Init /\ [][Next]_vars

-----------------------------------------------------------------------------
Working(n) == n \in 1..MaxIssued /\ file["key"] = n /\ file["crt"] = n

\* The directory changes only at the hands of an enroll that holds a new
\* identity: a refused or unanswered one leaves the node exactly as it was.
NodeKeptUntilAnswered ==
    [][ file' # file => \E p \in Enrollers : pc[p] = "writing" /\ id[p] # 0 ]_vars

\* Nobody else has enrolled meanwhile.
Alone(p) == \A q \in Enrollers \ {p} : pc[q] = "idle"

\* An enroll that reports success leaves its key and its certificate in place,
\* and no CA or tunnel address of an earlier enrolment survives a forced one.
SuccessIsUsable ==
    \A p \in Enrollers :
        pc[p] = "ok" /\ Alone(p) =>
            /\ Working(id[p])
            /\ file["ca"] \in {Absent, id[p]} \/ ~force[p]
            /\ file["server"] \in {Absent, Empty, id[p]} \/ ~force[p]

\* A run that starts while enroll rewrites the dials in place, or after enroll
\* was killed in the middle, serves only words that an enrolment said: with a
\* dial out of the file for a moment it is at the default.
DialsAreSaid ==
    runner = "up" =>
        \A d \in Dials :
            Served(d) = Default \/ \E n \in 1..issued : Served(d) = Says[n][d] /\ Served(d) \in Words

-----------------------------------------------------------------------------
(* The inductive invariant behind them.                                    *)

\* Files hold what enrolments wrote, each only what its answer said.
Written(c) == c \notin {Absent, Empty}
FilesAreIssued ==
    /\ \A f \in Files : /\ Written(file[f]) => file[f] <= issued
                        /\ Written(loaded[f]) => loaded[f] <= issued
    /\ \A d \in Dials : /\ Written(file[d]) => Says[file[d]][d] # Unsaid
                        /\ Written(loaded[d]) => Says[loaded[d]][d] # Unsaid
    /\ \A p \in Enrollers :
          /\ id[p] <= issued
          /\ pc[p] \in {"writing", "ok"} => id[p] > 0
          /\ pc[p] = "writing" =>
                \A d \in Dials, op \in Ops : <<op, d>> \in todo[p] => Says[id[p]][d] # Unsaid

\* p has yet to write f.
Unwritten(p, f) == <<"write", f>> \in todo[p] \/ <<"fill", f>> \in todo[p]

\* What is left to do leads to a usable identity: what is removed is written
\* again, and what was there before is removed.
LeftIsEnough ==
    \A p \in Enrollers :
        Alone(p) /\ pc[p] \in {"writing", "ok"} =>
            /\ pc[p] = "ok" => todo[p] = {}
            /\ \A f \in {"key", "crt"} :
                  /\ file[f] = id[p] \/ Unwritten(p, f)
                  /\ <<"remove", f>> \in todo[p] => <<"write", f>> \in todo[p]
            /\ force[p] =>
                  /\ \/ file["ca"] \in {Absent, id[p]}
                     \/ <<"remove", "ca">> \in todo[p] \/ Unwritten(p, "ca")
                  /\ \/ file["server"] \in {Absent, Empty, id[p]}
                     \/ <<"remove", "server">> \in todo[p]

\* Without -force there was no identity to begin with, and there is none until
\* the last of its two files is written, once each.
UnforcedFindsNone ==
    \A p \in Enrollers :
        Alone(p) /\ ~force[p] =>
            /\ pc[p] = "asking" => ~Exists
            /\ pc[p] = "writing" =>
                  /\ \A f \in Files : <<"remove", f>> \notin todo[p]
                  /\ \A f \in {"key", "crt"} :
                        /\ <<"write", f>> \in todo[p] =>
                              file[f] # id[p] /\ <<"fill", f>> \notin todo[p]
                        /\ <<"fill", f>> \in todo[p] => file[f] = Empty
                        /\ Unwritten(p, f) => \A n \in 1..MaxIssued : ~Working(n)

IndInv == TypeOK /\ FilesAreIssued /\ LeftIsEnough /\ UnforcedFindsNone

-----------------------------------------------------------------------------
(* What comments of the source say and the code does not do.               *)

\* run.go says the agent trusts nothing but the enrolment CA.
TrustsNothingElse == runner = "up" => TrustsEnrolmentCA

\* enroll.go and identity.go say that enrolling a second time without -force
\* never replaces a working identity; Exists is asked before the request and not
\* again before Save.
OnlyForceReplaces ==
    [][ \A n \in 1..MaxIssued : (Working(n) /\ ~Working(n)')
        => \E p \in Enrollers : force[p] /\ pc[p] = "writing" ]_vars
=============================================================================
