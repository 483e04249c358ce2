-------------------------- MODULE Enrolment_proofs --------------------------
(* Proofs about the identity directory, for any number of enroll processes,  *)
(* any number of enrolments and whatever they say of the dials.              *)
EXTENDS Enrolment, TLAPS

USE EnrolAssumption DEF IndInv

LEMMA InitOK == Init => IndInv
  BY DEF Init, TypeOK, Files, Dials, Contents, Absent, Empty, FilesAreIssued, Written,
         LeftIsEnough, UnforcedFindsNone

LEMMA StutterOK == IndInv /\ UNCHANGED vars => IndInv'
  BY DEF vars, enrolVars, runVars, TypeOK, FilesAreIssued, LeftIsEnough, UnforcedFindsNone,
         Alone, Unwritten, Exists, Working

-----------------------------------------------------------------------------
(* run, which reads and changes nothing.                                   *)

LEMMA RunOK ==
    ASSUME IndInv, RunStarts \/ RunReads \/ RunServes \/ RunStops
    PROVE  IndInv'
<1>1. /\ UNCHANGED <<file, enrolVars>>
      /\ \A f \in Files : loaded'[f] \in {loaded[f], file[f], Absent}
      /\ loaded' \in [Files -> Contents]
      /\ runner' \in {"off", "check", "up"} \cup DOMAIN AfterRead
  <2>1. /\ DOMAIN AfterRead = {"server", "key", "crt", "ca", "level", "consent"}
        /\ DOMAIN AfterRead \subseteq Files
        /\ \A f \in DOMAIN AfterRead :
              AfterRead[f] \in {"off", "check", "up"} \cup DOMAIN AfterRead
    BY DEF AfterRead, Files
  <2>2. Absent \in Contents
    BY DEF Absent, Contents
  <2>3. CASE RunStarts
    BY <2>1, <2>2, <2>3 DEF RunStarts, TypeOK
  <2>4. CASE RunReads
    BY <2>1, <2>4 DEF RunReads, TypeOK
  <2>5. CASE RunServes \/ RunStops
    BY <2>1, <2>5 DEF RunServes, RunStops, TypeOK
  <2> QED
    BY <2>3, <2>4, <2>5
<1>2. TypeOK'
  BY <1>1 DEF TypeOK, enrolVars
<1>3. FilesAreIssued'
  <2>1. Dials \subseteq Files
    BY DEF Dials, Files
  <2> QED
    BY <1>1, <2>1 DEF FilesAreIssued, Written, enrolVars
<1>4. LeftIsEnough' /\ UnforcedFindsNone'
  BY <1>1 DEF LeftIsEnough, UnforcedFindsNone, Alone, Unwritten, Exists, Working, enrolVars
<1> QED
  BY <1>2, <1>3, <1>4

-----------------------------------------------------------------------------
(* enroll.                                                                 *)

\* A step of p alone that leaves the files: the other processes' parts stand.
LEMMA BeginOK ==
    ASSUME IndInv, NEW p \in Enrollers, NEW f \in BOOLEAN, Begin(p, f) PROVE IndInv'
<1> USE DEF Begin
<1>1. \A q \in Enrollers :
        /\ pc'[q] = IF q = p THEN IF Exists /\ ~f THEN "already" ELSE "asking" ELSE pc[q]
        /\ force'[q] = IF q = p THEN f ELSE force[q]
        /\ id'[q] = IF q = p THEN 0 ELSE id[q]
        /\ todo'[q] = IF q = p THEN {} ELSE todo[q]
  BY DEF TypeOK
<1>2. TypeOK'
  BY <1>1 DEF TypeOK, Exits, runVars
<1>3. FilesAreIssued'
  BY <1>1 DEF FilesAreIssued, runVars, TypeOK
<1>4. \A q \in Enrollers : q # p => ~Alone(q)'
  BY <1>1 DEF Alone
<1>5. LeftIsEnough'
  BY <1>1, <1>4 DEF LeftIsEnough
<1>6. UnforcedFindsNone'
  BY <1>1, <1>4 DEF UnforcedFindsNone, Exists
<1> QED
  BY <1>2, <1>3, <1>5, <1>6

\* enroll ends or is ended before it writes, or while it does.
LEMMA EndsOK ==
    ASSUME IndInv, NEW p \in Enrollers, NotAnswered(p) \/ Killed(p) PROVE IndInv'
<1>1. /\ UNCHANGED <<file, force, id, todo, runVars>> /\ issued <= issued'
      /\ issued' \in 0..MaxIssued
      /\ \E how \in Exits \ {"ok"} : pc' = [pc EXCEPT ![p] = how]
      /\ pc[p] # "idle"
  BY DEF NotAnswered, Killed, Running, TypeOK, Exits
<1>2. \A q \in Enrollers : /\ q # p => pc'[q] = pc[q]
                           /\ pc'[p] \in Exits \ {"ok"}
  BY <1>1 DEF TypeOK
<1>3. TypeOK'
  BY <1>1, <1>2 DEF TypeOK, runVars, Exits
<1>4. FilesAreIssued'
  BY <1>1, <1>2 DEF FilesAreIssued, Written, runVars, TypeOK, Exits, Contents, Absent, Empty
<1>5. \A q \in Enrollers : q # p => ~Alone(q)'
  BY <1>2 DEF Alone, Exits
<1>6. LeftIsEnough' /\ UnforcedFindsNone'
  BY <1>2, <1>5 DEF LeftIsEnough, UnforcedFindsNone, Exits
<1> QED
  BY <1>3, <1>4, <1>6

LEMMA AnsweredOK == ASSUME IndInv, NEW p \in Enrollers, Answered(p) PROVE IndInv'
<1> DEFINE n == issued + 1
<1>1. PICK ca \in WithCA : todo' = [todo EXCEPT ![p] = Plan(p, n, ca)]
  BY DEF Answered
<1>2. /\ UNCHANGED <<file, force, runVars>> /\ issued' = n /\ n \in 1..MaxIssued
      /\ pc[p] = "asking"
      /\ \A q \in Enrollers :
            /\ pc'[q] = IF q = p THEN "writing" ELSE pc[q]
            /\ id'[q] = IF q = p THEN n ELSE id[q]
            /\ todo'[q] = IF q = p THEN Plan(p, n, ca) ELSE todo[q]
  BY <1>1 DEF Answered, TypeOK
<1>3. /\ Plan(p, n, ca) \subseteq Ops \X Files
      /\ \A f \in {"key", "crt", "server"} : <<"write", f>> \in Plan(p, n, ca)
      /\ \A f \in Files : <<"fill", f>> \notin Plan(p, n, ca)
      /\ \A f \in Files : ~force[p] => <<"remove", f>> \notin Plan(p, n, ca)
      /\ force[p] => \A f \in RemovedFiles : <<"remove", f>> \in Plan(p, n, ca)
      /\ \A d \in Dials, op \in Ops : <<op, d>> \in Plan(p, n, ca) => Says[n][d] # Unsaid
  BY DEF Plan, Writes, Removals, SavedFiles, ExtraFiles, RemovedFiles, Ops, Files, Dials
<1>4. /\ issued \in Nat /\ n \in Nat /\ n # Empty
      /\ \A k \in Nat : k <= issued => k <= n /\ k # n
  BY <1>2 DEF TypeOK, Empty
<1> HIDE DEF n
<1>5. TypeOK'
  <2>1. todo' \in [Enrollers -> SUBSET (Ops \X Files)]
    BY <1>1, <1>3 DEF TypeOK
  <2>2. /\ id' \in [Enrollers -> 0..MaxIssued]
        /\ pc' \in [Enrollers -> {"idle", "asking", "writing"} \cup Exits]
    BY <1>2, <1>4 DEF Answered, TypeOK
  <2>3. \A q \in Enrollers : pc'[q] = "writing" => todo'[q] # {}
    BY <1>2, <1>3 DEF TypeOK
  <2>4. issued' \in 0..MaxIssued
    BY <1>2
  <2> QED
    BY <1>2, <2>1, <2>2, <2>3, <2>4 DEF TypeOK, runVars
<1>6. FilesAreIssued'
  <2>1. ASSUME NEW q \in Enrollers PROVE id[q] <= n
    <3>1. id[q] \in Nat /\ id[q] <= issued
      BY DEF FilesAreIssued, TypeOK
    <3> QED
      BY <1>4, <3>1
  <2>2. ASSUME NEW q \in Enrollers PROVE id'[q] <= issued'
    <3>1. n <= n
      BY <1>4
    <3> QED
      BY <1>2, <2>1, <3>1
  <2>3. ASSUME NEW f \in Files
        PROVE  /\ Written(file[f]) => file[f] <= n
               /\ Written(loaded[f]) => loaded[f] <= n
    <3>1. /\ file[f] \in Nat /\ (Written(file[f]) => file[f] <= issued)
          /\ loaded[f] \in Nat /\ (Written(loaded[f]) => loaded[f] <= issued)
      BY DEF FilesAreIssued, TypeOK, Contents
    <3> QED
      BY <1>4, <3>1
  <2>4. \A q \in Enrollers :
           /\ pc'[q] \in {"writing", "ok"} => id'[q] > 0
           /\ pc'[q] = "writing" =>
                 \A d \in Dials, op \in Ops : <<op, d>> \in todo'[q] => Says[id'[q]][d] # Unsaid
    BY <1>2, <1>3 DEF FilesAreIssued
  <2>5. \A d \in Dials : /\ Written(file[d]) => Says[file[d]][d] # Unsaid
                         /\ Written(loaded[d]) => Says[loaded[d]][d] # Unsaid
    BY DEF FilesAreIssued
  <2> QED
    BY <1>2, <2>2, <2>3, <2>4, <2>5 DEF FilesAreIssued, Written, runVars
<1>7. \A q \in Enrollers : q # p => ~Alone(q)'
  BY <1>2 DEF Alone
<1>8. LeftIsEnough'
  BY <1>2, <1>3, <1>7 DEF LeftIsEnough, Unwritten, RemovedFiles
<1>9. UnforcedFindsNone'
  <2> SUFFICES ASSUME Alone(p), ~force[p]
               PROVE  /\ \A f \in {"key", "crt"} : file[f] # n
                      /\ \A k \in 1..MaxIssued : ~Working(k)
    BY <1>2, <1>3, <1>7 DEF UnforcedFindsNone, Alone, Working
  <2>1. ~Exists
    BY <1>2 DEF UnforcedFindsNone
  <2>2. \A f \in {"key", "crt"} : file[f] # n
    <3>1. ASSUME NEW f \in {"key", "crt"} PROVE file[f] # n
      <4>1. f \in Files /\ file[f] \in Nat /\ n # 0
        BY <1>2 DEF TypeOK, Files, Contents
      <4>2. file[f] \in {0, Empty} \/ file[f] <= issued
        BY <4>1 DEF FilesAreIssued, Written, Absent
      <4> QED
        BY <1>4, <4>1, <4>2
    <3> QED
      BY <3>1
  <2> QED
    BY <2>1, <2>2 DEF Exists, Working, Absent
<1> QED
  BY <1>5, <1>6, <1>8, <1>9

\* Removals come first, and the certificate after the key.
LEMMA Ranks ==
    /\ \A f, g \in Files : \A op \in {"write", "fill"} :
          ~(Rank(<<op, f>>) <= Rank(<<"remove", g>>))
    /\ \A op \in {"write", "fill"} : ~(Rank(<<"fill", "crt">>) <= Rank(<<op, "key">>))
<1>1. \A f \in Files : Place(f) \in 1..7
  BY DEF Files, Place
<1>2. Place("key") = 1 /\ Place("crt") = 2
  BY DEF Place
<1>3. \A f \in Files : /\ Rank(<<"remove", f>>) = Place(f)
                       /\ Rank(<<"write", f>>) = 7 + Place(f)
                       /\ Rank(<<"fill", f>>) = 7 + Place(f)
  BY DEF Rank
<1>4. ASSUME NEW f \in Files, NEW g \in Files, NEW op \in {"write", "fill"}
      PROVE  ~(Rank(<<op, f>>) <= Rank(<<"remove", g>>))
  <2>1. /\ Rank(<<op, f>>) = 7 + Place(f) /\ Rank(<<"remove", g>>) = Place(g)
        /\ Place(f) \in 1..7 /\ Place(g) \in 1..7
    BY <1>1, <1>3
  <2> QED
    BY <2>1
<1>5. /\ Rank(<<"write", "key">>) = 8 /\ Rank(<<"fill", "key">>) = 8
      /\ Rank(<<"write", "crt">>) = 9 /\ Rank(<<"fill", "crt">>) = 9
  BY <1>2 DEF Rank
<1>6. \A op \in {"write", "fill"} : ~(Rank(<<"fill", "crt">>) <= Rank(<<op, "key">>))
  <2>1. ~(9 <= 8)
    OBVIOUS
  <2> QED
    BY <1>5, <2>1
<1> QED
  BY <1>4, <1>6

\* What every file operation, done or failed, has in common: a file holds
\* what it held, nothing, or what the step filled it with.
LEMMA OperatesOK ==
    ASSUME IndInv, NEW p \in Enrollers, pc[p] = "writing",
           UNCHANGED <<issued, force, id, runVars>>,
           NEW f \in Files, NEW c \in {file[f], Absent, Empty, id[p]},
           c = id[p] => c = file[f] \/ <<"fill", f>> \in todo[p],
           file' = [file EXCEPT ![f] = c],
           NEW rest \in SUBSET (Ops \X Files),
           \A o \in rest : o \in todo[p] \/ (o = <<"fill", f>> /\ <<"write", f>> \in todo[p]),
           todo' = [todo EXCEPT ![p] = rest],
           NEW where \in {"failed", IF rest = {} THEN "ok" ELSE "writing"},
           pc' = [pc EXCEPT ![p] = where]
    PROVE  TypeOK' /\ FilesAreIssued' /\ \A q \in Enrollers : q # p => ~Alone(q)'
<1>1. \A q \in Enrollers :
         /\ pc'[q] = IF q = p THEN where ELSE pc[q]
         /\ todo'[q] = IF q = p THEN rest ELSE todo[q]
  BY DEF TypeOK
<1>2. \A g \in Files : file'[g] = IF g = f THEN c ELSE file[g]
  BY DEF TypeOK
<1>3. id[p] \in 1..issued /\ id[p] \in Contents /\ c \in Contents /\ file[f] \in Contents
  BY DEF TypeOK, FilesAreIssued, Contents, Absent, Empty
<1>4. TypeOK'
  <2>1. file' \in [Files -> Contents] /\ todo' \in [Enrollers -> SUBSET (Ops \X Files)]
    BY <1>3 DEF TypeOK
  <2>2. pc' \in [Enrollers -> {"idle", "asking", "writing"} \cup Exits]
    BY DEF TypeOK, Exits
  <2>3. \A q \in Enrollers : pc'[q] = "writing" => todo'[q] # {}
    BY <1>1 DEF TypeOK
  <2> QED
    BY <2>1, <2>2, <2>3 DEF TypeOK, runVars
<1>5. FilesAreIssued'
  <2>1. Written(c) => c <= issued
    BY <1>3 DEF FilesAreIssued, Written, Absent, Empty
  <2>2. f \in Dials /\ Written(c) => Says[c][f] # Unsaid
    BY DEF FilesAreIssued, Written, Ops
  <2>3. \A q \in Enrollers :
           /\ pc'[q] \in {"writing", "ok"} => id[q] > 0
           /\ pc'[q] = "writing" =>
                 \A d \in Dials, op \in Ops : <<op, d>> \in todo'[q] => Says[id[q]][d] # Unsaid
    BY <1>1, <1>3 DEF FilesAreIssued, Ops
  <2>4. \A d \in Dials : d \in Files
    BY DEF Dials, Files
  <2> QED
    BY <1>2, <2>1, <2>2, <2>3, <2>4 DEF FilesAreIssued, Written, runVars
<1>6. \A q \in Enrollers : q # p => ~Alone(q)'
  BY <1>1 DEF Alone
<1> QED
  BY <1>4, <1>5, <1>6

LEMMA RemoveFileOK ==
    ASSUME IndInv, NEW p \in Enrollers, NEW f \in Files, RemoveFile(p, f) PROVE IndInv'
<1> DEFINE rest == todo[p] \ {<<"remove", f>>}
<1> USE DEF RemoveFile, Leaves
<1>1. /\ pc[p] = "writing" /\ <<"remove", f>> \in todo[p]
      /\ rest \in SUBSET (Ops \X Files) /\ todo' = [todo EXCEPT ![p] = rest]
      /\ pc' = [pc EXCEPT ![p] = IF rest = {} THEN "ok" ELSE "writing"]
      /\ file' = [file EXCEPT ![f] = Absent] /\ UNCHANGED <<issued, force, id, runVars>>
  BY DEF First, TypeOK
<1>2. id[p] # Absent
  BY <1>1 DEF FilesAreIssued, TypeOK, Absent
<1>3. TypeOK' /\ FilesAreIssued' /\ \A q \in Enrollers : q # p => ~Alone(q)'
  BY <1>1, <1>2, OperatesOK
<1>4. /\ \A g \in Files : file'[g] = IF g = f THEN Absent ELSE file[g]
      /\ todo'[p] = rest /\ pc'[p] = (IF rest = {} THEN "ok" ELSE "writing")
      /\ Alone(p)' <=> Alone(p)
  BY <1>1 DEF TypeOK, Alone
<1>5. LeftIsEnough'
  <2>1. \A g \in Files, a \in Ops : <<a, g>> \in todo'[p] <=> <<a, g>> \in todo[p] /\ ~(a = "remove" /\ g = f)
    BY <1>4
  <2>2. \A g \in Files : file'[g] # file[g] => file'[g] = Absent /\ <<"remove", g>> \in todo[p]
    BY <1>1, <1>4
  <2>3. {"key", "crt", "ca", "server"} \subseteq Files /\ Ops = {"remove", "write", "fill"}
    BY DEF Files, Ops
  <2>4. pc'[p] = "ok" => todo'[p] = {}
    BY <1>4
  <2> HIDE DEF rest, RemoveFile, Leaves
  <2>5. ASSUME Alone(p), NEW g \in {"key", "crt"}
        PROVE  /\ file'[g] = id[p] \/ <<"write", g>> \in todo'[p] \/ <<"fill", g>> \in todo'[p]
               /\ <<"remove", g>> \in todo'[p] => <<"write", g>> \in todo'[p]
    <3>1. /\ file[g] = id[p] \/ <<"write", g>> \in todo[p] \/ <<"fill", g>> \in todo[p]
          /\ <<"remove", g>> \in todo[p] => <<"write", g>> \in todo[p]
      BY <1>1, <2>5 DEF LeftIsEnough, Unwritten
    <3> QED
      BY <2>1, <2>2, <2>3, <3>1
  <2>6. ASSUME Alone(p), force[p]
        PROVE  /\ \/ file'["ca"] \in {Absent, id[p]} \/ <<"remove", "ca">> \in todo'[p]
                  \/ <<"write", "ca">> \in todo'[p] \/ <<"fill", "ca">> \in todo'[p]
               /\ \/ file'["server"] \in {Absent, Empty, id[p]}
                  \/ <<"remove", "server">> \in todo'[p]
    <3>1. /\ \/ file["ca"] \in {Absent, id[p]} \/ <<"remove", "ca">> \in todo[p]
             \/ <<"write", "ca">> \in todo[p] \/ <<"fill", "ca">> \in todo[p]
          /\ \/ file["server"] \in {Absent, Empty, id[p]}
             \/ <<"remove", "server">> \in todo[p]
      BY <1>1, <2>6 DEF LeftIsEnough, Unwritten
    <3>2. \A g \in {"ca", "server"} : <<"remove", g>> \in todo[p] =>
             <<"remove", g>> \in todo'[p] \/ file'[g] = Absent
      BY <1>4, <2>1, <2>3
    <3> QED
      BY <2>1, <2>2, <2>3, <3>1, <3>2
  <2> QED
    BY <1>1, <1>3, <1>4, <2>4, <2>5, <2>6 DEF LeftIsEnough, Unwritten
<1>6. UnforcedFindsNone'
  BY <1>1, <1>3, <1>4 DEF UnforcedFindsNone
<1> QED
  BY <1>3, <1>5, <1>6

LEMMA TruncateFileOK ==
    ASSUME IndInv, NEW p \in Enrollers, NEW f \in Files, TruncateFile(p, f) PROVE IndInv'
<1> DEFINE rest == (todo[p] \ {<<"write", f>>}) \cup {<<"fill", f>>}
<1> USE DEF TruncateFile, Leaves
<1>1. /\ pc[p] = "writing" /\ <<"write", f>> \in todo[p]
      /\ rest \in SUBSET (Ops \X Files) /\ todo' = [todo EXCEPT ![p] = rest]
      /\ pc' = [pc EXCEPT ![p] = IF rest = {} THEN "ok" ELSE "writing"]
      /\ file' = [file EXCEPT ![f] = Empty] /\ UNCHANGED <<issued, force, id, runVars>>
  BY DEF First, TypeOK, Ops
<1>2. id[p] \in 1..MaxIssued /\ id[p] # Empty
  BY <1>1 DEF FilesAreIssued, TypeOK, Empty
<1>3. TypeOK' /\ FilesAreIssued' /\ \A q \in Enrollers : q # p => ~Alone(q)'
  <2>1. \A o \in rest : o \in todo[p] \/ (o = <<"fill", f>> /\ <<"write", f>> \in todo[p])
    BY <1>1
  <2> HIDE DEF rest
  <2> QED
    BY <1>1, <1>2, <2>1, OperatesOK
<1>4. /\ \A g \in Files : file'[g] = IF g = f THEN Empty ELSE file[g]
      /\ todo'[p] = rest /\ pc'[p] = "writing"
      /\ Alone(p)' <=> Alone(p)
  BY <1>1 DEF TypeOK, Alone
<1>5. \A g \in Files : <<"remove", g>> \notin todo[p]
  BY Ranks DEF First
<1>6. LeftIsEnough'
  BY <1>1, <1>3, <1>4, <1>5 DEF LeftIsEnough, Unwritten, Files
<1>7. ASSUME Alone(p), ~force[p], NEW g \in {"key", "crt"}
      PROVE  /\ <<"write", g>> \in rest => file'[g] # id[p] /\ <<"fill", g>> \notin rest
             /\ <<"fill", g>> \in rest => file'[g] = Empty
             /\ <<"write", g>> \in rest \/ <<"fill", g>> \in rest =>
                   \A n \in 1..MaxIssued : ~(file'["key"] = n /\ file'["crt"] = n)
  <2>1. g \in Files /\ {"key", "crt"} \subseteq Files
    BY DEF Files
  <2>2. CASE g = f
    BY <1>1, <1>2, <1>4, <1>7, <2>1, <2>2 DEF UnforcedFindsNone, Empty
  <2>3. CASE g # f
    <3>1. /\ <<"write", g>> \in rest => file[g] # id[p] /\ <<"fill", g>> \notin todo[p]
          /\ <<"fill", g>> \in rest => file[g] = Empty
          /\ <<"write", g>> \in rest \/ <<"fill", g>> \in rest =>
                   \A n \in 1..MaxIssued : ~(file["key"] = n /\ file["crt"] = n)
      BY <1>1, <1>7, <2>3 DEF UnforcedFindsNone, Unwritten, Working
    <3> QED
      BY <1>4, <2>1, <2>3, <3>1 DEF Empty
  <2> QED
    BY <2>2, <2>3
<1>8. UnforcedFindsNone'
  BY <1>1, <1>3, <1>4, <1>5, <1>7 DEF UnforcedFindsNone, Unwritten, Working
<1> QED
  BY <1>3, <1>6, <1>8

LEMMA FillFileOK ==
    ASSUME IndInv, NEW p \in Enrollers, NEW f \in Files, FillFile(p, f) PROVE IndInv'
<1> DEFINE rest == todo[p] \ {<<"fill", f>>}
<1> USE DEF FillFile, Leaves
<1>1. /\ pc[p] = "writing" /\ <<"fill", f>> \in todo[p]
      /\ rest \in SUBSET (Ops \X Files) /\ todo' = [todo EXCEPT ![p] = rest]
      /\ pc' = [pc EXCEPT ![p] = IF rest = {} THEN "ok" ELSE "writing"]
      /\ file' = [file EXCEPT ![f] = id[p]] /\ UNCHANGED <<issued, force, id, runVars>>
  BY DEF First, TypeOK
<1>2. id[p] \in 1..MaxIssued /\ id[p] # Empty
  BY <1>1 DEF FilesAreIssued, TypeOK, Empty
<1>3. TypeOK' /\ FilesAreIssued' /\ \A q \in Enrollers : q # p => ~Alone(q)'
  BY <1>1, OperatesOK
<1>4. /\ \A g \in Files : file'[g] = IF g = f THEN id[p] ELSE file[g]
      /\ todo'[p] = rest /\ pc'[p] = (IF rest = {} THEN "ok" ELSE "writing")
      /\ Alone(p)' <=> Alone(p)
  BY <1>1 DEF TypeOK, Alone
<1>5. \A g \in Files : <<"remove", g>> \notin todo[p]
  BY Ranks DEF First
<1>6. LeftIsEnough'
  BY <1>1, <1>3, <1>4, <1>5 DEF LeftIsEnough, Unwritten, Files
<1>7. ASSUME Alone(p), ~force[p], NEW g \in {"key", "crt"}
      PROVE  /\ <<"write", g>> \in rest => file'[g] # id[p] /\ <<"fill", g>> \notin rest
             /\ <<"fill", g>> \in rest => file'[g] = Empty
             /\ <<"write", g>> \in rest \/ <<"fill", g>> \in rest =>
                   \A n \in 1..MaxIssued : ~(file'["key"] = n /\ file'["crt"] = n)
  <2>1. g \in Files /\ {"key", "crt"} \subseteq Files
    BY DEF Files
  <2>2. /\ <<"write", g>> \in todo[p] => file[g] # id[p] /\ <<"fill", g>> \notin todo[p]
        /\ <<"fill", g>> \in todo[p] => file[g] = Empty
        /\ <<"write", g>> \in todo[p] \/ <<"fill", g>> \in todo[p] =>
                 \A n \in 1..MaxIssued : ~(file["key"] = n /\ file["crt"] = n)
    BY <1>1, <1>7 DEF UnforcedFindsNone, Unwritten, Working
  <2>3. CASE g = f
    BY <1>1, <2>2, <2>3
  <2>4. CASE g # f /\ f \notin {"key", "crt"}
    BY <1>4, <2>1, <2>2, <2>4
  <2>5. CASE g = "crt" /\ f = "key"
    BY <1>2, <1>4, <2>1, <2>2, <2>5
  <2>6. CASE g = "key" /\ f = "crt"
    BY <1>1, <2>6, Ranks DEF First
  <2> QED
    BY <2>3, <2>4, <2>5, <2>6
<1>8. UnforcedFindsNone'
  BY <1>1, <1>3, <1>4, <1>5, <1>7 DEF UnforcedFindsNone, Unwritten, Working
<1> QED
  BY <1>3, <1>6, <1>8

LEMMA FileFailsOK ==
    ASSUME IndInv, NEW p \in Enrollers, NEW o \in Ops \X Files, FileFails(p, o) PROVE IndInv'
<1>1. /\ pc[p] = "writing" /\ o \in todo[p] /\ file' = file
      /\ UNCHANGED <<issued, force, id, runVars>>
      /\ todo[p] \subseteq Ops \X Files
  BY DEF FileFails, Leaves, First, TypeOK
<1>2. PICK op \in Ops, f \in Files : o = <<op, f>>
  OBVIOUS
<1>3. file' = [file EXCEPT ![f] = file[f]]
  BY <1>1 DEF TypeOK
<1>4. CASE pc' = [pc EXCEPT ![p] = "failed"] /\ todo' = todo
  <2>1. todo' = [todo EXCEPT ![p] = todo[p]]
    BY <1>4 DEF TypeOK
  <2>2. TypeOK' /\ FilesAreIssued' /\ \A q \in Enrollers : q # p => ~Alone(q)'
    BY <1>1, <1>3, <1>4, <2>1, OperatesOK
  <2>3. pc'[p] = "failed"
    BY <1>4 DEF TypeOK
  <2> QED
    BY <2>2, <2>3 DEF LeftIsEnough, UnforcedFindsNone
<1>5. CASE Leaves(p, todo[p] \ {o}) /\ op # "remove" /\ f \notin {"key", "crt", "ca"}
  <2> DEFINE rest == todo[p] \ {o}
  <2>1. /\ rest \in SUBSET (Ops \X Files) /\ todo' = [todo EXCEPT ![p] = rest]
        /\ pc' = [pc EXCEPT ![p] = IF rest = {} THEN "ok" ELSE "writing"]
    BY <1>1, <1>5 DEF Leaves
  <2>2. TypeOK' /\ FilesAreIssued' /\ \A q \in Enrollers : q # p => ~Alone(q)'
    BY <1>1, <1>3, <2>1, OperatesOK
  <2>3. /\ todo'[p] = rest /\ pc'[p] = (IF rest = {} THEN "ok" ELSE "writing")
        /\ Alone(p)' <=> Alone(p)
    BY <2>1 DEF TypeOK, Alone
  <2>4. /\ \A g \in {"key", "crt", "ca"}, a \in Ops : <<a, g>> \in rest <=> <<a, g>> \in todo[p]
        /\ \A g \in Files : <<"remove", g>> \in rest <=> <<"remove", g>> \in todo[p]
    BY <1>2, <1>5
  <2>5. LeftIsEnough'
    BY <1>1, <2>2, <2>3, <2>4 DEF LeftIsEnough, Unwritten, Files, Ops
  <2>6. UnforcedFindsNone'
    BY <1>1, <2>2, <2>3, <2>4 DEF UnforcedFindsNone, Unwritten, Working, Ops
  <2> QED
    BY <2>2, <2>5, <2>6
<1> QED
  BY <1>1, <1>2, <1>4, <1>5 DEF FileFails

-----------------------------------------------------------------------------
LEMMA NextOK == IndInv /\ [Next]_vars => IndInv'
<1> SUFFICES ASSUME IndInv, Next PROVE IndInv'
  BY StutterOK
<1>1. ASSUME NEW p \in Enrollers, Enrol(p) PROVE IndInv'
  BY <1>1, BeginOK, EndsOK, AnsweredOK, RemoveFileOK, TruncateFileOK, FillFileOK, FileFailsOK
     DEF Enrol
<1> QED
  BY <1>1, RunOK DEF Next

\* The inductive invariant of the identity directory (enrollCmd, Save, Remove)
\* holds in every reachable state.
THEOREM EnrolmentInductive == Spec => []IndInv
<1> QED
  BY InitOK, NextOK, PTL DEF Spec

\* Success means a usable identity and nothing left of the one a forced
\* enrolment replaced (Identity.Save, Remove, enrollCmd).
THEOREM SuccessUsable == Spec => []SuccessIsUsable
<1>1. IndInv => SuccessIsUsable
  <2> SUFFICES ASSUME IndInv, NEW p \in Enrollers, pc[p] = "ok", Alone(p)
               PROVE  /\ Working(id[p])
                      /\ file["ca"] \in {Absent, id[p]} \/ ~force[p]
                      /\ file["server"] \in {Absent, Empty, id[p]} \/ ~force[p]
    BY DEF SuccessIsUsable
  <2>1. todo[p] = {} /\ id[p] \in 1..MaxIssued
    BY DEF LeftIsEnough, FilesAreIssued, TypeOK
  <2> QED
    BY <2>1 DEF LeftIsEnough, Unwritten, Working
<1> QED
  BY EnrolmentInductive, <1>1, PTL

\* The dials served are words an enrolment said, or the cautious default
\* (writeDial, ReadLevel, ReadConsent).
THEOREM DialsSaid == Spec => []DialsAreSaid
<1>1. IndInv => DialsAreSaid
  <2> SUFFICES ASSUME IndInv, NEW d \in Dials, Served(d) # Default
               PROVE  \E n \in 1..issued : Served(d) = Says[n][d] /\ Served(d) \in Words
    BY DEF DialsAreSaid
  <2>1. Written(loaded[d]) /\ d \in Files /\ Served(d) = Says[loaded[d]][d]
    BY DEF Served, Written, Dials, Files
  <2>2. loaded[d] \in 1..issued /\ loaded[d] \in 1..MaxIssued
    BY <2>1 DEF FilesAreIssued, TypeOK, Written, Contents, Absent, Empty
  <2>3. Says[loaded[d]][d] \in Words
    BY <2>1, <2>2 DEF FilesAreIssued, Unsaid
  <2> QED
    BY <2>1, <2>2, <2>3
<1> QED
  BY EnrolmentInductive, <1>1, PTL

\* A refused or unanswered enrolment leaves every file as it was (enrollCmd).
THEOREM NodeKept == Spec => NodeKeptUntilAnswered
<1>1. ASSUME IndInv, [Next]_vars, file' # file
      PROVE  \E p \in Enrollers : pc[p] = "writing" /\ id[p] # 0
  <2>1. PICK p \in Enrollers, f \in Files :
           RemoveFile(p, f) \/ TruncateFile(p, f) \/ FillFile(p, f)
    BY <1>1 DEF Next, Enrol, Begin, Answered, NotAnswered, Killed, FileFails, RunStarts,
                RunReads, RunServes, RunStops, enrolVars, vars
  <2>2. pc[p] = "writing"
    BY <2>1 DEF RemoveFile, TruncateFile, FillFile, First
  <2> QED
    BY <1>1, <2>2 DEF FilesAreIssued, TypeOK
<1>2. IndInv /\ [Next]_vars
      => [file' # file => \E p \in Enrollers : pc[p] = "writing" /\ id[p] # 0]_vars
  BY <1>1
<1> QED
  BY EnrolmentInductive, <1>2, PTL DEF Spec, NodeKeptUntilAnswered
=============================================================================
