--------------------------- MODULE CephArgs_proofs ---------------------------
(* Proofs about the loops of CheckCephArgs, for tables, signatures and      *)
(* command lines of any length.  They fold over data, so the first two      *)
(* lemmas derive induction on the naturals, stated with a set, from their   *)
(* well-foundedness.                                                        *)
EXTENDS CephArgs, FiniteSetTheorems, SequenceTheorems, WellFoundedInduction, TLAPS

-----------------------------------------------------------------------------
(* Induction.                                                               *)

Below == {p \in Nat \X Nat : p[1] < p[2]}

\* Every set of naturals that is not empty has a least one.
LEMMA LeastNat ==
    ASSUME NEW T \in SUBSET Nat, T # {}
    PROVE  \E n \in T : \A m \in T : n <= m
<1>1. IsWellFoundedOn(Below, Nat)
  BY NatLessThanWellFounded DEF OpToRel, Below
<1>2. PICK n \in T : \A m \in T : <<m, n>> \notin Below
  BY <1>1, WFMin
<1>3. ASSUME NEW m \in T PROVE n <= m
  <2>1. n \in Nat /\ m \in Nat
    OBVIOUS
  <2>2. ~ (m < n)
    BY <1>2, <2>1 DEF Below
  <2> QED
    BY <2>1, <2>2
<1> QED
  BY <1>3

\* A set with 0 that has the successor of whatever it has holds every natural.
LEMMA NatSetInduction ==
    ASSUME NEW S, 0 \in S, \A n \in Nat : n \in S => n + 1 \in S
    PROVE  \A n \in Nat : n \in S
<1> SUFFICES ASSUME Nat \ S # {} PROVE FALSE
  OBVIOUS
<1>1. PICK n \in Nat \ S : \A m \in Nat \ S : n <= m
  BY LeastNat
<1>2. n - 1 \in Nat /\ (n - 1) + 1 = n /\ ~ (n <= n - 1)
  OBVIOUS
<1> QED
  BY <1>1, <1>2

-----------------------------------------------------------------------------
(* Places in a set of positions.                                            *)

LEMMA PlaceIsNat ==
    ASSUME NEW P \in SUBSET Nat, NEW i \in Nat
    PROVE  IsFiniteSet({j \in P : j <= i}) /\ Place(P, i) \in Nat
<1>1. \A j \in P : j \in Nat
  OBVIOUS
<1>2. {j \in P : j <= i} \in SUBSET (0..i)
  <2> SUFFICES ASSUME NEW j \in P, j <= i PROVE j \in 0..i
    OBVIOUS
  <2> QED
    BY <1>1
<1>3. IsFiniteSet(0..i)
  BY FS_Interval
<1>4. IsFiniteSet({j \in P : j <= i})
  BY <1>2, <1>3, FS_Subset
<1> QED
  BY <1>4, FS_CardinalityType DEF Place

\* The positions up to n + 1 are one more than those up to n, or the same.
LEMMA PlaceSteps ==
    ASSUME NEW P \in SUBSET Nat, NEW n \in Nat
    PROVE  Place(P, n + 1) = IF n + 1 \in P THEN Place(P, n) + 1 ELSE Place(P, n)
<1> DEFINE S == {j \in P : j <= n}
<1>0. \A j \in P : j \in Nat /\ (j <= n + 1 <=> j <= n \/ j = n + 1)
  OBVIOUS
<1>1. IsFiniteSet(S) /\ n + 1 \notin S
  BY PlaceIsNat
<1>2. CASE n + 1 \in P
  <2>1. {j \in P : j <= n + 1} = S \cup {n + 1}
    BY <1>0, <1>2
  <2>2. Cardinality(S \cup {n + 1}) = Cardinality(S) + 1
    BY <1>1, FS_AddElement
  <2> QED
    BY <1>2, <2>1, <2>2 DEF Place
<1>3. CASE n + 1 \notin P
  <2>1. {j \in P : j <= n + 1} = S
    BY <1>0, <1>3
  <2> QED
    BY <1>3, <2>1 DEF Place
<1> QED
  BY <1>2, <1>3

\* No two members of a set have the same place.
LEMMA PlaceIsOwn ==
    ASSUME NEW P \in SUBSET Nat, NEW i \in P, NEW j \in P, Place(P, i) = Place(P, j)
    PROVE  i = j
<1>1. ASSUME NEW x \in P, NEW y \in P, x < y
      PROVE  Place(P, x) # Place(P, y)
  <2> DEFINE Sx == {k \in P : k <= x}
  <2> DEFINE Sy == {k \in P : k <= y}
  <2>0. /\ x \in Nat /\ y \in Nat /\ \A k \in P : k \in Nat
        /\ \A k \in Nat : k <= x => k <= y
        /\ ~ (y <= x) /\ y <= y
    BY <1>1
  <2>1. Sx \in SUBSET Sy /\ y \in Sy /\ y \notin Sx
    BY <2>0
  <2>2. IsFiniteSet(Sy)
    BY PlaceIsNat
  <2>3. Sx # Sy
    BY <2>1
  <2> HIDE DEF Sx, Sy
  <2>4. Cardinality(Sx) # Cardinality(Sy)
    BY <2>1, <2>2, <2>3, FS_Subset
  <2> QED
    BY <2>4 DEF Place, Sx, Sy
<1>2. i \in Nat /\ j \in Nat
  OBVIOUS
<1> QED
  BY <1>1, <1>2

\* The last place is the size of the set.
LEMMA LastPlace ==
    ASSUME NEW n \in Nat, NEW P \in SUBSET (1..n)
    PROVE  Place(P, n) = Cardinality(P) /\ Place(P, 0) = 0
<1>0. \A j \in P : j \in 1..n /\ j <= n /\ ~ (j <= 0)
  OBVIOUS
<1>1. {j \in P : j <= n} = P /\ {j \in P : j <= 0} = {}
  BY <1>0
<1> QED
  BY <1>1, FS_EmptySet DEF Place

-----------------------------------------------------------------------------
(* fit.                                                                     *)

Unmatched == [score |-> 0, ok |-> TRUE]
ScoreTo(f, m, sig, w) ==
    f = [n \in 0..m |-> IF n = 0 THEN Unmatched ELSE match(f[n - 1], sig[n], n, w)]

LEMMA ScoreExists ==
    ASSUME NEW sig, NEW w
    PROVE  \A m \in Nat : \E f : ScoreTo(f, m, sig, w)
<1> DEFINE S == {m \in Nat : \E f : ScoreTo(f, m, sig, w)}
<1>1. 0 \in S
  <2>1. ScoreTo([n \in 0..0 |-> Unmatched], 0, sig, w)
    BY DEF ScoreTo
  <2> QED
    BY <2>1
<1>2. ASSUME NEW m \in Nat, m \in S PROVE m + 1 \in S
  <2>1. PICK f : ScoreTo(f, m, sig, w)
    BY <1>2
  <2> DEFINE g == [n \in 0..m + 1 |->
                     IF n = m + 1 THEN match(f[m], sig[m + 1], m + 1, w) ELSE f[n]]
  <2>2. ASSUME NEW n \in 0..m + 1
        PROVE  g[n] = IF n = 0 THEN Unmatched ELSE match(g[n - 1], sig[n], n, w)
    <3>1. CASE n = m + 1
      <4>1. n # 0 /\ n - 1 = m /\ m \in 0..m + 1 /\ m # m + 1
        BY <3>1
      <4>2. g[n] = match(f[m], sig[m + 1], m + 1, w) /\ g[m] = f[m]
        BY <3>1, <4>1
      <4> QED
        BY <3>1, <4>1, <4>2
    <3>2. CASE n # m + 1
      <4>1. n \in 0..m /\ g[n] = f[n]
        BY <3>2
      <4>2. f[n] = IF n = 0 THEN Unmatched ELSE match(f[n - 1], sig[n], n, w)
        BY <2>1, <4>1 DEF ScoreTo
      <4>3. n # 0 => n - 1 \in 0..m + 1 /\ n - 1 # m + 1
        BY <4>1
      <4>4. n # 0 => g[n - 1] = f[n - 1]
        BY <4>3
      <4> QED
        BY <4>1, <4>2, <4>3, <4>4
    <3> QED
      BY <3>1, <3>2
  <2> HIDE DEF g
  <2>3. g = [n \in 0..m + 1 |-> g[n]]
    BY DEF g
  <2>4. ScoreTo(g, m + 1, sig, w)
    BY <2>2, <2>3 DEF ScoreTo
  <2> QED
    BY <2>4
<1> HIDE DEF S
<1>3. \A m \in Nat : m \in S
  BY <1>1, <1>2, NatSetInduction
<1> QED
  BY <1>3 DEF S

LEMMA ScoreSteps ==
    ASSUME NEW c, Len(c.sig) \in Nat, NEW w
    PROVE  /\ score(c, w)[0] = Unmatched
           /\ \A n \in 1..Len(c.sig) :
                 score(c, w)[n] = match(score(c, w)[n - 1], c.sig[n], n, w)
<1>1. ScoreTo(score(c, w), Len(c.sig), c.sig, w)
  <2>1. score(c, w) = CHOOSE f : ScoreTo(f, Len(c.sig), c.sig, w)
    BY DEF score, ScoreTo, Unmatched
  <2>2. \E f : ScoreTo(f, Len(c.sig), c.sig, w)
    BY ScoreExists
  <2> QED
    BY <2>1, <2>2
<1> DEFINE f == score(c, w)
<1> HIDE DEF f
<1>2. ScoreTo(f, Len(c.sig), c.sig, w)
  BY <1>1 DEF f
<1>3. f[0] = Unmatched /\ \A n \in 1..Len(c.sig) : f[n] = match(f[n - 1], c.sig[n], n, w)
  BY <1>2 DEF ScoreTo
<1> QED
  BY <1>3 DEF f

\* After n positions: no literal word before them is missing or another, and
\* the score is how many there were.
ScoreIs(s, sig, n, w) ==
    /\ s = [score |-> s.score, ok |-> s.ok] /\ s.ok \in BOOLEAN
    /\ s.ok <=> \A i \in 1..n : sig[i] = Param \/ (~ (i > Len(w)) /\ w[i] = sig[i])
    /\ s.ok => s.score = Place({i \in DOMAIN sig : sig[i] # Param}, n)

\* fit counts the literal words, or gives 0, as its comment says.
LEMMA FitIsRight ==
    ASSUME NEW c, IsCommand(c), NEW w
    PROVE  fit(c, w) = Matches(c, w) /\ fit(c, w) \in Nat
<1> DEFINE sig == c.sig
<1> DEFINE m == Len(sig)
<1> DEFINE P == {i \in DOMAIN sig : sig[i] # Param}
<1>1. m \in Nat /\ DOMAIN sig = 1..m
  BY DEF IsCommand
<1> DEFINE f == score(c, w)
<1>2. f[0] = Unmatched /\ \A n \in 1..m : f[n] = match(f[n - 1], sig[n], n, w)
  BY <1>1, ScoreSteps
<1> HIDE DEF f, m
<1>3. P \in SUBSET (1..m)
  BY <1>1
<1>3a. P \in SUBSET Nat
  BY <1>3
<1> HIDE DEF sig
<1>4. Place(P, 0) = 0 /\ Place(P, m) = Cardinality(P)
  BY <1>1, <1>3, LastPlace
<1> DEFINE S == {n \in Nat : n <= m => ScoreIs(f[n], sig, n, w)}
<1>5. 0 \in S
  <2>1. f[0] = [score |-> 0, ok |-> TRUE] /\ \A i \in 1..0 : FALSE
    BY <1>2 DEF Unmatched
  <2>2. f[0].score = 0 /\ f[0].ok = TRUE
    BY <2>1
  <2>3. ScoreIs(f[0], sig, 0, w)
    BY <1>4, <2>1, <2>2 DEF ScoreIs
  <2> QED
    BY <2>3
<1>6. ASSUME NEW n \in Nat, n \in S PROVE n + 1 \in S
  <2> SUFFICES ASSUME n + 1 <= m PROVE ScoreIs(f[n + 1], sig, n + 1, w)
    OBVIOUS
  <2>1. n <= m /\ n + 1 \in 1..m /\ (n + 1) - 1 = n
    BY <1>1
  <2> DEFINE s == f[n]
  <2> DEFINE t == f[n + 1]
  <2> DEFINE lit == sig[n + 1]
  <2> DEFINE good == lit = Param \/ (~ (n + 1 > Len(w)) /\ w[n + 1] = lit)
  <2>2. ScoreIs(s, sig, n, w) /\ t = match(s, lit, n + 1, w)
    BY <1>2, <1>6, <2>1
  <2>3. Place(P, n + 1) = IF lit # Param THEN Place(P, n) + 1 ELSE Place(P, n)
    BY <1>1, <1>3a, <2>1, PlaceSteps
  <2>4. \A i \in 1..n + 1 : i \in 1..n \/ i = n + 1
    OBVIOUS
  <2>5. (\A i \in 1..n + 1 : sig[i] = Param \/ (~ (i > Len(w)) /\ w[i] = sig[i]))
          <=> good /\ \A i \in 1..n : sig[i] = Param \/ (~ (i > Len(w)) /\ w[i] = sig[i])
    BY <2>4
  <2> HIDE DEF P
  <2>6. s = [score |-> s.score, ok |-> s.ok] /\ s.ok \in BOOLEAN
    BY <2>2 DEF ScoreIs
  <2> HIDE DEF s, t, lit
  <2>7. /\ t = [score |-> t.score, ok |-> t.ok] /\ t.ok \in BOOLEAN
        /\ t.ok <=> s.ok /\ good
        /\ t.ok => t.score = IF lit # Param THEN s.score + 1 ELSE s.score
    <3>1. CASE lit = Param
      <4>1. t = s
        BY <2>2, <3>1 DEF match
      <4> QED
        BY <2>6, <3>1, <4>1
    <3>2. CASE lit # Param /\ ~good
      <4>1. t = [s EXCEPT !.ok = FALSE]
        BY <2>2, <3>2 DEF match
      <4>2. t = [score |-> s.score, ok |-> FALSE]
        BY <2>6, <4>1
      <4> QED
        BY <3>2, <4>2
    <3>3. CASE lit # Param /\ good
      <4>1. t = [s EXCEPT !.score = @ + 1]
        BY <2>2, <3>3 DEF match
      <4>2. t = [score |-> s.score + 1, ok |-> s.ok]
        BY <2>6, <4>1
      <4> QED
        BY <2>6, <3>3, <4>2
    <3> QED
      BY <3>1, <3>2, <3>3
  <2>8. /\ s.ok <=> \A i \in 1..n : sig[i] = Param \/ (~ (i > Len(w)) /\ w[i] = sig[i])
        /\ s.ok => s.score = Place(P, n)
    BY <2>2 DEF ScoreIs, P
  <2> HIDE DEF good
  <2>9. /\ t.ok <=> \A i \in 1..n + 1 : sig[i] = Param \/ (~ (i > Len(w)) /\ w[i] = sig[i])
        /\ t.ok => t.score = Place(P, n + 1)
    BY <2>3, <2>5, <2>7, <2>8
  <2>10. ScoreIs(t, sig, n + 1, w)
    BY <2>7, <2>9 DEF ScoreIs, P
  <2> QED
    BY <2>10 DEF t
<1>7. \A n \in Nat : n \in S
  <2> HIDE DEF S
  <2> QED
    BY <1>5, <1>6, NatSetInduction
<1>8. ScoreIs(f[m], sig, m, w)
  BY <1>1, <1>7
<1>9. /\ f[m].ok \in BOOLEAN
      /\ f[m].ok <=> \A i \in P : ~ (i > Len(w)) /\ w[i] = sig[i]
      /\ f[m].ok => f[m].score = Cardinality(P)
  BY <1>1, <1>4, <1>8 DEF ScoreIs
<1>10. Cardinality(P) \in Nat
  BY <1>1, <1>3a, <1>4, PlaceIsNat
<1>11. P = Literals(c)
  BY DEF Literals, sig
<1> HIDE DEF P
<1>12. fit(c, w) = IF (Len(w) > m /\ ~c.rest) \/ ~f[m].ok THEN 0 ELSE f[m].score
  BY DEF fit, f, m, sig
<1>13. Matches(c, w) = IF (Len(w) > m => c.rest) /\ (\A i \in P : ~ (i > Len(w)) /\ w[i] = sig[i])
                         THEN Cardinality(P) ELSE 0
  BY <1>11 DEF Matches, Fits, m, sig
<1> QED
  BY <1>9, <1>10, <1>12, <1>13

LEMMA FitIsNat ==
    ASSUME NEW c, IsCommand(c), NEW words
    PROVE  fit(c, words) \in Nat
  BY FitIsRight

-----------------------------------------------------------------------------
(* stripFormat.                                                             *)

Nothing == [words |-> << >>, format |-> FALSE, ok |-> TRUE]
StripTo(f, m, args) == f = [n \in 0..m |-> IF n = 0 THEN Nothing ELSE take(f[n - 1], args[n])]

LEMMA StripExists ==
    ASSUME NEW args
    PROVE  \A m \in Nat : \E f : StripTo(f, m, args)
<1> DEFINE S == {m \in Nat : \E f : StripTo(f, m, args)}
<1>1. 0 \in S
  <2>1. StripTo([n \in 0..0 |-> Nothing], 0, args)
    BY DEF StripTo
  <2> QED
    BY <2>1
<1>2. ASSUME NEW m \in Nat, m \in S PROVE m + 1 \in S
  <2>1. PICK f : StripTo(f, m, args)
    BY <1>2
  <2> DEFINE g == [n \in 0..m + 1 |-> IF n = m + 1 THEN take(f[m], args[m + 1]) ELSE f[n]]
  <2>2. ASSUME NEW n \in 0..m + 1
        PROVE  g[n] = IF n = 0 THEN Nothing ELSE take(g[n - 1], args[n])
    <3>1. CASE n = m + 1
      <4>1. n # 0 /\ n - 1 = m /\ m \in 0..m + 1 /\ m # m + 1
        BY <3>1
      <4>2. g[n] = take(f[m], args[m + 1]) /\ g[m] = f[m]
        BY <3>1, <4>1
      <4> QED
        BY <3>1, <4>1, <4>2
    <3>2. CASE n # m + 1
      <4>1. n \in 0..m /\ g[n] = f[n]
        BY <3>2
      <4>2. f[n] = IF n = 0 THEN Nothing ELSE take(f[n - 1], args[n])
        BY <2>1, <4>1 DEF StripTo
      <4>3. n # 0 => n - 1 \in 0..m + 1 /\ n - 1 # m + 1
        BY <4>1
      <4>4. n # 0 => g[n - 1] = f[n - 1]
        BY <4>3
      <4> QED
        BY <4>1, <4>2, <4>3, <4>4
    <3> QED
      BY <3>1, <3>2
  <2> HIDE DEF g
  <2>3. g = [n \in 0..m + 1 |-> g[n]]
    BY DEF g
  <2>4. StripTo(g, m + 1, args)
    BY <2>2, <2>3 DEF StripTo
  <2> QED
    BY <2>4
<1> HIDE DEF S
<1>3. \A m \in Nat : m \in S
  BY <1>1, <1>2, NatSetInduction
<1> QED
  BY <1>3 DEF S

LEMMA StripSteps ==
    ASSUME NEW args, Len(args) \in Nat
    PROVE  /\ strip(args)[0] = Nothing
           /\ \A n \in 1..Len(args) : strip(args)[n] = take(strip(args)[n - 1], args[n])
<1>1. StripTo(strip(args), Len(args), args)
  <2>1. strip(args) = CHOOSE f : StripTo(f, Len(args), args)
    BY DEF strip, StripTo, Nothing
  <2>2. \E f : StripTo(f, Len(args), args)
    BY StripExists
  <2> QED
    BY <2>1, <2>2
<1> DEFINE f == strip(args)
<1> HIDE DEF f
<1>2. StripTo(f, Len(args), args)
  BY <1>1 DEF f
<1>3. f[0] = Nothing /\ \A n \in 1..Len(args) : f[n] = take(f[n - 1], args[n])
  BY <1>2 DEF StripTo
<1> QED
  BY <1>3 DEF f

\* The command's words among the first n.
WordsUpto(args, n) ==
    [k \in 1..Place(Plain(args), n) |->
        args[CHOOSE i \in Plain(args) : Place(Plain(args), i) = k]]

\* No flag before position n lacks its format, and no other option is there.
GoodUpto(args, n) ==
    \A i \in 1..n :
        /\ args[i] \in FormatFlags /\ i < n => args[i + 1] \in formats
        /\ args[i] \notin OtherOptions

\* What the loop has after n words.
StripIs(s, args, n) ==
    /\ s = [words |-> s.words, format |-> s.format, ok |-> s.ok]
    /\ s.ok \in BOOLEAN /\ s.format \in BOOLEAN
    /\ s.ok <=> GoodUpto(args, n)
    /\ s.ok => /\ s.format <=> n > 0 /\ args[n] \in FormatFlags
               /\ s.words = WordsUpto(args, n)

LEMMA PlainSet ==
    ASSUME NEW args \in Seq(STRING)
    PROVE  /\ Len(args) \in Nat /\ DOMAIN args = 1..Len(args)
           /\ Plain(args) \in SUBSET (1..Len(args)) /\ Plain(args) \in SUBSET Nat
  BY DEF Plain

\* One more word of the command is appended, or none.
LEMMA WordsGrow ==
    ASSUME NEW args \in Seq(STRING), NEW n \in Nat, n + 1 <= Len(args)
    PROVE  WordsUpto(args, n + 1) =
             IF n + 1 \in Plain(args) THEN Append(WordsUpto(args, n), args[n + 1])
             ELSE WordsUpto(args, n)
<1> DEFINE P == Plain(args)
<1> DEFINE K == Place(P, n)
<1> DEFINE at(k) == args[CHOOSE i \in P : Place(P, i) = k]
<1>1. Len(args) \in Nat /\ P \in SUBSET Nat
  BY PlainSet
<1>2. K \in Nat /\ Place(P, n + 1) = IF n + 1 \in P THEN K + 1 ELSE K
  BY <1>1, PlaceIsNat, PlaceSteps
<1>3. CASE n + 1 \notin P
  BY <1>2, <1>3 DEF WordsUpto
<1>4. CASE n + 1 \in P
  <2>1. Place(P, n + 1) = K + 1
    BY <1>2, <1>4
  <2>2. (CHOOSE i \in P : Place(P, i) = K + 1) = n + 1
    <3>1. \A i \in P : Place(P, i) = K + 1 => i = n + 1
      BY <1>1, <1>4, <2>1, PlaceIsOwn
    <3> QED
      BY <1>4, <2>1, <3>1
  <2>3. at(K + 1) = args[n + 1]
    BY <2>2
  <2>4. WordsUpto(args, n) = [k \in 1..K |-> at(k)] /\ WordsUpto(args, n + 1) = [k \in 1..K + 1 |-> at(k)]
    BY <2>1 DEF WordsUpto
  <2> HIDE DEF at, K, P
  <2>5. Append([k \in 1..K |-> at(k)], args[n + 1]) = [k \in 1..K + 1 |-> at(k)]
    <3> DEFINE u == [k \in 1..K |-> at(k)]
    <3> DEFINE v == Append(u, args[n + 1])
    <3> DEFINE T == {at(k) : k \in 1..K + 1}
    <3>1. Len(u) = K /\ u \in Seq(T) /\ args[n + 1] \in T
      BY <1>2, <2>3
    <3>2. \A k \in 1..K : u[k] = at(k)
      OBVIOUS
    <3> HIDE DEF u, T
    <3>3. /\ v \in Seq(T) /\ Len(v) = K + 1
          /\ \A k \in 1..K : v[k] = u[k]
          /\ v[K + 1] = args[n + 1]
      BY <1>2, <3>1, AppendProperties
    <3> HIDE DEF v
    <3>4. v = [k \in 1..K + 1 |-> v[k]]
      BY <3>3
    <3>5. \A k \in 1..K + 1 : v[k] = at(k)
      BY <1>2, <2>3, <3>2, <3>3
    <3> QED
      BY <3>4, <3>5 DEF v, u
  <2> QED
    BY <1>4, <2>4, <2>5 DEF P
<1> QED
  BY <1>3, <1>4

LEMMA TakeKeeps ==
    ASSUME NEW args \in Seq(STRING), NEW n \in Nat, n + 1 <= Len(args),
           NEW s, StripIs(s, args, n)
    PROVE  StripIs(take(s, args[n + 1]), args, n + 1)
<1> DEFINE a == args[n + 1]
<1> DEFINE t == take(s, a)
<1>1. /\ s = [words |-> s.words, format |-> s.format, ok |-> s.ok]
      /\ s.ok \in BOOLEAN /\ s.format \in BOOLEAN
      /\ s.ok <=> GoodUpto(args, n)
      /\ s.ok => /\ s.format <=> n > 0 /\ args[n] \in FormatFlags
                 /\ s.words = WordsUpto(args, n)
  BY DEF StripIs
<1>2. \A i \in 1..n + 1 : i \in 1..n \/ i = n + 1
  OBVIOUS
<1>2a. \A i \in 1..n : i \in 1..n + 1 /\ i < n + 1 /\ (i = n \/ i < n)
  OBVIOUS
\* A line that is good up to here stays so if this word is.
<1> DEFINE flagged == n > 0 /\ args[n] \in FormatFlags
<1>3. GoodUpto(args, n + 1)
        <=> GoodUpto(args, n) /\ (flagged => a \in formats) /\ a \notin OtherOptions
  <2>1. ASSUME GoodUpto(args, n + 1)
        PROVE  GoodUpto(args, n) /\ (flagged => a \in formats) /\ a \notin OtherOptions
    <3>1. n + 1 \in 1..n + 1 /\ (n > 0 => n \in 1..n + 1 /\ n < n + 1)
      OBVIOUS
    <3>2. a \notin OtherOptions /\ (flagged => a \in formats)
      BY <2>1, <3>1 DEF GoodUpto
    <3>3. GoodUpto(args, n)
      BY <2>1, <1>2a DEF GoodUpto
    <3> QED
      BY <3>2, <3>3
  <2>2. ASSUME GoodUpto(args, n), flagged => a \in formats, a \notin OtherOptions
        PROVE  GoodUpto(args, n + 1)
    <3> SUFFICES ASSUME NEW i \in 1..n + 1
                 PROVE  /\ args[i] \in FormatFlags /\ i < n + 1 => args[i + 1] \in formats
                        /\ args[i] \notin OtherOptions
      BY DEF GoodUpto
    <3>1. CASE i = n + 1
      BY <2>2, <3>1
    <3>2. CASE i \in 1..n /\ i = n
      BY <2>2, <3>2 DEF GoodUpto
    <3>3. CASE i \in 1..n /\ i < n
      BY <2>2, <3>3 DEF GoodUpto
    <3> QED
      BY <1>2, <1>2a, <3>1, <3>2, <3>3
  <2> QED
    BY <2>1, <2>2
<1>4. n + 1 \in Plain(args) <=> a \notin FormatFlags \cup FormatWords /\ ~flagged
  <2>1. DOMAIN args = 1..Len(args) /\ n + 1 \in 1..Len(args)
    OBVIOUS
  <2>2. (n + 1 > 1 <=> n > 0) /\ (n + 1) - 1 = n
    OBVIOUS
  <2> QED
    BY <2>1, <2>2 DEF Plain
<1>5. WordsUpto(args, n + 1) = IF n + 1 \in Plain(args) THEN Append(WordsUpto(args, n), a)
                               ELSE WordsUpto(args, n)
  BY WordsGrow
<1>6. /\ a \in formats => a \notin OtherOptions /\ a \notin FormatFlags
      /\ a \in FormatFlags \cup FormatWords => a \notin OtherOptions
  BY OptionsAssumption DEF formats, FormatFlags
<1>n. n + 1 > 0
  OBVIOUS
<1>w. s.ok => (s.format <=> flagged) /\ s.words = WordsUpto(args, n)
  BY <1>1
<1> DEFINE W(k) == WordsUpto(args, k)
<1> HIDE DEF a, flagged, W
<1>7. t = [words |-> t.words, format |-> t.format, ok |-> t.ok]
      /\ t.ok \in BOOLEAN /\ t.format \in BOOLEAN
      /\ t.ok = (s.ok /\ (IF s.format THEN a \in formats
                           ELSE a \in FormatFlags \/ a \notin OtherOptions))
      /\ t.format = (~s.format /\ a \in FormatFlags)
      /\ t.words = IF s.format \/ a \in FormatFlags \/ a \in OtherOptions \/ a \in FormatWords
                     THEN s.words ELSE Append(s.words, a)
  <2> DEFINE ws == s.words
  <2> DEFINE fm == s.format
  <2> DEFINE ok == s.ok
  <2>1. s = [words |-> ws, format |-> fm, ok |-> ok] /\ ok \in BOOLEAN /\ fm \in BOOLEAN
    BY <1>1
  <2>2. CASE fm
    <3>1. t = [words |-> ws, format |-> FALSE, ok |-> ok /\ a \in formats]
      BY <2>1, <2>2 DEF take
    <3>2. t.words = ws /\ t.format = FALSE /\ t.ok = (ok /\ a \in formats)
      BY <3>1
    <3>3. t = [words |-> t.words, format |-> t.format, ok |-> t.ok]
      BY <3>1, <3>2
    <3> HIDE DEF t
    <3> QED
      BY <2>1, <2>2, <3>2, <3>3
  <2>3. CASE ~fm /\ a \in FormatFlags
    <3>1. t = [words |-> ws, format |-> TRUE, ok |-> ok]
      BY <2>1, <2>3 DEF take
    <3>2. t.words = ws /\ t.format = TRUE /\ t.ok = ok
      BY <3>1
    <3>3. t = [words |-> t.words, format |-> t.format, ok |-> t.ok]
      BY <3>1, <3>2
    <3> HIDE DEF t
    <3> QED
      BY <2>1, <2>3, <3>2, <3>3
  <2>4. CASE ~fm /\ a \notin FormatFlags /\ a \in OtherOptions
    <3>1. t = [words |-> ws, format |-> fm, ok |-> FALSE]
      BY <2>1, <2>4 DEF take
    <3>2. t.words = ws /\ t.format = fm /\ t.ok = FALSE
      BY <3>1
    <3>3. t = [words |-> t.words, format |-> t.format, ok |-> t.ok]
      BY <3>1, <3>2
    <3> HIDE DEF t
    <3> QED
      BY <2>1, <2>4, <3>2, <3>3
  <2>5. CASE ~fm /\ a \notin FormatFlags /\ a \notin OtherOptions /\ a \in FormatWords
    <3>1. t = [words |-> ws, format |-> fm, ok |-> ok]
      BY <2>1, <2>5 DEF take
    <3> QED
      BY <2>1, <2>5, <3>1
  <2>6. CASE ~fm /\ a \notin FormatFlags /\ a \notin OtherOptions /\ a \notin FormatWords
    <3>1. t = [words |-> Append(ws, a), format |-> fm, ok |-> ok]
      BY <2>1, <2>6 DEF take
    <3> QED
      BY <2>1, <2>6, <3>1
  <2> QED
    BY <2>2, <2>3, <2>4, <2>5, <2>6
<1> HIDE DEF t
<1>8. t.ok <=> GoodUpto(args, n + 1)
  BY <1>1, <1>3, <1>6, <1>7, <1>w
<1>9. ASSUME t.ok
      PROVE  t.format <=> a \in FormatFlags
  BY <1>6, <1>7, <1>9
<1>10. ASSUME t.ok
       PROVE  t.words = W(n + 1)
  <2>1. s.ok /\ (s.format <=> flagged) /\ s.words = W(n)
    BY <1>7, <1>10, <1>w DEF W
  <2>2. W(n + 1) = IF a \notin FormatFlags \cup FormatWords /\ ~flagged THEN Append(W(n), a) ELSE W(n)
    BY <1>4, <1>5 DEF W
  <2>3. ~s.format => a \in FormatFlags \/ a \notin OtherOptions
    BY <1>7, <1>10
  <2> QED
    BY <1>6, <1>7, <2>1, <2>2, <2>3
<1>11. StripIs(t, args, n + 1)
  <2>1. t.format \in BOOLEAN /\ t.ok \in BOOLEAN /\ t = [words |-> t.words, format |-> t.format, ok |-> t.ok]
    BY <1>7
  <2>2. t.ok => /\ t.format <=> n + 1 > 0 /\ args[n + 1] \in FormatFlags
                /\ t.words = WordsUpto(args, n + 1)
    BY <1>n, <1>9, <1>10 DEF W, a
  <2> QED
    BY <1>8, <2>1, <2>2 DEF StripIs
<1> QED
  BY <1>11 DEF t, a

\* stripFormat takes the lines whose options are well-formed output formats,
\* and leaves the words of the command in their order.
THEOREM StripIsRight ==
    ASSUME NEW args \in Seq(STRING)
    PROVE  /\ stripFormat(args).ok <=> FormatsWell(args)
           /\ stripFormat(args).ok => stripFormat(args).words = CommandWords(args)
<1> DEFINE f == strip(args)
<1> DEFINE m == Len(args)
<1>1. m \in Nat /\ DOMAIN args = 1..m /\ Plain(args) \in SUBSET (1..m)
  BY PlainSet
<1>2. f[0] = Nothing /\ \A n \in 1..m : f[n] = take(f[n - 1], args[n])
  BY <1>1, StripSteps
<1> HIDE DEF f, m
<1>3. Place(Plain(args), 0) = 0 /\ Place(Plain(args), m) = Cardinality(Plain(args))
  BY <1>1, LastPlace
<1> DEFINE S == {n \in Nat : n <= m => StripIs(f[n], args, n)}
<1>4. 0 \in S
  <2>1. WordsUpto(args, 0) = << >>
    BY <1>3 DEF WordsUpto
  <2>2. GoodUpto(args, 0)
    BY DEF GoodUpto
  <2>3. StripIs(f[0], args, 0)
    BY <1>2, <2>1, <2>2 DEF Nothing, StripIs
  <2> QED
    BY <2>3
<1>5. ASSUME NEW n \in Nat, n \in S PROVE n + 1 \in S
  <2> SUFFICES ASSUME n + 1 <= m PROVE StripIs(f[n + 1], args, n + 1)
    OBVIOUS
  <2>1. n <= m /\ n + 1 \in 1..m /\ (n + 1) - 1 = n
    BY <1>1
  <2>2. StripIs(f[n], args, n) /\ f[n + 1] = take(f[n], args[n + 1])
    BY <1>2, <1>5, <2>1
  <2> QED
    BY <2>2, TakeKeeps DEF m
<1>6. \A n \in Nat : n \in S
  <2> HIDE DEF S
  <2> QED
    BY <1>4, <1>5, NatSetInduction
<1>7. StripIs(f[m], args, m)
  BY <1>1, <1>6
<1>8. WordsUpto(args, m) = CommandWords(args)
  BY <1>3 DEF WordsUpto, CommandWords
<1>9. /\ f[m].ok \in BOOLEAN /\ f[m].format \in BOOLEAN
      /\ f[m].ok <=> GoodUpto(args, m)
      /\ f[m].ok => /\ f[m].format <=> m > 0 /\ args[m] \in FormatFlags
                    /\ f[m].words = CommandWords(args)
  BY <1>7, <1>8 DEF StripIs
<1>10. FormatsWell(args) <=> GoodUpto(args, m) /\ ~ (m > 0 /\ args[m] \in FormatFlags)
  <2>1. ASSUME FormatsWell(args)
        PROVE  GoodUpto(args, m) /\ ~ (m > 0 /\ args[m] \in FormatFlags)
    <3>1. \A i \in 1..m : /\ args[i] \in FormatFlags => i < m /\ args[i + 1] \in formats
                         /\ args[i] \notin OtherOptions
      BY <1>1, <2>1 DEF FormatsWell, m
    <3>2. m > 0 => m \in 1..m /\ ~ (m < m)
      BY <1>1
    <3> QED
      BY <3>1, <3>2 DEF GoodUpto
  <2>2. ASSUME GoodUpto(args, m), ~ (m > 0 /\ args[m] \in FormatFlags)
        PROVE  FormatsWell(args)
    <3> SUFFICES ASSUME NEW i \in 1..m
                 PROVE  /\ args[i] \in FormatFlags => i < m /\ args[i + 1] \in formats
                        /\ args[i] \notin OtherOptions
      BY <1>1 DEF FormatsWell, m
    <3>1. i = m \/ i < m
      BY <1>1
    <3>2. m > 0
      BY <1>1
    <3> QED
      BY <2>2, <3>1, <3>2 DEF GoodUpto
  <2> QED
    BY <2>1, <2>2
<1>11. stripFormat(args) = [words |-> f[m].words, ok |-> f[m].ok /\ ~f[m].format]
  BY DEF stripFormat, f, m
<1>12. stripFormat(args).ok = (f[m].ok /\ ~f[m].format) /\ stripFormat(args).words = f[m].words
  BY <1>11
<1>13. stripFormat(args).ok <=> GoodUpto(args, m) /\ ~ (m > 0 /\ args[m] \in FormatFlags)
  BY <1>9, <1>12
<1> QED
  BY <1>9, <1>10, <1>12, <1>13

-----------------------------------------------------------------------------
(* The loop.                                                                *)

Begun == [cmds |-> {}, score |-> 0]
LoopTo(f, m, t, w) ==
    f = [n \in 0..m |-> IF n = 0 THEN Begun ELSE consider(f[n - 1], t[n], w)]

\* For every prefix of a table there is a function that runs the loop over it.
LEMMA LoopExists ==
    ASSUME NEW t, NEW w
    PROVE  \A m \in Nat : \E f : LoopTo(f, m, t, w)
<1> DEFINE S == {m \in Nat : \E f : LoopTo(f, m, t, w)}
<1>1. 0 \in S
  <2>1. LoopTo([n \in 0..0 |-> Begun], 0, t, w)
    BY DEF LoopTo
  <2> QED
    BY <2>1
<1>2. ASSUME NEW m \in Nat, m \in S PROVE m + 1 \in S
  <2>1. PICK f : LoopTo(f, m, t, w)
    BY <1>2
  <2> DEFINE g == [n \in 0..m + 1 |->
                     IF n = m + 1 THEN consider(f[m], t[m + 1], w) ELSE f[n]]
  <2>2. ASSUME NEW n \in 0..m + 1
        PROVE  g[n] = IF n = 0 THEN Begun ELSE consider(g[n - 1], t[n], w)
    <3>1. CASE n = m + 1
      <4>1. n # 0 /\ n - 1 = m /\ m \in 0..m + 1 /\ m # m + 1
        BY <3>1
      <4>2. g[n] = consider(f[m], t[m + 1], w) /\ g[m] = f[m]
        BY <3>1, <4>1
      <4> QED
        BY <3>1, <4>1, <4>2
    <3>2. CASE n # m + 1
      <4>1. n \in 0..m /\ g[n] = f[n]
        BY <3>2
      <4>2. f[n] = IF n = 0 THEN Begun ELSE consider(f[n - 1], t[n], w)
        BY <2>1, <4>1 DEF LoopTo
      <4>3. n # 0 => n - 1 \in 0..m + 1 /\ n - 1 # m + 1 /\ g[n - 1] = f[n - 1]
        BY <4>1
      <4> QED
        BY <4>1, <4>2, <4>3
    <3> QED
      BY <3>1, <3>2
  <2> HIDE DEF g
  <2>3. g = [n \in 0..m + 1 |-> g[n]]
    BY DEF g
  <2>4. LoopTo(g, m + 1, t, w)
    BY <2>2, <2>3 DEF LoopTo
  <2> QED
    BY <2>4
<1> HIDE DEF S
<1>3. \A m \in Nat : m \in S
  BY <1>1, <1>2, NatSetInduction
<1> QED
  BY <1>3 DEF S

\* So the loop is what its recursion says.
LEMMA LoopSteps ==
    ASSUME NEW t, Len(t) \in Nat, NEW w
    PROVE  /\ loop(t, w)[0] = Begun
           /\ \A n \in 1..Len(t) : loop(t, w)[n] = consider(loop(t, w)[n - 1], t[n], w)
<1>1. LoopTo(loop(t, w), Len(t), t, w)
  <2>1. loop(t, w) = CHOOSE f : LoopTo(f, Len(t), t, w)
    BY DEF loop, LoopTo, Begun
  <2>2. \E f : LoopTo(f, Len(t), t, w)
    BY LoopExists
  <2> QED
    BY <2>1, <2>2
<1> DEFINE f == loop(t, w)
<1> HIDE DEF f
<1>2. LoopTo(f, Len(t), t, w)
  BY <1>1 DEF f
<1>3. f[0] = Begun /\ \A n \in 1..Len(t) : f[n] = consider(f[n - 1], t[n], w)
  BY <1>2 DEF LoopTo
<1> QED
  BY <1>3 DEF f

\* What one round keeps: the score is the highest so far, and best holds the
\* commands that reach it.
BestOf(best, t, n, w) ==
    /\ DOMAIN best = {"cmds", "score"} /\ best = [cmds |-> best.cmds, score |-> best.score]
    /\ best.score \in Nat
    /\ \A i \in 1..n : fit(t[i], w) <= best.score
    /\ \A c : c \in best.cmds <=>
          best.score > 0 /\ \E i \in 1..n : c = t[i] /\ fit(c, w) = best.score
    /\ best.score > 0 => best.cmds # {}

LEMMA RoundKeeps ==
    ASSUME NEW t, NEW w, NEW n \in Nat, NEW best, BestOf(best, t, n, w),
           \A i \in 1..n + 1 : fit(t[i], w) \in Nat
    PROVE  BestOf(consider(best, t[n + 1], w), t, n + 1, w)
<1> DEFINE s == fit(t[n + 1], w)
<1> DEFINE next == consider(best, t[n + 1], w)
<1>0. /\ s \in Nat /\ best.score \in Nat
      /\ \A i \in 1..n + 1 : i = n + 1 \/ i \in 1..n
      /\ \A i \in 1..n : i \in 1..n + 1
      /\ n + 1 \in 1..n + 1
  BY DEF BestOf
<1>c. next = IF s > best.score THEN [cmds |-> {t[n + 1]}, score |-> s]
             ELSE IF s > 0 /\ s = best.score THEN [best EXCEPT !.cmds = @ \cup {t[n + 1]}]
             ELSE best
  BY DEF consider
<1>b. /\ \A i \in 1..n : fit(t[i], w) <= best.score
      /\ \A c : c \in best.cmds <=>
            best.score > 0 /\ \E i \in 1..n : c = t[i] /\ fit(c, w) = best.score
      /\ best.score > 0 => best.cmds # {}
      /\ DOMAIN best = {"cmds", "score"} /\ best = [cmds |-> best.cmds, score |-> best.score]
  BY DEF BestOf
<1> HIDE DEF next
<1>1. CASE s > best.score
  <2>1. next.cmds = {t[n + 1]} /\ next.score = s /\ DOMAIN next = {"cmds", "score"}
        /\ next = [cmds |-> next.cmds, score |-> next.score]
    BY <1>1, <1>c
  <2>2. \A i \in 1..n + 1 : fit(t[i], w) <= s
    BY <1>0, <1>1, <1>b
  <2>3. \A i \in 1..n : fit(t[i], w) # s
    BY <1>0, <1>1, <1>b
  <2>4. s > 0
    BY <1>0, <1>1
  <2>5. \A c : c \in {t[n + 1]} <=> \E i \in 1..n + 1 : c = t[i] /\ fit(c, w) = s
    BY <1>0, <2>3
  <2>6. BestOf(next, t, n + 1, w)
    BY <1>0, <2>1, <2>2, <2>4, <2>5 DEF BestOf
  <2> QED
    BY <2>6 DEF next
<1>2. CASE ~ (s > best.score) /\ s > 0 /\ s = best.score
  <2>1. next.cmds = best.cmds \cup {t[n + 1]} /\ next.score = best.score /\ DOMAIN next = {"cmds", "score"}
        /\ next = [cmds |-> next.cmds, score |-> next.score]
    BY <1>2, <1>b, <1>c
  <2>2. \A i \in 1..n + 1 : fit(t[i], w) <= best.score
    BY <1>0, <1>2, <1>b
  <2>5. \A c : c \in best.cmds \cup {t[n + 1]} <=>
                  \E i \in 1..n + 1 : c = t[i] /\ fit(c, w) = best.score
    BY <1>0, <1>2, <1>b
  <2>6. BestOf(next, t, n + 1, w)
    BY <1>0, <1>2, <2>1, <2>2, <2>5 DEF BestOf
  <2> QED
    BY <2>6 DEF next
<1>3. CASE ~ (s > best.score) /\ ~ (s > 0 /\ s = best.score)
  <2>1. next = best
    BY <1>3, <1>c
  <2>2. \A i \in 1..n + 1 : fit(t[i], w) <= best.score
    BY <1>0, <1>3, <1>b
  <2>3. best.score > 0 => s # best.score
    BY <1>0, <1>3
  <2>5. \A c : c \in best.cmds <=>
            best.score > 0 /\ \E i \in 1..n + 1 : c = t[i] /\ fit(c, w) = best.score
    BY <1>0, <2>3, <1>b
  <2>6. BestOf(next, t, n + 1, w)
    BY <1>0, <1>b, <2>1, <2>2, <2>5 DEF BestOf
  <2> QED
    BY <2>6 DEF next
<1> QED
  BY <1>1, <1>2, <1>3 DEF next

\* The loop ends with every command of the table that no other fits better.
LEMMA BestFitsAreBest ==
    ASSUME NEW Cmds, \A c \in Cmds : IsCommand(c), NEW t \in Seq(Cmds), NEW w
    PROVE  /\ bestFits(t, w) =
                {c \in ToSet(t) : fit(c, w) > 0 /\ \A d \in ToSet(t) : fit(d, w) <= fit(c, w)}
           /\ (\E c \in ToSet(t) : fit(c, w) > 0) => bestFits(t, w) # {}
<1>1. Len(t) \in Nat /\ DOMAIN t = 1..Len(t) /\ \A i \in 1..Len(t) : t[i] \in Cmds
  OBVIOUS
<1>2. \A i \in 1..Len(t) : fit(t[i], w) \in Nat
  BY <1>1, FitIsNat
<1> DEFINE f == loop(t, w)
<1>3. f[0] = Begun /\ \A n \in 1..Len(t) : f[n] = consider(f[n - 1], t[n], w)
  BY <1>1, LoopSteps
<1> HIDE DEF f
<1> DEFINE S == {n \in Nat : n <= Len(t) => BestOf(f[n], t, n, w)}
<1>4. 0 \in S
  BY <1>3 DEF Begun, BestOf
<1>5. ASSUME NEW n \in Nat, n \in S PROVE n + 1 \in S
  <2> SUFFICES ASSUME n + 1 <= Len(t) PROVE BestOf(f[n + 1], t, n + 1, w)
    OBVIOUS
  <2>1. n <= Len(t) /\ n + 1 \in 1..Len(t) /\ (n + 1) - 1 = n
    BY <1>1
  <2>2. BestOf(f[n], t, n, w) /\ f[n + 1] = consider(f[n], t[n + 1], w)
    BY <1>3, <1>5, <2>1
  <2>3. \A i \in 1..n + 1 : fit(t[i], w) \in Nat
    BY <1>1, <1>2, <2>1
  <2> QED
    BY <2>2, <2>3, RoundKeeps
<1>6. \A n \in Nat : n \in S
  <2> HIDE DEF S
  <2> QED
    BY <1>4, <1>5, NatSetInduction
<1>7. BestOf(f[Len(t)], t, Len(t), w)
  BY <1>1, <1>6
<1>8. /\ f[Len(t)].score \in Nat
      /\ \A i \in 1..Len(t) : fit(t[i], w) <= f[Len(t)].score
      /\ \A c : c \in f[Len(t)].cmds <=>
            f[Len(t)].score > 0 /\ \E i \in 1..Len(t) : c = t[i] /\ fit(c, w) = f[Len(t)].score
      /\ f[Len(t)].score > 0 => f[Len(t)].cmds # {}
  BY <1>7 DEF BestOf
<1> DEFINE top == f[Len(t)].score
<1> DEFINE best == f[Len(t)].cmds
<1>9. bestFits(t, w) = best
  BY DEF bestFits, f
<1>10. \A c : c \in ToSet(t) <=> \E i \in 1..Len(t) : c = t[i]
  BY <1>1 DEF ToSet
<1> HIDE DEF top, best
<1>11. /\ top \in Nat /\ (top > 0 => best # {})
       /\ \A c \in ToSet(t) : fit(c, w) \in Nat /\ fit(c, w) <= top
       /\ \A c : c \in best <=> top > 0 /\ c \in ToSet(t) /\ fit(c, w) = top
  BY <1>2, <1>8, <1>10 DEF top, best
<1>12. ASSUME NEW c \in best
       PROVE  c \in ToSet(t) /\ fit(c, w) > 0 /\ \A d \in ToSet(t) : fit(d, w) <= fit(c, w)
  BY <1>11
<1>13. ASSUME NEW c \in ToSet(t), fit(c, w) > 0, \A d \in ToSet(t) : fit(d, w) <= fit(c, w)
       PROVE  c \in best
  <2>1. top > 0
    BY <1>11, <1>13
  <2>2. PICK d \in best : TRUE
    BY <1>11, <2>1
  <2>3. d \in ToSet(t) /\ fit(d, w) = top
    BY <1>11, <2>2
  <2>4. fit(c, w) = top
    BY <1>11, <1>13, <2>3
  <2> QED
    BY <1>11, <2>1, <2>4
<1>14. (\E c \in ToSet(t) : fit(c, w) > 0) => best # {}
  BY <1>11
<1> QED
  BY <1>9, <1>12, <1>13, <1>14

\* CheckCephArgs decides as its comment promises, for every table, in whatever
\* order Ceph's commands are listed, and every argument list.
THEOREM VerdictIsRight ==
    ASSUME NEW Cmds, \A c \in Cmds : IsCommand(c), NEW t \in Seq(Cmds), NEW args \in Seq(STRING)
    PROVE  CheckCephArgs(t, args) <=> ReadOnly(ToSet(t), args)
<1> DEFINE w == CommandWords(args)
<1> DEFINE fitting == {c \in ToSet(t) : Matches(c, w) > 0}
<1>1. \A c \in ToSet(t) : IsCommand(c)
  BY DEF ToSet
<1>2. \A c \in ToSet(t) : fit(c, w) = Matches(c, w) /\ Matches(c, w) \in Nat
  BY <1>1, FitIsRight
<1>3. /\ bestFits(t, w) =
           {c \in ToSet(t) : fit(c, w) > 0 /\ \A d \in ToSet(t) : fit(d, w) <= fit(c, w)}
      /\ (\E c \in ToSet(t) : fit(c, w) > 0) => bestFits(t, w) # {}
  BY BestFitsAreBest
<1>4. /\ stripFormat(args).ok <=> FormatsWell(args)
      /\ stripFormat(args).ok => stripFormat(args).words = w
  BY StripIsRight
<1> HIDE DEF w
<1>5. /\ bestFits(t, w) =
           {c \in ToSet(t) : Matches(c, w) > 0 /\ \A d \in ToSet(t) : Matches(d, w) <= Matches(c, w)}
      /\ fitting # {} => bestFits(t, w) # {}
  BY <1>2, <1>3
<1>6. bestFits(t, w) \subseteq fitting
  BY <1>5
<1>7. (\A c \in bestFits(t, w) : c.perm = "r") <=>
        \A c \in fitting : c.perm = "r" \/ \E d \in fitting : Matches(d, w) > Matches(c, w)
  BY <1>2, <1>5
<1>8. ReadOnly(ToSet(t), args) <=>
        /\ FormatsWell(args) /\ w # << >>
        /\ \/ IsPgRead(w)
           \/ /\ fitting # {}
              /\ \A c \in fitting : c.perm = "r" \/ \E d \in fitting : Matches(d, w) > Matches(c, w)
  BY DEF ReadOnly, w
<1> DEFINE v == stripFormat(args).words
<1>9. CheckCephArgs(t, args) <=>
        /\ stripFormat(args).ok /\ v # << >>
        /\ IsPgRead(v) \/ (bestFits(t, v) # {} /\ \A c \in bestFits(t, v) : c.perm = "r")
  BY DEF CheckCephArgs
<1> HIDE DEF v, fitting
<1>10. CASE stripFormat(args).ok
  <2>1. v = w
    BY <1>4, <1>10 DEF v
  <2> QED
    BY <1>4, <1>5, <1>6, <1>7, <1>8, <1>9, <1>10, <2>1
<1> QED
  BY <1>4, <1>8, <1>9, <1>10
=============================================================================
