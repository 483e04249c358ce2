----------------------- MODULE OpenStackToken_proofs -----------------------
(* Proofs of the safety properties of OpenStackToken, for any set of calls *)
(* and any times that satisfy TimesAssumption.                             *)
EXTENDS OpenStackToken, TLAPS

USE DEF Busy, Stages, world, cache, vars, Deadline

LEMMA InitOK == Init => IndInv
<1> SUFFICES ASSUME Init PROVE IndInv
  OBVIOUS
<1>1. TypeOK
  BY BoundsAssumption DEF Init, TypeOK
<1> QED
  BY <1>1 DEF Init, IndInv, CacheIsOne, AllIssued, Issued, InTime, StoreIsPrivate, RefusedIsGone

\* The clock and Keystone's revocations touch nothing a call holds.
LEMMA WorldStep == IndInv /\ (Tick \/ Revoke) => IndInv'
<1> SUFFICES ASSUME IndInv, Tick \/ Revoke PROVE IndInv'
  OBVIOUS
<1> USE TimesAssumption, BoundsAssumption DEF IndInv
<1>1. /\ UNCHANGED <<serial, token, expires, catalog, stage, start, attempt, tok, cat,
                     own, refused, since>>
      /\ epoch' \in Nat /\ epoch <= epoch'
      /\ now' \in Nat /\ now <= now'
      /\ \A c \in Calls : stage[c] \in Busy => now' <= Deadline(c)
  BY DEF Tick, Revoke, TypeOK, InTime
<1>2. TypeOK'
  BY DEF Tick, Revoke, TypeOK
<1>3. CacheIsOne' /\ AllIssued' /\ StoreIsPrivate'
  BY <1>1 DEF CacheIsOne, AllIssued, Issued, StoreIsPrivate
<1>4. InTime'
  BY <1>1 DEF InTime, TypeOK
<1>5. RefusedIsGone'
  BY <1>1 DEF RefusedIsGone, Revoked, TypeOK, Tokens, InTime
<1> QED
  BY <1>2, <1>3, <1>4, <1>5

LEMMA StartStep ==
    ASSUME IndInv, NEW c \in Calls, CallStarts(c)
    PROVE  IndInv'
<1> USE TimesAssumption, BoundsAssumption DEF IndInv, CallStarts, Move
<1>1. TypeOK'
  BY DEF TypeOK
<1>2. CacheIsOne' /\ AllIssued' /\ StoreIsPrivate'
  BY DEF CacheIsOne, AllIssued, Issued, StoreIsPrivate, TypeOK
<1>3. InTime'
  BY DEF InTime, TypeOK
<1>4. RefusedIsGone'
  BY DEF RefusedIsGone, Revoked, TypeOK
<1> QED
  BY <1>1, <1>2, <1>3, <1>4

LEMMA CachedStep ==
    ASSUME IndInv, NEW c \in Calls, EndpointCached(c)
    PROVE  IndInv'
<1> USE TimesAssumption, BoundsAssumption DEF IndInv, EndpointCached, Usable, Move
<1>1. TypeOK'
  BY DEF TypeOK
<1>2. CacheIsOne' /\ AllIssued'
  BY DEF CacheIsOne, AllIssued, Issued, TypeOK
<1>3. StoreIsPrivate'
  BY DEF StoreIsPrivate, TypeOK
<1>4. InTime'
  <2>1. Deadline(c) + Skew < token.ends
    BY DEF CacheIsOne, InTime, TypeOK, Tokens
  <2> QED
    BY <2>1 DEF InTime, TypeOK, CacheIsOne
<1>5. RefusedIsGone'
  BY DEF RefusedIsGone, Revoked, TypeOK
<1> QED
  BY <1>1, <1>2, <1>3, <1>4, <1>5

LEMMA StaleStep ==
    ASSUME IndInv, NEW c \in Calls, EndpointStale(c)
    PROVE  IndInv'
<1> USE DEF IndInv, EndpointStale, Move
<1>1. TypeOK'
  BY DEF TypeOK
<1>2. CacheIsOne' /\ AllIssued' /\ StoreIsPrivate' /\ InTime'
  BY DEF CacheIsOne, AllIssued, Issued, StoreIsPrivate, InTime, TypeOK
<1>3. RefusedIsGone'
  BY DEF RefusedIsGone, Revoked, TypeOK
<1> QED
  BY <1>1, <1>2, <1>3

\* A new token differs from every token given out before it.
LEMMA IssueStep ==
    ASSUME IndInv, NEW c \in Calls, KeystoneIssues(c)
    PROVE  IndInv'
<1> USE TimesAssumption, BoundsAssumption DEF IndInv, KeystoneIssues, Move
<1> DEFINE new == [serial |-> serial + 1, epoch |-> epoch, ends |-> now + Skew + TokenLife]
<1>1. new \in Tokens /\ new # NoToken
  BY NoTokenAssumption DEF TypeOK, Tokens
<1>2. new # token /\ \A d \in Calls : new # tok[d] /\ new # refused[d]
  <2>1. new.serial = serial + 1
    OBVIOUS
  <2> HIDE DEF new
  <2>2. ASSUME NEW t, Issued(t) PROVE t # new
    <3>1. CASE t = NoToken
      BY <1>1, <3>1
    <3>2. CASE t # NoToken
      BY <2>1, <2>2, <3>2 DEF Issued, TypeOK
    <3> QED
      BY <3>1, <3>2
  <2> QED
    BY <2>2 DEF AllIssued, TypeOK
<1> HIDE DEF new
<1>3. tok' = [tok EXCEPT ![c] = new]
  BY DEF new
<1>4. new.serial = serial + 1 /\ new.epoch = epoch /\ new.ends = now + Skew + TokenLife
  BY DEF new
<1>5. TypeOK'
  BY <1>1, <1>3 DEF TypeOK
<1>6. CacheIsOne'
  BY DEF CacheIsOne
<1>7. AllIssued'
  BY <1>3, <1>4 DEF AllIssued, Issued, TypeOK, Tokens
<1>8. StoreIsPrivate'
  BY <1>2, <1>3 DEF StoreIsPrivate, TypeOK
<1>9. InTime'
  BY <1>1, <1>3, <1>4 DEF InTime, TypeOK
<1>10. RefusedIsGone'
  BY <1>2, <1>3, <1>4 DEF RefusedIsGone, Revoked, TypeOK
<1> QED
  BY <1>5, <1>6, <1>7, <1>8, <1>9, <1>10

\* Storing makes public a token that no refusal has covered.
LEMMA StoreStep ==
    ASSUME IndInv, NEW c \in Calls, Store(c)
    PROVE  IndInv'
<1> USE DEF IndInv, Store, Move
<1>1. tok[c] \in Tokens /\ tok[c] # NoToken
  BY DEF InTime, TypeOK
<1>2. TypeOK'
  BY <1>1 DEF TypeOK, Tokens
<1>3. CacheIsOne' /\ AllIssued'
  BY DEF CacheIsOne, AllIssued, Issued, InTime, TypeOK
<1>4. StoreIsPrivate'
  BY DEF StoreIsPrivate, TypeOK
<1>5. InTime'
  BY DEF InTime, TypeOK
<1>6. RefusedIsGone'
  BY DEF RefusedIsGone, StoreIsPrivate, Revoked, TypeOK
<1> QED
  BY <1>2, <1>3, <1>4, <1>5, <1>6

\* A call that returns leaves nothing behind.
LEMMA ForgetStep ==
    ASSUME IndInv, NEW c \in Calls, Forget(c), UNCHANGED <<world, serial, cache>>,
           stage' = [stage EXCEPT ![c] = "idle"]
    PROVE  IndInv'
<1> USE BoundsAssumption DEF IndInv, Forget
<1>1. TypeOK'
  BY DEF TypeOK
<1>2. CacheIsOne' /\ AllIssued'
  BY DEF CacheIsOne, AllIssued, Issued, TypeOK
<1>3. StoreIsPrivate'
  BY DEF StoreIsPrivate, InTime, TypeOK
<1>4. InTime'
  BY DEF InTime, TypeOK
<1>5. RefusedIsGone'
  BY DEF RefusedIsGone, Revoked, TypeOK
<1> QED
  BY <1>1, <1>2, <1>3, <1>4, <1>5

\* A token in use has not ended before its call's deadline.
LEMMA Alive ==
    ASSUME IndInv, NEW c \in Calls, stage[c] = "request"
    PROVE  ~Ended(tok[c])
  BY TimesAssumption DEF IndInv, InTime, Ended, TypeOK, Tokens

LEMMA RefuseStep ==
    ASSUME IndInv, NEW c \in Calls, ServiceRefuses(c)
    PROVE  IndInv'
<1> USE DEF IndInv, ServiceRefuses
<1>1. Revoked(tok[c])
  BY Alive
<1>2. TypeOK'
  BY DEF TypeOK
<1>3. CacheIsOne' /\ AllIssued' /\ InTime'
  BY DEF CacheIsOne, AllIssued, Issued, InTime, TypeOK
<1>4. StoreIsPrivate'
  BY DEF StoreIsPrivate, TypeOK
<1>5. RefusedIsGone'
  BY <1>1 DEF RefusedIsGone, Revoked, TypeOK
<1> QED
  BY <1>2, <1>3, <1>4, <1>5

LEMMA InvalidateStep ==
    ASSUME IndInv, NEW c \in Calls, Invalidate(c)
    PROVE  IndInv'
<1> USE DEF IndInv, Invalidate, Move
<1>1. TypeOK'
  BY DEF TypeOK
<1>2. CacheIsOne' /\ AllIssued' /\ InTime'
  BY DEF CacheIsOne, AllIssued, Issued, InTime, TypeOK
<1>3. StoreIsPrivate'
  BY DEF StoreIsPrivate, TypeOK, InTime
<1>4. refused[c] # NoToken
  BY DEF RefusedIsGone, InTime
<1>5. \A d \in Calls : attempt'[d] = 1 => NoToken # refused[d]
  BY <1>4 DEF RefusedIsGone, TypeOK
<1>6. RefusedIsGone'
  BY <1>4, <1>5 DEF RefusedIsGone, Revoked, TypeOK
<1> QED
  BY <1>1, <1>2, <1>3, <1>6

LEMMA NextOK == IndInv /\ [Next]_vars => IndInv'
<1> SUFFICES ASSUME IndInv, [Next]_vars PROVE IndInv'
  OBVIOUS
<1>1. CASE Tick \/ Revoke
  BY <1>1, WorldStep
<1>2. ASSUME NEW c \in Calls, Handler(c) PROVE IndInv'
  <2>1. CASE ServiceAnswers(c) \/ CallFails(c) \/ PassesOn(c)
    BY <2>1, ForgetStep DEF ServiceAnswers, CallFails, PassesOn, Move
  <2> QED
    BY <1>2, <2>1, StartStep, CachedStep, StaleStep, IssueStep, StoreStep, RefuseStep,
       InvalidateStep DEF Handler
<1>3. CASE UNCHANGED vars
  BY <1>3 DEF IndInv, TypeOK, CacheIsOne, AllIssued, Issued, InTime, StoreIsPrivate,
              RefusedIsGone, Revoked
<1> QED
  BY <1>1, <1>2, <1>3 DEF Next, Over

\* The inductive invariant holds in every reachable state.
THEOREM TokenInductive == Spec => []IndInv
<1>1. Init => IndInv
  BY InitOK
<1>2. IndInv /\ [Next]_vars => IndInv'
  BY NextOK
<1> QED
  BY <1>1, <1>2, PTL DEF Spec

\* No token is sent after Keystone has let it end: a 401 is never about age.
THEOREM TokenNeverOutlived == Spec => []NeverOutlived
<1>1. IndInv => NeverOutlived
  BY Alive DEF NeverOutlived
<1> QED
  BY <1>1, TokenInductive, PTL

\* Token and catalogue in use are of one authentication.
THEOREM TokenHeldTogether == Spec => []HeldTogether
<1>1. IndInv => HeldTogether
  BY DEF IndInv, InTime, HeldTogether
<1> QED
  BY <1>1, TokenInductive, PTL

\* The second attempt presents another token than the first.
THEOREM TokenRetryIsFresh == Spec => []RetryIsFresh
<1>1. IndInv => RetryIsFresh
  BY DEF IndInv, RefusedIsGone, RetryIsFresh
<1> QED
  BY <1>1, TokenInductive, PTL

\* A 401 passed on for a token of the call's own is about a revocation after
\* the first 401.
THEOREM TokenFinalRefusal == Spec => []FinalRefusalIsNews
<1>1. IndInv => FinalRefusalIsNews
  BY DEF IndInv, InTime, RefusedIsGone, Revoked, FinalRefusalIsNews, TypeOK, Tokens
<1> QED
  BY <1>1, TokenInductive, PTL
=============================================================================
