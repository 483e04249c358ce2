--------------------------- MODULE OpenStackToken ---------------------------
(***************************************************************************)
(* The admin token the os-ro broker holds (internal/openstack/admin.go)    *)
(* and the calls that share it (the os handler of internal/broker): each   *)
(* call takes the cached token or authenticates for one of its own, sends  *)
(* its request, and after a first 401 drops the cached token and tries     *)
(* once more.  Nothing is held across a request, so calls interleave at    *)
(* every lock, every answer of Keystone and every answer of a service.     *)
(*                                                                         *)
(* Time is a clock in abstract units.  Keystone's clock may run ahead of   *)
(* the node's by Skew, and Keystone may revoke every token it has issued   *)
(* at any moment, MaxRevocations times.  A catalogue is known by the       *)
(* serial number of the authentication it came with.                       *)
(***************************************************************************)
EXTENDS Naturals

CONSTANTS
    Calls,           \* the os-ro calls served at a time, one after another each
    CallTimeout,     \* CallTimeout, the deadline of one call
    RenewMargin,     \* renewMargin
    TokenLife,       \* how long Keystone lets a token live
    Skew,            \* how far Keystone's clock is ahead of the node's
    MaxRevocations,  \* bound on revocations
    MaxSerial,       \* bound on authentications
    MaxTime,         \* bound on the clock
    NoToken          \* no token is held

\* One minute against five: the margin covers a whole call and the skew.
ASSUME TimesAssumption ==
    /\ CallTimeout \in Nat /\ RenewMargin \in Nat /\ TokenLife \in Nat /\ Skew \in Nat
    /\ CallTimeout + Skew <= RenewMargin
    /\ RenewMargin < TokenLife
ASSUME BoundsAssumption == MaxRevocations \in Nat /\ MaxTime \in Nat /\ MaxSerial \in Nat

\* A token says when it was issued (serial), before how many revocations
\* were done (epoch) and when it ends, in Keystone's time.
Tokens == [serial : Nat, epoch : Nat, ends : Nat]
ASSUME NoTokenAssumption == NoToken \notin Tokens

VARIABLES
    now,      \* the node's clock
    epoch,    \* the revocations so far
    serial,   \* the authentications so far
    token,    \* Admin.token, "" being NoToken
    expires,  \* Admin.expires
    catalog,  \* Admin.catalog
    stage,    \* per call: where its handler is
    start,    \* per call: when its deadline was set
    attempt,  \* per call: the loop's counter
    tok,      \* per call: the token it holds
    cat,      \* per call: the catalogue it holds
    own,      \* per call: that token is of its own authentication
    refused,  \* per call: the token its first 401 refused
    since     \* per call: epoch at that 401

world == <<now, epoch>>
cache == <<token, expires, catalog>>
vars == <<world, serial, cache, stage, start, attempt, tok, cat, own, refused, since>>

Busy == {"endpoint", "auth", "store", "request", "drop"}
Stages == {"idle", "unauthorized"} \cup Busy

TypeOK ==
    /\ now \in 0..MaxTime
    /\ epoch \in 0..MaxRevocations
    /\ serial \in 0..MaxSerial
    /\ token \in Tokens \cup {NoToken}
    /\ expires \in Nat
    /\ catalog \in Nat
    /\ stage \in [Calls -> Stages]
    /\ start \in [Calls -> 0..MaxTime]
    /\ attempt \in [Calls -> {0, 1}]
    /\ tok \in [Calls -> Tokens \cup {NoToken}]
    /\ cat \in [Calls -> Nat]
    /\ own \in [Calls -> BOOLEAN]
    /\ refused \in [Calls -> Tokens \cup {NoToken}]
    /\ since \in [Calls -> Nat]

Init ==
    /\ now = 0
    /\ epoch = 0
    /\ serial = 0
    /\ token = NoToken
    /\ expires = 0
    /\ catalog = 0
    /\ stage = [c \in Calls |-> "idle"]
    /\ start = [c \in Calls |-> 0]
    /\ attempt = [c \in Calls |-> 0]
    /\ tok = [c \in Calls |-> NoToken]
    /\ cat = [c \in Calls |-> 0]
    /\ own = [c \in Calls |-> FALSE]
    /\ refused = [c \in Calls |-> NoToken]
    /\ since = [c \in Calls |-> 0]

-----------------------------------------------------------------------------
(* Time and Keystone.                                                      *)

Deadline(c) == start[c] + CallTimeout

\* The network waits of a call end at its deadline, and what it computes
\* takes no time on this clock.
Tick ==
    /\ now < MaxTime
    /\ \A c \in Calls : stage[c] \in Busy => now < Deadline(c)
    /\ now' = now + 1
    /\ UNCHANGED <<epoch, serial, cache, stage, start, attempt, tok, cat, own, refused, since>>

\* The admin password changes, or an operator revokes the admin's tokens.
Revoke ==
    /\ epoch < MaxRevocations
    /\ epoch' = epoch + 1
    /\ UNCHANGED <<now, serial, cache, stage, start, attempt, tok, cat, own, refused, since>>

\* What Keystone thinks of a token.
Ended(t) == now + Skew >= t.ends
Revoked(t) == t.epoch < epoch

-----------------------------------------------------------------------------
(* One call of the handler.                                                *)

Move(c, from, to) == stage[c] = from /\ stage' = [stage EXCEPT ![c] = to]

\* A request the checks let through: the deadline is set, and covers both
\* attempts.
CallStarts(c) ==
    /\ now + CallTimeout <= MaxTime
    /\ Move(c, "idle", "endpoint")
    /\ start' = [start EXCEPT ![c] = now]
    /\ UNCHANGED <<world, serial, cache, attempt, tok, cat, own, refused, since>>

\* Mutant: a token is good until it ends.
UsableToTheEnd == token # NoToken /\ now < expires

\* Endpoint's test of the cached token, under the lock.
Usable == token # NoToken /\ now + RenewMargin < expires

\* Endpoint takes the cached token and the catalogue beside it...
EndpointCached(c) ==
    /\ Usable
    /\ Move(c, "endpoint", "request")
    /\ tok' = [tok EXCEPT ![c] = token]
    /\ cat' = [cat EXCEPT ![c] = catalog]
    /\ own' = [own EXCEPT ![c] = FALSE]
    /\ UNCHANGED <<world, serial, cache, start, attempt, refused, since>>

\* ... or finds none and authenticates, with the lock released.
EndpointStale(c) ==
    /\ ~Usable
    /\ Move(c, "endpoint", "auth")
    /\ UNCHANGED <<world, serial, cache, start, attempt, tok, cat, own, refused, since>>

\* Keystone takes the credential, read again from the openrc, and its answer
\* is on its way.
KeystoneIssues(c) ==
    /\ serial < MaxSerial
    /\ Move(c, "auth", "store")
    /\ serial' = serial + 1
    /\ tok' = [tok EXCEPT ![c] =
                 [serial |-> serial + 1, epoch |-> epoch, ends |-> now + Skew + TokenLife]]
    /\ cat' = [cat EXCEPT ![c] = serial + 1]
    /\ own' = [own EXCEPT ![c] = TRUE]
    /\ UNCHANGED <<world, cache, start, attempt, refused, since>>

\* Mutant: a token another call has stored meanwhile is preferred.
StorePrefersCached(c) ==
    /\ Move(c, "store", "request")
    /\ IF token # NoToken
         THEN /\ tok' = [tok EXCEPT ![c] = token]
              /\ cat' = [cat EXCEPT ![c] = catalog]
              /\ UNCHANGED cache
         ELSE /\ token' = tok[c] /\ expires' = tok[c].ends /\ catalog' = cat[c]
              /\ UNCHANGED <<tok, cat>>
    /\ UNCHANGED <<world, serial, start, attempt, own, refused, since>>

\* Mutant: the catalogue is read once and kept.
StoreKeepsCatalog(c) ==
    /\ Move(c, "store", "request")
    /\ token' = tok[c]
    /\ expires' = tok[c].ends
    /\ catalog' = IF catalog = 0 THEN cat[c] ELSE catalog
    /\ UNCHANGED <<world, serial, start, attempt, tok, cat, own, refused, since>>

\* Mutant: the new end is not stored.
StoreKeepsExpiry(c) ==
    /\ Move(c, "store", "request")
    /\ token' = tok[c]
    /\ expires' = IF token = NoToken THEN tok[c].ends ELSE expires
    /\ catalog' = cat[c]
    /\ UNCHANGED <<world, serial, start, attempt, tok, cat, own, refused, since>>

\* authenticate stores what it was given, whatever was stored meanwhile, and
\* goes on with its own.
Store(c) ==
    /\ Move(c, "store", "request")
    /\ token' = tok[c]
    /\ expires' = tok[c].ends
    /\ catalog' = cat[c]
    /\ UNCHANGED <<world, serial, start, attempt, tok, cat, own, refused, since>>

\* The handler returns, and with it goes what it held.
Forget(c) ==
    /\ tok' = [tok EXCEPT ![c] = NoToken]
    /\ cat' = [cat EXCEPT ![c] = 0]
    /\ own' = [own EXCEPT ![c] = FALSE]
    /\ refused' = [refused EXCEPT ![c] = NoToken]
    /\ since' = [since EXCEPT ![c] = 0]
    /\ attempt' = [attempt EXCEPT ![c] = 0]
    /\ start' = [start EXCEPT ![c] = 0]

\* A service answers.  It may remember a token it has checked before, so a
\* revoked or ended one can still pass.
ServiceAnswers(c) ==
    /\ Move(c, "request", "idle")
    /\ Forget(c)
    /\ UNCHANGED <<world, serial, cache>>

\* A service refuses the token.  The first time the call will try again, the
\* second time the 401 is its answer.  The code acts on any 401; that services
\* answer it only for a token that has ended or was revoked is assumed of them.
ServiceRefuses(c) ==
    /\ stage[c] = "request"
    /\ Ended(tok[c]) \/ Revoked(tok[c])
    /\ IF attempt[c] = 0
         THEN /\ stage' = [stage EXCEPT ![c] = "drop"]
              /\ refused' = [refused EXCEPT ![c] = tok[c]]
              /\ since' = [since EXCEPT ![c] = epoch]
         ELSE /\ stage' = [stage EXCEPT ![c] = "unauthorized"]
              /\ UNCHANGED <<refused, since>>
    /\ UNCHANGED <<world, serial, cache, start, attempt, tok, cat, own>>

\* Mutant: the second attempt starts without dropping the token.
InvalidateForgotten(c) ==
    /\ Move(c, "drop", "endpoint")
    /\ attempt' = [attempt EXCEPT ![c] = 1]
    /\ UNCHANGED <<world, serial, cache, start, tok, cat, own, refused, since>>

\* The 401 has arrived: Invalidate drops whatever token is cached now.
Invalidate(c) ==
    /\ Move(c, "drop", "endpoint")
    /\ attempt' = [attempt EXCEPT ![c] = 1]
    /\ token' = NoToken
    /\ UNCHANGED <<world, serial, expires, catalog, start, tok, cat, own, refused, since>>

\* The deadline, a client that has gone, a network error, an unreadable
\* openrc, a Keystone that refuses, a service the catalogue lacks or an
\* endpoint that cannot be joined: the call is recorded and answered.
CallFails(c) ==
    /\ stage[c] \in {"auth", "request"}
    /\ stage' = [stage EXCEPT ![c] = "idle"]
    /\ Forget(c)
    /\ UNCHANGED <<world, serial, cache>>

\* The second 401 is passed on.
PassesOn(c) ==
    /\ Move(c, "unauthorized", "idle")
    /\ Forget(c)
    /\ UNCHANGED <<world, serial, cache>>

-----------------------------------------------------------------------------
Handler(c) ==
    \/ CallStarts(c)
    \/ EndpointCached(c) \/ EndpointStale(c) \/ KeystoneIssues(c) \/ Store(c)
    \/ ServiceAnswers(c) \/ ServiceRefuses(c) \/ Invalidate(c)
    \/ CallFails(c) \/ PassesOn(c)

\* The explored time is over and no call is under way.
Over == now = MaxTime /\ (\A c \in Calls : stage[c] \notin Busy) /\ UNCHANGED vars

Next == Tick \/ Revoke \/ Over \/ \E c \in Calls : Handler(c)

Spec == Init /\ [][Next]_vars

-----------------------------------------------------------------------------
(* Properties.                                                             *)

\* A 401 the handler acts on is never about the age of the token: whatever
\* the calls did meanwhile, renewMargin keeps every token in use alive to the
\* end of its call.
NeverOutlived ==
    \A c \in Calls : stage[c] = "request" => ~Ended(tok[c])

\* A call sends its token to an endpoint of the catalogue that came with it,
\* although both are read from fields other calls overwrite.
HeldTogether ==
    \A c \in Calls : stage[c] = "request" => cat[c] = tok[c].serial

\* The second attempt never presents the token the first one was refused
\* with, however late the refusal came and whoever stored what since.
RetryIsFresh ==
    \A c \in Calls :
        (attempt[c] = 1 /\ stage[c] \in {"store", "request", "unauthorized"})
            => tok[c] # refused[c]

\* A 401 that is passed on is about a second revocation during the call, or
\* about a token some other call had got before the first.  A token the call
\* got for itself after its 401 is never one that 401 already covered.  It rests on
\* what ServiceRefuses assumes of the services.
FinalRefusalIsNews ==
    \A c \in Calls :
        (stage[c] = "unauthorized" /\ own[c]) => since[c] < epoch

-----------------------------------------------------------------------------
(* The inductive invariant behind them.                                    *)

\* The cached token, its end and its catalogue are of one authentication.
CacheIsOne ==
    token # NoToken => expires = token.ends /\ catalog = token.serial

\* No token in anyone's hands has a serial not given out yet.
Issued(t) == t # NoToken => t.serial \in 1..serial
AllIssued == Issued(token) /\ \A c \in Calls : Issued(tok[c]) /\ Issued(refused[c])

\* A busy call is within its deadline, and the token it goes on with lives
\* beyond it.
InTime ==
    \A c \in Calls :
        /\ stage[c] \in Busy => start[c] <= now /\ now <= Deadline(c)
        /\ stage[c] \in {"store", "request", "drop", "unauthorized"} => tok[c] # NoToken
        /\ stage[c] \in {"store", "request"} =>
              /\ Deadline(c) + Skew < tok[c].ends
              /\ cat[c] = tok[c].serial

\* A token not stored yet is in no other hands.
StoreIsPrivate ==
    \A d \in Calls : stage[d] = "store" =>
        /\ own[d]
        /\ token # tok[d]
        /\ \A c \in Calls : refused[c] # tok[d] /\ (c # d => tok[c] # tok[d])

\* A token that was refused is gone from the cache for good once its call
\* has dropped it, and what the call gets for itself after that is newer.
RefusedIsGone ==
    \A c \in Calls :
        /\ stage[c] = "drop" => refused[c] = tok[c]
        /\ stage[c] = "unauthorized" => attempt[c] = 1 /\ Revoked(tok[c])
        /\ since[c] <= epoch
        /\ attempt[c] = 1 =>
              /\ refused[c] # NoToken
              /\ token # refused[c]
              /\ stage[c] \in {"store", "request", "unauthorized"} =>
                    /\ tok[c] # refused[c]
                    /\ own[c] => since[c] <= tok[c].epoch

IndInv ==
    /\ TypeOK
    /\ CacheIsOne
    /\ AllIssued
    /\ InTime
    /\ StoreIsPrivate
    /\ RefusedIsGone
=============================================================================
