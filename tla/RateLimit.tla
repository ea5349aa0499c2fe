----------------------------- MODULE RateLimit -----------------------------
(***************************************************************************)
(* The Redis rate limiter as the login endpoint uses it (core/ratelimit.py, *)
(* login in routes/auth.py): a budget per address that every attempt        *)
(* consumes, and a counter of failures per account that is read before the  *)
(* password is compared and charged after it.                               *)
(*                                                                         *)
(* INCR and TTL travel in one MULTI/EXEC; EXPIRE is a second call.  An      *)
(* error of Redis lets the caller through.                                  *)
(***************************************************************************)
EXTENDS Naturals, FiniteSets

CONSTANTS
    Callers,      \* login attempts that may be in progress at the same time
    AddressLimit, \* settings.rate_limit_login_per_ip
    AccountLimit, \* settings.rate_limit_login_failures_per_account
    MaxCount,     \* bound on the attempts of an address in one window
    MaxMishaps    \* bound on errors of Redis and deaths of the API process

ASSUME LimiterConstants ==
    /\ IsFiniteSet(Callers)
    /\ AddressLimit \in Nat /\ AccountLimit \in Nat
    /\ MaxCount \in Nat /\ MaxMishaps \in Nat

VARIABLES
    count,      \* the counters; 0 is no key
    expires,    \* the keys that have a TTL
    caller,     \* where each attempt is
    mishaps,    \* errors and deaths so far
    letPast,    \* history: locked attempts that an error of Redis let through
    unexpired   \* history: by key, callers that counted but failed to set a TTL

limiterVars == <<count, expires, caller, mishaps, letPast, unexpired>>

Keys == {"address", "account"}
Limit(k) == IF k = "address" THEN AddressLimit ELSE AccountLimit

\* "expiring": INCR on `key' found no TTL, and `over' is what it makes of the
\* count.   "admitted": past enforce.   "checking": past assert_under, the hash
\* is being compared; "failed" and "passed" are its outcomes.
CallerPCs == {"away", "arrived", "expiring", "admitted", "checking", "failed", "passed"}
CallerRecord == [pc: CallerPCs, key: Keys, over: BOOLEAN]
Attempt(pc, k, over) == [pc |-> pc, key |-> k, over |-> over]
Away == Attempt("away", "address", FALSE)

CallerAt(c, pc)   == caller[c].pc = pc
CallerMoves(c, a) == caller' = [caller EXCEPT ![c] = a]

Expiring(k) == {c \in Callers : CallerAt(c, "expiring") /\ caller[c].key = k}
Checking    == {c \in Callers : caller[c].pc \in {"checking", "failed"}}

Mishap   == mishaps < MaxMishaps /\ mishaps' = mishaps + 1
NoMishap == UNCHANGED mishaps

LimiterTypeOK ==
    /\ count \in [Keys -> Nat]
    /\ expires \subseteq Keys
    /\ caller \in [Callers -> CallerRecord]
    /\ mishaps \in Nat /\ letPast \in Nat
    /\ unexpired \in [Keys -> Nat]

LimiterInit ==
    /\ count = [k \in Keys |-> 0]
    /\ expires = {}
    /\ caller = [c \in Callers |-> Away]
    /\ mishaps = 0 /\ letPast = 0
    /\ unexpired = [k \in Keys |-> 0]
-----------------------------------------------------------------------------
(* _incr, called by enforce for the address and by record_failure for the   *)
(* account.                                                                 *)

Arrive(c) ==
    /\ CallerAt(c, "away")
    /\ count["address"] < MaxCount
    /\ CallerMoves(c, Attempt("arrived", "address", FALSE))
    /\ UNCHANGED <<count, expires, mishaps, letPast, unexpired>>

Charges(c, k) ==
    \/ CallerAt(c, "arrived") /\ k = "address"
    \/ CallerAt(c, "failed") /\ k = "account"

\* enforce goes by the count; record_failure is followed by a 401 in any case.
AfterIncr(k, over) ==
    IF k = "address" /\ ~over THEN Attempt("admitted", "account", FALSE) ELSE Away

\* Mistake: only the caller that creates a key gives it an expiry.
IncrFirstExpires(c, k) ==
    LET over == count[k] >= Limit(k) IN
    /\ Charges(c, k)
    /\ count' = [count EXCEPT ![k] = @ + 1]
    /\ CallerMoves(c, IF count[k] > 0 THEN AfterIncr(k, over) ELSE Attempt("expiring", k, over))
    /\ UNCHANGED <<expires, mishaps, letPast, unexpired>>

Incr(c, k) ==
    LET over == count[k] >= Limit(k) IN
    /\ Charges(c, k)
    /\ count' = [count EXCEPT ![k] = @ + 1]
    /\ CallerMoves(c, IF k \in expires THEN AfterIncr(k, over) ELSE Attempt("expiring", k, over))
    /\ UNCHANGED <<expires, mishaps, letPast, unexpired>>

IncrRaises(c, k) ==
    /\ Charges(c, k) /\ Mishap
    /\ CallerMoves(c, AfterIncr(k, FALSE))
    /\ UNCHANGED <<count, expires, letPast, unexpired>>

\* EXPIRE, which does nothing to a key that is gone.
SetExpiry(c, k) ==
    /\ c \in Expiring(k)
    /\ expires' = IF count[k] > 0 THEN expires \cup {k} ELSE expires
    /\ unexpired' = [unexpired EXCEPT ![k] = 0]
    /\ CallerMoves(c, AfterIncr(k, caller[c].over))
    /\ UNCHANGED <<count, mishaps, letPast>>

\* The call fails, or its process dies: the key is left counting without a TTL.
ExpiryRaises(c, k) ==
    /\ c \in Expiring(k) /\ Mishap
    /\ unexpired' = [unexpired EXCEPT ![k] = @ + 1]
    /\ CallerMoves(c, AfterIncr(k, FALSE)) \/ CallerMoves(c, Away)
    /\ UNCHANGED <<count, expires, letPast>>

(* assert_under, the comparison, clear_failures.                            *)

Locked(k) == count[k] > Limit(k)

\* Mistake: the counter of the other rule is read.
AssertUnderOtherRule(c) ==
    /\ CallerAt(c, "admitted") /\ NoMishap
    /\ CallerMoves(c, IF Locked("address") THEN Away ELSE Attempt("checking", "account", FALSE))
    /\ UNCHANGED <<count, expires, letPast, unexpired>>

AssertUnder(c) ==
    /\ CallerAt(c, "admitted") /\ NoMishap
    /\ CallerMoves(c, IF Locked("account") THEN Away ELSE Attempt("checking", "account", FALSE))
    /\ UNCHANGED <<count, expires, letPast, unexpired>>

PeekRaises(c) ==
    /\ CallerAt(c, "admitted") /\ Mishap
    /\ letPast' = letPast + (IF Locked("account") THEN 1 ELSE 0)
    /\ CallerMoves(c, Attempt("checking", "account", FALSE))
    /\ UNCHANGED <<count, expires, unexpired>>

\* Wrong password; right password; right password of a disabled account.
Compare(c) ==
    /\ CallerAt(c, "checking")
    /\ \/ \E pc \in {"failed", "passed"} : CallerMoves(c, Attempt(pc, "account", FALSE))
       \/ CallerMoves(c, Away)
    /\ UNCHANGED <<count, expires, mishaps, letPast, unexpired>>

ClearFailures(c) ==
    /\ CallerAt(c, "passed")
    /\ \/ /\ NoMishap
          /\ count' = [count EXCEPT !["account"] = 0]
          /\ expires' = expires \ {"account"}
          /\ unexpired' = [unexpired EXCEPT !["account"] = 0]
       \/ Mishap /\ UNCHANGED <<count, expires, unexpired>>
    /\ CallerMoves(c, Away)
    /\ UNCHANGED letPast

\* The window of a key that has a TTL is over.
WindowEnds(k) ==
    /\ k \in expires
    /\ count' = [count EXCEPT ![k] = 0]
    /\ expires' = expires \ {k}
    /\ unexpired' = [unexpired EXCEPT ![k] = 0]
    /\ UNCHANGED <<caller, mishaps, letPast>>
-----------------------------------------------------------------------------
LimiterNext ==
    \/ \E c \in Callers :
        \/ Arrive(c)
        \/ \E k \in Keys : \/ Incr(c, k) \/ IncrRaises(c, k)
                           \/ SetExpiry(c, k) \/ ExpiryRaises(c, k)
        \/ AssertUnder(c) \/ PeekRaises(c) \/ Compare(c) \/ ClearFailures(c)
    \/ \E k \in Keys : WindowEnds(k)

LimiterSpec == LimiterInit /\ [][LimiterNext]_limiterVars
-----------------------------------------------------------------------------
(* Properties.                                                              *)

\* assert_under never repairs a counter without a TTL, so one that is over the
\* limit would lock the account for good.  A counter without a TTL has counted
\* no more than the callers about to set one and those that failed to, each of
\* which would have repaired the loss of the one before.
UnexpiringIsPending ==
    \A k \in Keys : count[k] > 0 /\ k \notin expires =>
        count[k] <= unexpired[k] + Cardinality(Expiring(k))

\* The lock is read before the comparison and charged after it: attempts made at
\* the same time pass the limit, but by no more than there are of them, errors
\* of Redis excepted.
LockoutOvershootBounded ==
    count["account"] + Cardinality(Checking) <= AccountLimit + Cardinality(Callers) + letPast
=============================================================================
