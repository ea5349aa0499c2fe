----------------------------- MODULE TokenChain -----------------------------
(***************************************************************************)
(* What rotation promises, whatever the requests that carry it out do      *)
(* between their statements: a refresh token is exchanged in one step for  *)
(* a new one of its chain, it is live when that happens, and it is of no   *)
(* use to anybody after.                                                   *)
(*                                                                         *)
(* Sessions implements this (ImplementsTokenChain), and TokenClient uses   *)
(* it as its server.                                                       *)
(***************************************************************************)
CONSTANT Tokens  \* the refresh tokens that can ever be signed

VARIABLES
    state,  \* of each token: unborn, live or revoked
    chain   \* of each token: the first one of its chain, itself until it is signed

chainVars == <<state, chain>>

Living   == {t \in Tokens : state[t] = "live"}
Unsigned == {t \in Tokens : state[t] = "unborn"}

ChainTypeOK ==
    /\ state \in [Tokens -> {"unborn", "live", "revoked"}]
    /\ chain \in [Tokens -> Tokens]

ChainInit ==
    /\ state = [t \in Tokens |-> "unborn"]
    /\ chain = [t \in Tokens |-> t]

\* A login starts a chain.
Issue(t) ==
    /\ t \in Unsigned
    /\ state' = [state EXCEPT ![t] = "live"]
    /\ UNCHANGED chain

\* A refresh exchanges a live token for one that was never signed.
Rotate(t, u) ==
    /\ t \in Living /\ u \in Unsigned
    /\ state' = [state EXCEPT ![t] = "revoked", ![u] = "live"]
    /\ chain' = [chain EXCEPT ![u] = chain[t]]

\* A logout, an expiry, a password change or the detection of reuse.
Revoke(tokens) ==
    /\ state' = [t \in Tokens |-> IF t \in tokens THEN "revoked" ELSE state[t]]
    /\ UNCHANGED chain

ChainNext ==
    \/ \E tokens \in SUBSET (Tokens \ Unsigned) : Revoke(tokens)
    \/ \E t \in Tokens : Issue(t)
    \/ \E t, u \in Tokens : Rotate(t, u)

ChainSpec == ChainInit /\ [][ChainNext]_chainVars

\* Of a chain at most one token is live: whoever holds one that was exchanged has
\* nothing (routes/auth.py, refresh).
OneLivePerChain ==
    \A t, u \in Living : chain[t] = chain[u] => t = u
=============================================================================
