---------------------------- MODULE DomainClaims ----------------------------
(***************************************************************************)
(* The domains one organisation may scan: the claims of                    *)
(* models/domain_verification.py, the cached list of the verified ones in  *)
(* organisations.verified_domains, the handlers of routes/domains.py and   *)
(* the weekly sweep of workers/scheduler.py.                               *)
(*                                                                         *)
(* A handler and a sweep load rows, wait for DNS, and commit what they     *)
(* changed; PostgreSQL runs at READ COMMITTED and only changed columns are *)
(* written.  The list is one column: writing it writes all of it.          *)
(***************************************************************************)
EXTENDS Naturals, FiniteSets

CONSTANTS
    Ids,          \* primary keys of claims, never used twice
    Domains,      \* the names that can be claimed
    Actors,       \* handlers and sweeps that may be in progress at one time
    MaxClaims,    \* settings.max_verified_domains_per_org
    Threshold,    \* settings.domain_reverify_failure_threshold; 0 is never
    MaxFailures   \* bound: no check fails more often in a row

ASSUME ConstantsOK ==
    /\ IsFiniteSet(Ids) /\ IsFiniteSet(Actors)
    /\ MaxClaims \in Nat \ {0}
    /\ Threshold \in Nat
    /\ MaxFailures \in Nat

VARIABLES
    claims,       \* the table domain_verifications
    authority,    \* organisations.verified_domains, as a set
    actor,        \* handlers and sweeps in progress
    known,        \* history: failed checks in a row whose two lookups resolved
    stale         \* history: some commit wrote from rows that had changed

vars == <<claims, authority, actor, known, stale>>
-----------------------------------------------------------------------------
(* check_domain_token looks the token up under the challenge label and then  *)
(* on the apex.  Only when both lookups break does _explain say "Could not   *)
(* check DNS", which the sweep takes for an unresolved check.                *)

Answers == {"match", "other", "nothing", "error"}

Check(dedicated, apex) ==
    [outcome |-> IF "match" \in {dedicated, apex} THEN "ok"
                 ELSE IF {dedicated, apex} = {"error"} THEN "unresolved" ELSE "absent",
     resolved |-> "match" \in {dedicated, apex} \/ "error" \notin {dedicated, apex}]

Results == {Check(dedicated, apex) : dedicated \in Answers, apex \in Answers}
-----------------------------------------------------------------------------
(* Rows.  expired: the challenge token is past token_expires_at.            *)

Unused  == [status |-> "unused"]
Removed == [status |-> "removed"]
Claim   == [status: {"pending", "verified", "failed"}, domain: Domains,
            failures: 0 .. MaxFailures, expired: BOOLEAN]

Exists(i)     == claims[i].status \in {"pending", "verified", "failed"}
Held          == {i \in Ids : Exists(i)}
IsVerified(i) == claims[i].status = "verified"
Verified      == {claims[i].domain : i \in {j \in Ids : IsVerified(j)}}

Column(current, old, new) == IF new # old THEN new ELSE current

Merge(current, old, new) ==
    [status   |-> Column(current.status, old.status, new.status),
     domain   |-> current.domain,
     failures |-> Column(current.failures, old.failures, new.failures),
     expired  |-> Column(current.expired, old.expired, new.expired)]

-----------------------------------------------------------------------------
(* Actors.  "adding" passed the checks of add_domain, "rotating" and         *)
(* "checking" are verify_domain with a claim in hand, "granting" also has    *)
(* the list, and so has "removing"; "looking" is a sweep with the ids to     *)
(* check and "applying" a sweep with results, claims and the list.           *)

Idle == [pc |-> "idle"]
Actor ==
         {Idle}
    \cup [pc: {"adding"}, domain: Domains]
    \cup [pc: {"rotating", "checking"}, id: Ids, claim: Claim]
    \cup [pc: {"granting", "removing"}, id: Ids, claim: Claim, list: SUBSET Domains]
    \cup [pc: {"looking"}, ids: SUBSET Ids]
    \cup [pc: {"applying"}, rows: UNION {[S -> Claim \X Results] : S \in SUBSET Ids},
          list: SUBSET Domains]

In(a, pc) == actor[a].pc = pc
Goto(a, next) == actor' = [actor EXCEPT ![a] = next]

TypeOK ==
    /\ claims \in [Ids -> Claim \cup {Unused, Removed}]
    /\ authority \subseteq Domains
    /\ actor \in [Actors -> Actor]
    /\ known \in [Ids -> 0 .. MaxFailures]
    /\ stale \in BOOLEAN

Init ==
    /\ claims = [i \in Ids |-> Unused]
    /\ authority = {}
    /\ actor = [a \in Actors |-> Idle]
    /\ known = [i \in Ids |-> 0]
    /\ stale = FALSE

\* A commit is stale when the claim or the list is not what it was when loaded.
Notice(claimChanged, listChanged) == stale' = (stale \/ claimChanged \/ listChanged)
-----------------------------------------------------------------------------
(* add_domain                                                               *)

\* Mistake: the comparison is off by one.
AddCheckOffByOne(a, d) ==
    /\ In(a, "idle")
    /\ \A i \in Held : claims[i].domain # d
    /\ Cardinality(Held) <= MaxClaims
    /\ Goto(a, [pc |-> "adding", domain |-> d])
    /\ UNCHANGED <<claims, authority, known, stale>>

AddCheck(a, d) ==
    /\ In(a, "idle")
    /\ \A i \in Held : claims[i].domain # d
    /\ Cardinality(Held) < MaxClaims
    /\ Goto(a, [pc |-> "adding", domain |-> d])
    /\ UNCHANGED <<claims, authority, known, stale>>

\* The unique constraint on (org_id, domain) refuses a second claim.
AddCommit(a, i) ==
    LET d == actor[a].domain IN
    /\ In(a, "adding")
    /\ claims[i] = Unused
    /\ claims' = IF \E j \in Held : claims[j].domain = d THEN claims
                 ELSE [claims EXCEPT ![i] = [status |-> "pending", domain |-> d,
                                             failures |-> 0, expired |-> FALSE]]
    /\ Goto(a, Idle)
    /\ UNCHANGED <<authority, known, stale>>

(* verify_domain.  A verified claim is returned as it is; an expired token is *)
(* rotated; otherwise the token is looked up in DNS.                         *)

VerifyLoad(a, i) ==
    /\ In(a, "idle")
    /\ Exists(i) /\ ~IsVerified(i)
    /\ Goto(a, [pc |-> IF claims[i].expired THEN "rotating" ELSE "checking",
                id |-> i, claim |-> claims[i]])
    /\ UNCHANGED <<claims, authority, known, stale>>

\* An UPDATE of a removed claim is an error and rolls the transaction back.
Update(i, old, new) ==
    claims' = IF Exists(i) THEN [claims EXCEPT ![i] = Merge(claims[i], old, new)] ELSE claims

\* Mistake: a status the enum of the column does not have.
RotateCommitToExpired(a) ==
    LET i == actor[a].id  old == actor[a].claim IN
    /\ In(a, "rotating")
    /\ Update(i, old, [old EXCEPT !.status = "expired", !.expired = FALSE])
    /\ Notice(claims[i].status # old.status, FALSE)
    /\ Goto(a, Idle)
    /\ UNCHANGED <<authority, known>>

RotateCommit(a) ==
    LET i == actor[a].id  old == actor[a].claim IN
    /\ In(a, "rotating")
    /\ Update(i, old, [old EXCEPT !.status = "pending", !.expired = FALSE])
    /\ Notice(claims[i].status # old.status, FALSE)
    /\ Goto(a, Idle)
    /\ UNCHANGED <<authority, known>>

VerifyFails(a, r) ==
    LET i == actor[a].id  old == actor[a].claim IN
    /\ In(a, "checking")
    /\ r.outcome # "ok"
    /\ old.failures < MaxFailures
    /\ Update(i, old, [old EXCEPT !.status = "failed", !.failures = @ + 1])
    /\ Notice(claims[i].status # old.status, FALSE)
    /\ Goto(a, Idle)
    /\ UNCHANGED <<authority, known>>

VerifySucceeds(a) ==
    /\ In(a, "checking")
    /\ Goto(a, [pc |-> "granting", id |-> actor[a].id, claim |-> actor[a].claim,
                list |-> authority])
    /\ UNCHANGED <<claims, authority, known, stale>>

\* _grant assigns the list that was loaded, with the domain appended.
GrantCommit(a) ==
    LET i == actor[a].id  old == actor[a].claim  list == actor[a].list IN
    /\ In(a, "granting")
    /\ Update(i, old, [old EXCEPT !.status = "verified", !.failures = 0])
    /\ authority' = IF Exists(i) /\ old.domain \notin list THEN list \cup {old.domain}
                    ELSE authority
    /\ known' = IF Exists(i) THEN [known EXCEPT ![i] = 0] ELSE known
    /\ Notice(claims[i].status # old.status, list # authority)
    /\ Goto(a, Idle)

(* delete_domain                                                            *)

DeleteLoad(a, i) ==
    /\ In(a, "idle")
    /\ Exists(i)
    /\ Goto(a, [pc |-> "removing", id |-> i, claim |-> claims[i], list |-> authority])
    /\ UNCHANGED <<claims, authority, known, stale>>

\* Mistake: list.remove() in place, which SQLAlchemy does not notice.
WithoutInPlace(list, ds) == authority

\* _revoke assigns the list that was loaded, without the domain.
Without(list, ds) == IF list \cap ds = {} THEN authority ELSE list \ ds

DeleteCommit(a) ==
    LET i == actor[a].id  old == actor[a].claim  list == actor[a].list IN
    /\ In(a, "removing")
    /\ claims' = [claims EXCEPT ![i] = Removed]
    /\ authority' = Without(list, {old.domain})
    /\ Notice(claims[i].status # old.status, list # authority)
    /\ Goto(a, Idle)
    /\ known' = [known EXCEPT ![i] = 0]

\* A week passes.
TokenExpires(i) ==
    /\ Exists(i) /\ ~claims[i].expired
    /\ claims' = [claims EXCEPT ![i].expired = TRUE]
    /\ UNCHANGED <<authority, actor, known, stale>>
-----------------------------------------------------------------------------
(* reverify_domains: one transaction reads the verified claims, DNS is asked *)
(* about each, and a second transaction writes all the results.  A check     *)
(* that raises leaves its claim out.                                         *)

SweepLoad(a) ==
    /\ In(a, "idle")
    /\ Verified # {}
    /\ Goto(a, [pc |-> "looking", ids |-> {i \in Ids : IsVerified(i)}])
    /\ UNCHANGED <<claims, authority, known, stale>>

SweepRead(a) ==
    /\ In(a, "looking")
    /\ \E S \in SUBSET (actor[a].ids \cap Held) :
       \E result \in [S -> Results] :
          /\ \A i \in S : result[i].outcome # "ok" => claims[i].failures < MaxFailures
          /\ Goto(a, [pc |-> "applying", rows |-> [i \in S |-> <<claims[i], result[i]>>],
                      list |-> authority])
    /\ UNCHANGED <<claims, authority, known, stale>>

\* _should_revoke, and the test for an unresolved check before it.
Revokes(old, result) ==
    /\ result.outcome = "absent"
    /\ Threshold > 0 /\ old.failures + 1 >= Threshold

Swept(old, result) ==
    IF result.outcome = "ok" THEN [old EXCEPT !.failures = 0]
    ELSE [old EXCEPT !.failures = @ + 1,
                     !.status = IF Revokes(old, result) THEN "failed" ELSE @]

Counted(i, result) ==
    IF result.outcome = "ok" THEN 0
    ELSE IF result.resolved /\ known[i] < MaxFailures THEN known[i] + 1 ELSE known[i]

SweepCommit(a) ==
    LET rows == actor[a].rows
        lost == {rows[i][1].domain : i \in {j \in DOMAIN rows : Revokes(rows[j][1], rows[j][2])}}
    IN
    /\ In(a, "applying")
    /\ IF DOMAIN rows \subseteq Held
       THEN /\ claims' = [i \in Ids |-> IF i \in DOMAIN rows
                                       THEN Merge(claims[i], rows[i][1], Swept(rows[i][1], rows[i][2]))
                                       ELSE claims[i]]
            /\ authority' = Without(actor[a].list, lost)
            /\ known' = [i \in Ids |-> IF i \in DOMAIN rows THEN Counted(i, rows[i][2]) ELSE known[i]]
       ELSE UNCHANGED <<claims, authority, known>>
    /\ Notice(\E i \in DOMAIN rows : claims[i].status # rows[i][1].status,
              actor[a].list # authority)
    /\ Goto(a, Idle)

\* A handler is refused by the rate limiter, or a process dies, before it commits.
Abandon(a) ==
    /\ ~In(a, "idle")
    /\ Goto(a, Idle)
    /\ UNCHANGED <<claims, authority, known, stale>>
-----------------------------------------------------------------------------
Handler(a) ==
    \/ \E d \in Domains : AddCheck(a, d)
    \/ \E i \in Ids : AddCommit(a, i) \/ VerifyLoad(a, i) \/ DeleteLoad(a, i)
    \/ \E r \in Results : VerifyFails(a, r)
    \/ RotateCommit(a) \/ VerifySucceeds(a) \/ GrantCommit(a) \/ DeleteCommit(a)

Sweep(a) == SweepLoad(a) \/ SweepRead(a) \/ SweepCommit(a)

Next ==
    \/ \E a \in Actors : Handler(a) \/ Sweep(a) \/ Abandon(a)
    \/ \E i \in Ids : TokenExpires(i)

Spec == Init /\ [][Next]_vars
-----------------------------------------------------------------------------
(* Properties.                                                              *)

\* The list the scope checks read is the domains of the verified claims, as long
\* as every commit so far was made on rows that had not changed since they were
\* loaded: each handler and the sweep keep both sides, alone or one by one.
CacheMatchesClaims == ~stale => authority = Verified

\* One organisation holds a domain once, however many handlers add it: deleting
\* one claim must not withdraw the authority another claim proved.
OneClaimPerDomain ==
    \A i, j \in Held : claims[i].domain = claims[j].domain => i = j

\* The cap on claims is counted before the INSERT, so it can be passed, but by no
\* more than the other handlers in progress.
ClaimsOvershootBounded ==
    Cardinality(Held) + Cardinality({a \in Actors : In(a, "adding")})
        <= MaxClaims - 1 + Cardinality(Actors)

(* What the comments of the code say.                                       *)

\* routes/domains.py: the claim and the list "must not diverge".
NeverDiverges == authority = Verified

\* scheduler.py: "A DNS failure we could not complete is not evidence of anything,
\* so it is reported and counted but never accumulates toward revocation."
UnresolvedNeverRevokes ==
    [][\A i \in Ids : IsVerified(i) /\ claims'[i].status = "failed"
          => known'[i] >= Threshold]_vars
=============================================================================
