------------------------- MODULE DomainClaims_proofs -------------------------
(***************************************************************************)
(* Proofs about DomainClaims, for any number of claims, domains, handlers  *)
(* and sweeps.                                                             *)
(*                                                                         *)
(* CacheMatchesClaims rests on OneClaimPerDomain (withdrawing a domain     *)
(* withdraws it for one claim only) and on snapshots that name the domain  *)
(* of the claim they were read from.                                       *)
(***************************************************************************)
EXTENDS DomainClaims, FiniteSetTheorems, TLAPS

InProgress == {"rotating", "checking", "granting", "removing"}

\* What a handler holds, by where it is.
LEMMA HandlerType ==
    ASSUME TypeOK, NEW a \in Actors
    PROVE  /\ In(a, "adding") => actor[a].domain \in Domains
           /\ actor[a].pc \in InProgress => actor[a].id \in Ids /\ actor[a].claim \in Claim
           /\ actor[a].pc \in {"granting", "removing"} => actor[a].list \subseteq Domains
           /\ In(a, "looking") => actor[a].ids \subseteq Ids
<1>1. actor[a] \in Actor
    BY DEF TypeOK
<1>2. QED
    BY <1>1 DEF Actor, Idle, In, InProgress

\* What a sweep holds.
LEMMA SweepType ==
    ASSUME TypeOK, NEW a \in Actors, In(a, "applying")
    PROVE  /\ actor[a].list \subseteq Domains
           /\ DOMAIN actor[a].rows \subseteq Ids
           /\ \A i \in DOMAIN actor[a].rows :
                actor[a].rows[i][1] \in Claim /\ actor[a].rows[i][2] \in Results
<1>1. actor[a] \in [pc: {"applying"}, rows: UNION {[S -> Claim \X Results] : S \in SUBSET Ids},
                    list: SUBSET Domains]
    BY DEF TypeOK, Actor, Idle, In
<1>2. PICK S \in SUBSET Ids : actor[a].rows \in [S -> Claim \X Results]
    BY <1>1
<1>3. QED
    BY <1>1, <1>2

\* A claim that exists is a claim record.
LEMMA HeldClaim ==
    ASSUME TypeOK, NEW i \in Ids, Exists(i)
    PROVE  claims[i] \in Claim
BY DEF TypeOK, Exists, Unused, Removed

\* Merging two claims into a third is a claim.
LEMMA MergeType ==
    ASSUME NEW current \in Claim, NEW old \in Claim, NEW new \in Claim
    PROVE  /\ Merge(current, old, new) \in Claim
           /\ Merge(current, old, new).domain = current.domain
           /\ Merge(current, old, new).status = Column(current.status, old.status, new.status)
BY DEF Merge, Column, Claim

\* What the handlers write.
LEMMA WrittenClaim ==
    ASSUME ConstantsOK, NEW old \in Claim
    PROVE  /\ [old EXCEPT !.status = "pending", !.expired = FALSE] \in Claim
           /\ [old EXCEPT !.status = "verified", !.failures = 0] \in Claim
           /\ old.failures < MaxFailures =>
                [old EXCEPT !.status = "failed", !.failures = @ + 1] \in Claim
           /\ [old EXCEPT !.expired = TRUE] \in Claim
<1>1. 0 \in 0 .. MaxFailures
    BY DEF ConstantsOK
<1>2. old.failures < MaxFailures => old.failures + 1 \in 0 .. MaxFailures
    BY DEF ConstantsOK, Claim
<1>3. QED
    BY <1>1, <1>2 DEF Claim

\* What the sweep writes.
LEMMA SweptClaim ==
    ASSUME ConstantsOK, NEW old \in Claim, NEW r \in Results,
           r.outcome # "ok" => old.failures < MaxFailures
    PROVE  /\ Swept(old, r) \in Claim
           /\ Swept(old, r).status = IF Revokes(old, r) THEN "failed" ELSE old.status
<1>1. 0 \in 0 .. MaxFailures
    BY DEF ConstantsOK
<1>2. r.outcome # "ok" => old.failures + 1 \in 0 .. MaxFailures
    BY DEF ConstantsOK, Claim
<1>3. r.outcome = "ok" => ~Revokes(old, r)
    BY DEF Revokes
<1>4. QED
    BY <1>1, <1>2, <1>3 DEF Swept, Claim
-----------------------------------------------------------------------------
(* The inductive invariant.                                                  *)

\* A snapshot was read from a claim that existed, and names its domain.
ReadFrom(i, old) ==
    /\ claims[i] # Unused
    /\ Exists(i) => claims[i].domain = old.domain

\* What an actor holds agrees with the table.
HoldsOK(u) ==
    /\ u.pc \in InProgress => ReadFrom(u.id, u.claim)
    /\ u.pc \in {"rotating", "checking", "granting"} => u.claim.status # "verified"
    /\ u.pc = "applying" => \A i \in DOMAIN u.rows :
          /\ ReadFrom(i, u.rows[i][1])
          /\ u.rows[i][2].outcome # "ok" => u.rows[i][1].failures < MaxFailures

SnapshotsOK == \A a \in Actors : HoldsOK(actor[a])

IInv == TypeOK /\ OneClaimPerDomain /\ SnapshotsOK /\ CacheMatchesClaims

\* A step of one actor leaves the others where they are.
LEMMA ActorMoves ==
    ASSUME TypeOK, NEW a \in Actors, NEW next \in Actor, Goto(a, next)
    PROVE  /\ actor' \in [Actors -> Actor]
           /\ actor'[a] = next
           /\ \A b \in Actors \ {a} : actor'[b] = actor[b]
BY DEF TypeOK, Goto

\* The UPDATE of one claim by a handler.
LEMMA UpdateOne ==
    ASSUME TypeOK, NEW i \in Ids, NEW old \in Claim, NEW new \in Claim, Update(i, old, new)
    PROVE  /\ claims' \in [Ids -> Claim \cup {Unused, Removed}]
           /\ \A j \in Ids : /\ Exists(j)' <=> Exists(j)
                             /\ Exists(j) => claims'[j].domain = claims[j].domain
                             /\ ~Exists(j) => claims'[j] = claims[j]
           /\ \A j \in Ids \ {i} : claims'[j] = claims[j]
           /\ Exists(i) => claims'[i].status = Column(claims[i].status, old.status, new.status)
<1>1. CASE Exists(i)
    <2>1. Merge(claims[i], old, new) \in Claim
        BY <1>1, HeldClaim, MergeType
    <2>2. claims' = [claims EXCEPT ![i] = Merge(claims[i], old, new)]
        BY <1>1 DEF Update
    <2>3. Merge(claims[i], old, new).status \in {"pending", "verified", "failed"}
        BY <2>1 DEF Claim
    <2>4. QED
        BY <1>1, <2>1, <2>2, <2>3, HeldClaim, MergeType DEF TypeOK, Exists
<1>2. CASE ~Exists(i)
    BY <1>2 DEF Update, TypeOK, Exists
<1>3. QED
    BY <1>1, <1>2

\* The same for the sweep, which updates several.
LEMMA SweepUpdates ==
    ASSUME ConstantsOK, IInv, NEW a \in Actors, SweepCommit(a)
    PROVE  /\ claims' \in [Ids -> Claim \cup {Unused, Removed}]
           /\ \A j \in Ids : /\ Exists(j)' <=> Exists(j)
                             /\ Exists(j) => claims'[j].domain = claims[j].domain
                             /\ ~Exists(j) => claims'[j] = claims[j]
           /\ DOMAIN actor[a].rows \subseteq Held =>
                \A j \in Ids :
                   claims'[j].status =
                     IF j \in DOMAIN actor[a].rows /\ Revokes(actor[a].rows[j][1], actor[a].rows[j][2])
                     THEN Column(claims[j].status, actor[a].rows[j][1].status, "failed")
                     ELSE claims[j].status
<1> DEFINE rows == actor[a].rows
<1> USE DEF IInv
<1>1. In(a, "applying") /\ \A i \in DOMAIN rows : rows[i][1] \in Claim /\ rows[i][2] \in Results
    BY SweepType DEF SweepCommit
<1>2. CASE DOMAIN rows \subseteq Held
    <2>1. claims' = [i \in Ids |-> IF i \in DOMAIN rows
                                  THEN Merge(claims[i], rows[i][1], Swept(rows[i][1], rows[i][2]))
                                  ELSE claims[i]]
        BY <1>2 DEF SweepCommit
    <2>2. ASSUME NEW j \in DOMAIN rows
          PROVE  /\ j \in Ids /\ Exists(j) /\ claims'[j] \in Claim
                 /\ claims'[j].domain = claims[j].domain
                 /\ claims'[j].status = Column(claims[j].status, rows[j][1].status,
                        IF Revokes(rows[j][1], rows[j][2]) THEN "failed" ELSE rows[j][1].status)
        <3>1. j \in Ids /\ Exists(j) /\ claims[j] \in Claim
            BY <1>2, HeldClaim DEF Held
        <3>2. rows[j][2].outcome # "ok" => rows[j][1].failures < MaxFailures
            BY <1>1 DEF SnapshotsOK, HoldsOK, In
        <3>3. Swept(rows[j][1], rows[j][2]) \in Claim
            BY <1>1, <3>2, SweptClaim
        <3>4. Swept(rows[j][1], rows[j][2]).status =
                IF Revokes(rows[j][1], rows[j][2]) THEN "failed" ELSE rows[j][1].status
            BY <1>1, <3>2, SweptClaim
        <3>5. claims'[j] = Merge(claims[j], rows[j][1], Swept(rows[j][1], rows[j][2]))
            BY <2>1, <3>1
        <3>6. QED
            BY <1>1, <3>1, <3>3, <3>4, <3>5, MergeType
    <2>3. \A j \in Ids \ DOMAIN rows : claims'[j] = claims[j]
        BY <2>1
    <2>4. claims' \in [Ids -> Claim \cup {Unused, Removed}]
        BY <2>1, <2>2, <2>3 DEF TypeOK
    <2>5. \A j \in DOMAIN rows : claims'[j].status \in {"pending", "verified", "failed"}
        BY <2>2 DEF Claim
    <2>6. ASSUME NEW j \in Ids
          PROVE  /\ Exists(j)' <=> Exists(j)
                 /\ Exists(j) => claims'[j].domain = claims[j].domain
                 /\ ~Exists(j) => claims'[j] = claims[j]
        BY <2>2, <2>3, <2>5 DEF Exists
    <2>7. ASSUME NEW j \in Ids
          PROVE  claims'[j].status =
                   IF j \in DOMAIN rows /\ Revokes(rows[j][1], rows[j][2])
                   THEN Column(claims[j].status, rows[j][1].status, "failed")
                   ELSE claims[j].status
        BY <2>2, <2>3 DEF Column
    <2>8. QED
        BY <2>4, <2>6, <2>7, Zenon
<1>3. CASE ~(DOMAIN rows \subseteq Held)
    <2>1. claims' = claims
        BY <1>3 DEF SweepCommit
    <2>2. QED
        BY <1>3, <2>1 DEF TypeOK, Exists
<1>4. QED
    BY <1>2, <1>3
-----------------------------------------------------------------------------
(* The table, step by step.                                                  *)

\* A key is used once, a claim never changes its domain, and only add_domain
\* makes a claim.
Kept ==
    \A j \in Ids :
        /\ claims[j] # Unused => claims'[j] # Unused
        /\ Exists(j)' => Exists(j) \/ claims[j] = Unused
        /\ Exists(j) /\ Exists(j)' => claims'[j].domain = claims[j].domain

\* The UPDATE of one claim keeps the table.
LEMMA UpdateKeeps ==
    ASSUME TypeOK, NEW i \in Ids, NEW old \in Claim, NEW new \in Claim, Update(i, old, new)
    PROVE  claims' \in [Ids -> Claim \cup {Unused, Removed}] /\ Kept
<1>1. ASSUME NEW j \in Ids
      PROVE  /\ claims[j] # Unused => claims'[j] # Unused
             /\ Exists(j)' => Exists(j)
             /\ Exists(j) => claims'[j].domain = claims[j].domain
    <2>1. /\ Exists(j)' <=> Exists(j)
          /\ Exists(j) => claims'[j].domain = claims[j].domain
          /\ ~Exists(j) => claims'[j] = claims[j]
        BY UpdateOne
    <2>2. Exists(j)' => claims'[j] # Unused
        BY DEF Exists, Unused
    <2>3. QED
        BY <2>1, <2>2
<1>2. QED
    BY <1>1, UpdateOne DEF Kept

\* Every step keeps the table.
LEMMA ClaimsStep ==
    ASSUME ConstantsOK, IInv, Next
    PROVE  claims' \in [Ids -> Claim \cup {Unused, Removed}] /\ Kept
<1> USE DEF IInv
<1>1. CASE claims' = claims
    BY <1>1 DEF Kept, Exists, TypeOK
<1>2. ASSUME NEW a \in Actors, NEW i \in Ids, AddCommit(a, i)
      PROVE  claims' \in [Ids -> Claim \cup {Unused, Removed}] /\ Kept
    <2> DEFINE c == [status |-> "pending", domain |-> actor[a].domain,
                     failures |-> 0, expired |-> FALSE]
    <2>1. c \in Claim
        BY <1>2, HandlerType DEF AddCommit, Claim, ConstantsOK
    <2>2. CASE claims' = [claims EXCEPT ![i] = c]
        <3>1. c # Unused
            BY DEF Unused
        <3>2. \A j \in Ids : claims'[j] = IF j = i THEN c ELSE claims[j]
            BY <2>2 DEF TypeOK
        <3>3. claims[i] = Unused
            BY <1>2 DEF AddCommit
        <3>4. ~Exists(i)
            BY <3>3 DEF Exists, Unused
        <3>5. QED
            BY <2>1, <2>2, <3>1, <3>2, <3>3, <3>4 DEF Kept, Exists, TypeOK
    <2>3. QED
        BY <1>1, <1>2, <2>2 DEF AddCommit
<1>3. ASSUME NEW a \in Actors, RotateCommit(a) \/ (\E r \in Results : VerifyFails(a, r)) \/ GrantCommit(a)
      PROVE  claims' \in [Ids -> Claim \cup {Unused, Removed}] /\ Kept
    <2>1. actor[a].pc \in InProgress
        BY <1>3 DEF RotateCommit, VerifyFails, GrantCommit, In, InProgress
    <2>2. actor[a].id \in Ids /\ actor[a].claim \in Claim
        BY <2>1, HandlerType
    <2>3. PICK new \in Claim : Update(actor[a].id, actor[a].claim, new)
        BY <1>3, <2>2, WrittenClaim DEF RotateCommit, VerifyFails, GrantCommit
    <2>4. QED
        BY <2>2, <2>3, UpdateKeeps
<1>4. ASSUME NEW a \in Actors, DeleteCommit(a)
      PROVE  claims' \in [Ids -> Claim \cup {Unused, Removed}] /\ Kept
    <2>1. claims' = [claims EXCEPT ![actor[a].id] = Removed]
        BY <1>4 DEF DeleteCommit
    <2>2. \A j \in Ids : claims'[j] = claims[j] \/ claims'[j] = Removed
        BY <2>1 DEF TypeOK
    <2>3. QED
        BY <2>1, <2>2 DEF Kept, Exists, TypeOK, Removed, Unused
<1>5. ASSUME NEW i \in Ids, TokenExpires(i)
      PROVE  claims' \in [Ids -> Claim \cup {Unused, Removed}] /\ Kept
    <2>1. Exists(i) /\ claims[i] \in Claim
        BY <1>5, HeldClaim DEF TokenExpires
    <2>2. claims' = [claims EXCEPT ![i] = [claims[i] EXCEPT !.expired = TRUE]]
        BY <1>5 DEF TokenExpires
    <2>3. [claims[i] EXCEPT !.expired = TRUE] \in Claim
        BY <2>1, WrittenClaim
    <2>4. [claims[i] EXCEPT !.expired = TRUE].domain = claims[i].domain
        BY <2>1 DEF Claim
    <2>5. \A c \in Claim : c # Unused
        BY DEF Claim, Unused
    <2>6. /\ claims' \in [Ids -> Claim \cup {Unused, Removed}]
          /\ \A j \in Ids \ {i} : claims'[j] = claims[j]
          /\ claims'[i] \in Claim /\ claims'[i].domain = claims[i].domain
        BY <2>1, <2>2, <2>3, <2>4 DEF TypeOK
    <2>7. QED
        BY <2>1, <2>5, <2>6 DEF Kept, Exists
<1>6. ASSUME NEW a \in Actors, SweepCommit(a)
      PROVE  claims' \in [Ids -> Claim \cup {Unused, Removed}] /\ Kept
    <2>1. ASSUME NEW j \in Ids
          PROVE  /\ claims[j] # Unused => claims'[j] # Unused
                 /\ Exists(j)' => Exists(j)
                 /\ Exists(j) => claims'[j].domain = claims[j].domain
        <3>1. /\ Exists(j)' <=> Exists(j)
              /\ Exists(j) => claims'[j].domain = claims[j].domain
              /\ ~Exists(j) => claims'[j] = claims[j]
            BY <1>6, SweepUpdates
        <3>2. Exists(j)' => claims'[j] # Unused
            BY DEF Exists, Unused
        <3>3. QED
            BY <3>1, <3>2
    <2>2. QED
        BY <1>6, <2>1, SweepUpdates DEF Kept
<1>7. QED
    BY <1>1, <1>2, <1>3, <1>4, <1>5, <1>6 DEF Next, Handler, Sweep, Abandon, AddCheck, VerifyLoad,
        VerifySucceeds, DeleteLoad, SweepLoad, SweepRead
-----------------------------------------------------------------------------
(* The actors, step by step.                                                 *)

\* What an actor holds stays in agreement while the table is kept.
LEMMA HoldsOn ==
    ASSUME TypeOK, Kept, actor' \in [Actors -> Actor]
    PROVE  \A u \in Actor : HoldsOK(u) => \A v : v = u => HoldsOK(v)'
<1>1. ASSUME NEW i \in Ids, NEW old, ReadFrom(i, old)
      PROVE  \A o : o = old => ReadFrom(i, o)'
    BY <1>1 DEF ReadFrom, Kept
<1>2. ASSUME NEW u \in Actor, HoldsOK(u), NEW v, v = u
      PROVE  HoldsOK(v)'
    <2>1. u.pc \in InProgress => u.id \in Ids
        BY <1>2 DEF Actor, Idle, InProgress
    <2>2. u.pc = "applying" => DOMAIN u.rows \subseteq Ids
        BY <1>2 DEF Actor, Idle
    <2>3. u.pc \in InProgress => ReadFrom(u.id, v.claim)'
        BY <1>1, <1>2, <2>1 DEF HoldsOK
    <2>4. u.pc = "applying" => \A i \in DOMAIN u.rows :
            /\ ReadFrom(i, v.rows[i][1])'
            /\ u.rows[i][2].outcome # "ok" => u.rows[i][1].failures < MaxFailures
        BY <1>1, <1>2, <2>2 DEF HoldsOK
    <2>5. QED
        BY <1>2, <2>3, <2>4 DEF HoldsOK
<1>3. QED
    BY <1>2

\* A step to a next state in agreement with the table keeps all in agreement.
LEMMA Moves ==
    ASSUME TypeOK, SnapshotsOK, Kept, NEW a \in Actors, NEW next \in Actor, Goto(a, next),
           HoldsOK(next) \/ next.pc \notin InProgress \cup {"applying"}
    PROVE  actor' \in [Actors -> Actor] /\ SnapshotsOK'
<1>1. /\ actor' \in [Actors -> Actor]
      /\ actor'[a] = next
      /\ \A b \in Actors \ {a} : actor'[b] = actor[b]
    BY ActorMoves
<1>2. HoldsOK(next)
    BY DEF HoldsOK, InProgress
<1>3. \A v : v = next => HoldsOK(v)'
    BY <1>1, <1>2, HoldsOn
<1>4. ASSUME NEW b \in Actors, b # a
      PROVE  \A v : v = actor[b] => HoldsOK(v)'
    BY <1>1, <1>4, HoldsOn DEF SnapshotsOK, TypeOK
<1>5. QED
    BY <1>1, <1>3, <1>4 DEF SnapshotsOK

\* Every step of an actor leaves all of them well formed and in agreement.
LEMMA ActorsStep ==
    ASSUME ConstantsOK, IInv, Kept, NEW a \in Actors, Handler(a) \/ Sweep(a) \/ Abandon(a)
    PROVE  actor' \in [Actors -> Actor] /\ SnapshotsOK'
<1> USE DEF IInv
<1>1. ASSUME Goto(a, Idle)
      PROVE  actor' \in [Actors -> Actor] /\ SnapshotsOK'
    BY <1>1, Moves DEF Actor, Idle, InProgress
<1>2. ASSUME NEW d \in Domains, AddCheck(a, d)
      PROVE  actor' \in [Actors -> Actor] /\ SnapshotsOK'
    <2>1. [pc |-> "adding", domain |-> d] \in Actor
        BY DEF Actor
    <2>2. QED
        BY <1>2, <2>1, Moves DEF AddCheck, InProgress
<1>3. ASSUME NEW i \in Ids, VerifyLoad(a, i)
      PROVE  actor' \in [Actors -> Actor] /\ SnapshotsOK'
    <2> DEFINE next == [pc |-> IF claims[i].expired THEN "rotating" ELSE "checking",
                        id |-> i, claim |-> claims[i]]
    <2>1. Exists(i) /\ claims[i] \in Claim /\ claims[i].status # "verified"
        BY <1>3, HeldClaim DEF VerifyLoad, IsVerified
    <2>2. next \in Actor
        BY <2>1 DEF Actor
    <2>3. claims[i] # Unused
        BY <2>1 DEF Exists, Unused
    <2>4. HoldsOK(next)
        BY <2>1, <2>3 DEF HoldsOK, ReadFrom
    <2>5. Goto(a, next)
        BY <1>3 DEF VerifyLoad
    <2> HIDE DEF next
    <2>6. QED
        BY <2>2, <2>4, <2>5, Moves
<1>4. CASE VerifySucceeds(a)
    <2> DEFINE next == [pc |-> "granting", id |-> actor[a].id, claim |-> actor[a].claim,
                        list |-> authority]
    <2>1. In(a, "checking") /\ Goto(a, next)
        BY <1>4 DEF VerifySucceeds
    <2>2. actor[a].id \in Ids /\ actor[a].claim \in Claim
        BY <2>1, HandlerType DEF In, InProgress
    <2>3. next \in Actor
        BY <2>2 DEF Actor, TypeOK
    <2>4. HoldsOK(actor[a])
        BY DEF SnapshotsOK
    <2>5. HoldsOK(next)
        BY <2>1, <2>4 DEF HoldsOK, In, InProgress
    <2> HIDE DEF next
    <2>6. QED
        BY <2>1, <2>3, <2>5, Moves
<1>5. ASSUME NEW i \in Ids, DeleteLoad(a, i)
      PROVE  actor' \in [Actors -> Actor] /\ SnapshotsOK'
    <2> DEFINE next == [pc |-> "removing", id |-> i, claim |-> claims[i], list |-> authority]
    <2>1. Exists(i) /\ claims[i] \in Claim /\ Goto(a, next)
        BY <1>5, HeldClaim DEF DeleteLoad
    <2>2. next \in Actor
        BY <2>1 DEF Actor, TypeOK
    <2>3. claims[i] # Unused
        BY <2>1 DEF Exists, Unused
    <2>4. HoldsOK(next)
        BY <2>1, <2>3 DEF HoldsOK, ReadFrom
    <2> HIDE DEF next
    <2>5. QED
        BY <2>1, <2>2, <2>4, Moves
<1>6. CASE SweepLoad(a)
    <2>1. [pc |-> "looking", ids |-> {i \in Ids : IsVerified(i)}] \in Actor
        BY DEF Actor
    <2>2. QED
        BY <1>6, <2>1, Moves DEF SweepLoad, InProgress
<1>7. CASE SweepRead(a)
    <2>a. PICK S \in SUBSET (actor[a].ids \cap Held) : \E result \in [S -> Results] :
            /\ \A i \in S : result[i].outcome # "ok" => claims[i].failures < MaxFailures
            /\ Goto(a, [pc |-> "applying", rows |-> [i \in S |-> <<claims[i], result[i]>>],
                        list |-> authority])
        BY <1>7 DEF SweepRead
    <2>1. PICK result \in [S -> Results] :
            /\ \A i \in S : result[i].outcome # "ok" => claims[i].failures < MaxFailures
            /\ Goto(a, [pc |-> "applying", rows |-> [i \in S |-> <<claims[i], result[i]>>],
                        list |-> authority])
        BY <2>a
    <2> DEFINE rows == [i \in S |-> <<claims[i], result[i]>>]
               next == [pc |-> "applying", rows |-> rows, list |-> authority]
    <2>2. \A i \in S : i \in Ids /\ Exists(i) /\ claims[i] \in Claim
        BY HeldClaim DEF Held
    <2>3. rows \in [S -> Claim \X Results]
        BY <2>2
    <2>4. S \in SUBSET Ids
        BY <2>2
    <2>5. next \in Actor
        BY <2>3, <2>4 DEF Actor, TypeOK
    <2>6. \A i \in S : claims[i] # Unused
        BY <2>2 DEF Exists, Unused
    <2>7. HoldsOK(next)
        BY <2>1, <2>2, <2>6 DEF HoldsOK, ReadFrom, InProgress
    <2>8. Goto(a, next)
        BY <2>1
    <2> HIDE DEF next
    <2>9. QED
        BY <2>5, <2>7, <2>8, Moves
<1>8. QED
    BY <1>1, <1>2, <1>3, <1>4, <1>5, <1>6, <1>7 DEF Handler, Sweep, Abandon, AddCommit,
        RotateCommit, VerifyFails, GrantCommit, DeleteCommit, SweepCommit
-----------------------------------------------------------------------------
(* The invariant is inductive.                                               *)

LEMMA InitOK ==
    ASSUME ConstantsOK, Init
    PROVE  IInv
<1>1. \A i \in Ids : ~Exists(i)
    BY DEF Init, Exists, Unused
<1>2. \A a \in Actors : actor[a].pc = "idle"
    BY DEF Init, Idle
<1>3. 0 \in 0 .. MaxFailures
    BY DEF ConstantsOK
<1>4. TypeOK
    BY <1>3 DEF Init, TypeOK, Actor
<1>5. OneClaimPerDomain
    BY <1>1 DEF OneClaimPerDomain, Held
<1>6. SnapshotsOK
    BY <1>2 DEF SnapshotsOK, HoldsOK, InProgress
<1>7. CacheMatchesClaims
    BY <1>1 DEF Init, CacheMatchesClaims, Verified, IsVerified, Exists
<1>8. QED
    BY <1>4, <1>5, <1>6, <1>7 DEF IInv

\* Withdrawing domains from a list of domains.
LEMMA WithoutType ==
    ASSUME TypeOK, NEW list \in SUBSET Domains, NEW ds
    PROVE  Without(list, ds) \subseteq Domains
BY DEF Without, TypeOK

\* The variables other than the table and the actors.
LEMMA ListStep ==
    ASSUME ConstantsOK, IInv, Next
    PROVE  authority' \subseteq Domains /\ known' \in [Ids -> 0 .. MaxFailures] /\ stale' \in BOOLEAN
<1> USE DEF IInv
<1>0. known \in [Ids -> 0 .. MaxFailures] /\ \A i : [known EXCEPT ![i] = 0] \in [Ids -> 0 .. MaxFailures]
    <2>1. known \in [Ids -> 0 .. MaxFailures] /\ 0 \in 0 .. MaxFailures
        BY DEF TypeOK, ConstantsOK
    <2>2. QED
        BY <2>1
<1>1. CASE UNCHANGED <<authority, known, stale>>
    BY <1>1 DEF TypeOK
<1>2. ASSUME NEW a \in Actors, RotateCommit(a) \/ \E r \in Results : VerifyFails(a, r)
      PROVE  authority' \subseteq Domains /\ known' \in [Ids -> 0 .. MaxFailures] /\ stale' \in BOOLEAN
    BY <1>2 DEF TypeOK, RotateCommit, VerifyFails, Notice
<1>3. ASSUME NEW a \in Actors, GrantCommit(a)
      PROVE  authority' \subseteq Domains /\ known' \in [Ids -> 0 .. MaxFailures] /\ stale' \in BOOLEAN
    <2>1. actor[a].claim \in Claim /\ actor[a].list \subseteq Domains
        BY <1>3, HandlerType DEF GrantCommit, In, InProgress
    <2>2. actor[a].claim.domain \in Domains
        BY <2>1 DEF Claim
    <2>3. authority' = authority \/ authority' = actor[a].list \cup {actor[a].claim.domain}
        BY <1>3 DEF GrantCommit
    <2>4. authority' \subseteq Domains
        BY <2>1, <2>2, <2>3 DEF TypeOK
    <2>5. known' = known \/ known' = [known EXCEPT ![actor[a].id] = 0]
        BY <1>3 DEF GrantCommit
    <2>6. known' \in [Ids -> 0 .. MaxFailures]
        BY <1>0, <2>5
    <2>7. stale' \in BOOLEAN
        BY <1>3 DEF TypeOK, GrantCommit, Notice
    <2>8. QED
        BY <2>4, <2>6, <2>7
<1>4. ASSUME NEW a \in Actors, DeleteCommit(a)
      PROVE  authority' \subseteq Domains /\ known' \in [Ids -> 0 .. MaxFailures] /\ stale' \in BOOLEAN
    <2>1. actor[a].list \subseteq Domains
        BY <1>4, HandlerType DEF DeleteCommit, In
    <2>2. authority' \subseteq Domains
        <3>1. authority' = Without(actor[a].list, {actor[a].claim.domain})
            BY <1>4 DEF DeleteCommit
        <3> DEFINE ds == {actor[a].claim.domain}
        <3>2. authority' = Without(actor[a].list, ds)
            BY <3>1
        <3> HIDE DEF ds
        <3>3. QED
            BY <2>1, <3>2, WithoutType
    <2>3. known' \in [Ids -> 0 .. MaxFailures]
        BY <1>0, <1>4 DEF DeleteCommit
    <2>4. stale' \in BOOLEAN
        BY <1>4 DEF TypeOK, DeleteCommit, Notice
    <2>5. QED
        BY <2>2, <2>3, <2>4
<1>5. ASSUME NEW a \in Actors, SweepCommit(a)
      PROVE  authority' \subseteq Domains /\ known' \in [Ids -> 0 .. MaxFailures] /\ stale' \in BOOLEAN
    <2>1. actor[a].list \subseteq Domains
        BY <1>5, SweepType DEF SweepCommit
    <2>2. \A i \in Ids, r \in Results : Counted(i, r) \in 0 .. MaxFailures
        BY DEF Counted, TypeOK, ConstantsOK
    <2>3. \A i \in DOMAIN actor[a].rows : actor[a].rows[i][2] \in Results
        BY <1>5, SweepType DEF SweepCommit
    <2>4. known' \in [Ids -> 0 .. MaxFailures]
        <3>1. \/ known' = known
              \/ known' = [i \in Ids |-> IF i \in DOMAIN actor[a].rows
                                        THEN Counted(i, actor[a].rows[i][2]) ELSE known[i]]
            BY <1>5 DEF SweepCommit
        <3>2. QED
            BY <2>2, <2>3, <3>1 DEF TypeOK
    <2>5. authority' \subseteq Domains
        BY <1>5, <2>1, WithoutType DEF SweepCommit, TypeOK
    <2>6. stale' \in BOOLEAN
        BY <1>5 DEF TypeOK, SweepCommit, Notice
    <2>7. QED
        BY <2>4, <2>5, <2>6
<1>6. QED
    BY <1>1, <1>2, <1>3, <1>4, <1>5 DEF Next, Handler, Sweep, Abandon, AddCheck, AddCommit, VerifyLoad,
        VerifySucceeds, DeleteLoad, TokenExpires, SweepLoad, SweepRead

\* A claim is added only for a domain no claim holds.
LEMMA OneClaimStep ==
    ASSUME ConstantsOK, IInv, Next
    PROVE  OneClaimPerDomain'
<1> USE DEF IInv
<1>1. CASE \A i \in Ids : Exists(i)' => Exists(i)
    BY <1>1, ClaimsStep DEF OneClaimPerDomain, Kept, Held
<1>2. ASSUME NEW a \in Actors, NEW i \in Ids, AddCommit(a, i), ~\E j \in Held : claims[j].domain = actor[a].domain
      PROVE  OneClaimPerDomain'
    <2>1. claims'[i].domain = actor[a].domain /\ \A j \in Ids \ {i} : claims'[j] = claims[j]
        BY <1>2 DEF AddCommit, TypeOK
    <2>2. \A j \in Ids \ {i} : Exists(j)' <=> Exists(j)
        BY <2>1 DEF Exists
    <2>3. QED
        BY <1>2, <2>1, <2>2 DEF OneClaimPerDomain, Held
<1>3. ASSUME NEW a \in Actors, NEW i \in Ids, AddCommit(a, i)
      PROVE  OneClaimPerDomain'
    BY <1>1, <1>2, <1>3 DEF AddCommit, Exists
<1>4. ASSUME NEW a \in Actors, RotateCommit(a) \/ (\E r \in Results : VerifyFails(a, r)) \/ GrantCommit(a)
      PROVE  OneClaimPerDomain'
    <2>1. actor[a].pc \in InProgress
        BY <1>4 DEF RotateCommit, VerifyFails, GrantCommit, In, InProgress
    <2>2. actor[a].id \in Ids /\ actor[a].claim \in Claim
        BY <2>1, HandlerType
    <2>3. PICK new \in Claim : Update(actor[a].id, actor[a].claim, new)
        BY <1>4, <2>2, WrittenClaim DEF RotateCommit, VerifyFails, GrantCommit
    <2>4. \A j \in Ids : Exists(j)' <=> Exists(j)
        BY <2>2, <2>3, UpdateOne
    <2>5. QED
        BY <1>1, <2>4
<1>5. ASSUME NEW a \in Actors, DeleteCommit(a)
      PROVE  OneClaimPerDomain'
    BY <1>1, <1>5 DEF DeleteCommit, TypeOK, Exists, Removed
<1>6. ASSUME NEW i \in Ids, TokenExpires(i)
      PROVE  OneClaimPerDomain'
    <2>1. \A j \in Ids \ {i} : claims'[j] = claims[j]
        BY <1>6 DEF TokenExpires, TypeOK
    <2>2. \A j \in Ids : Exists(j)' => Exists(j)
        BY <1>6, <2>1 DEF TokenExpires, Exists
    <2>3. QED
        BY <1>1, <2>2
<1>7. ASSUME NEW a \in Actors, SweepCommit(a)
      PROVE  OneClaimPerDomain'
    BY <1>1, <1>7, SweepUpdates
<1>8. CASE claims' = claims
    BY <1>1, <1>8 DEF Exists
<1>9. QED
    BY <1>3, <1>4, <1>5, <1>6, <1>7, <1>8 DEF Next, Handler, Sweep, Abandon, AddCheck, VerifyLoad,
        VerifySucceeds, DeleteLoad, SweepLoad, SweepRead

\* Claims that are verified before and after the same steps have the same domains.
LEMMA SameVerified ==
    ASSUME TypeOK, Kept, \A j \in Ids : IsVerified(j)' <=> IsVerified(j)
    PROVE  Verified' = Verified
<1>1. \A j \in Ids : IsVerified(j) => Exists(j)
    BY DEF IsVerified, Exists
<1>2. \A j \in Ids : IsVerified(j)' => Exists(j)'
    BY DEF IsVerified, Exists
<1>3. \A j \in Ids : IsVerified(j) => claims'[j].domain = claims[j].domain
    BY <1>1, <1>2 DEF Kept
<1>4. QED
    BY <1>3 DEF Verified

\* A commit that was not stale and gives a claim another status than "verified".
LEMMA UnverifiedWrite ==
    ASSUME ConstantsOK, IInv, Kept, NEW a \in Actors, actor[a].pc \in {"rotating", "checking"},
           NEW new \in Claim, new.status # "verified", Update(actor[a].id, actor[a].claim, new),
           claims[actor[a].id].status = actor[a].claim.status
    PROVE  Verified' = Verified
<1> USE DEF IInv
<1> DEFINE i == actor[a].id  old == actor[a].claim
<1>1. i \in Ids /\ old \in Claim /\ old.status # "verified"
    BY HandlerType DEF InProgress, SnapshotsOK, HoldsOK
<1>2. Exists(i)
    BY <1>1 DEF Exists, Claim
<1>3. claims'[i].status = Column(claims[i].status, old.status, new.status)
    BY <1>1, <1>2, UpdateOne
<1>4. claims[i].status # "verified" /\ claims'[i].status # "verified"
    BY <1>1, <1>3 DEF Column
<1>5. \A j \in Ids \ {i} : claims'[j] = claims[j]
    BY <1>1, UpdateOne
<1>6. ASSUME NEW j \in Ids
      PROVE  IsVerified(j)' <=> IsVerified(j)
    <2>1. CASE j = i
        BY <1>4, <2>1 DEF IsVerified
    <2>2. CASE j # i
        BY <1>5, <2>2 DEF IsVerified
    <2>3. QED
        BY <2>1, <2>2
<1>7. QED
    BY <1>6, SameVerified

\* Every step keeps the list equal to the domains of the verified claims.
LEMMA CacheStep ==
    ASSUME ConstantsOK, IInv, Next, ~stale'
    PROVE  authority' = Verified'
<1> USE DEF IInv
<1>k. Kept
    BY ClaimsStep
<1>s. authority = Verified
    BY DEF CacheMatchesClaims, Next, Handler, Sweep, Abandon, AddCheck, AddCommit, VerifyLoad, RotateCommit,
        VerifyFails, VerifySucceeds, GrantCommit, DeleteLoad, DeleteCommit, TokenExpires, SweepLoad,
        SweepRead, SweepCommit, Notice
<1>1. CASE UNCHANGED <<claims, authority>>
    BY <1>1, <1>s DEF Verified, IsVerified
<1>2. ASSUME NEW a \in Actors, NEW i \in Ids, AddCommit(a, i)
      PROVE  authority' = Verified'
    <2>1. authority' = authority
        BY <1>2 DEF AddCommit
    <2> DEFINE c == [status |-> "pending", domain |-> actor[a].domain,
                     failures |-> 0, expired |-> FALSE]
    <2>0. claims' = claims \/ claims' = [claims EXCEPT ![i] = c]
        BY <1>2 DEF AddCommit
    <2>a. c.status = "pending"
        OBVIOUS
    <2> HIDE DEF c
    <2>2. CASE claims' = claims
        BY <1>1, <2>1, <2>2
    <2>3. ASSUME claims' = [claims EXCEPT ![i] = c]
          PROVE  (\A j \in Ids \ {i} : claims'[j] = claims[j]) /\ claims'[i].status = "pending"
        <3>1. claims \in [Ids -> Claim \cup {Unused, Removed}]
            BY DEF TypeOK
        <3>2. (\A j \in Ids \ {i} : claims'[j] = claims[j]) /\ claims'[i] = c
            BY <2>3, <3>1
        <3>3. QED
            BY <2>a, <3>2
    <2>4. ASSUME claims' = [claims EXCEPT ![i] = c]
          PROVE  \A j \in Ids : IsVerified(j)' <=> IsVerified(j)
        <3>1. claims[i].status # "verified"
            BY <1>2 DEF AddCommit, Unused
        <3>2. QED
            BY <2>3, <2>4, <3>1 DEF IsVerified
    <2>5. QED
        BY <1>k, <1>s, <2>0, <2>1, <2>2, <2>4, SameVerified
<1>3. ASSUME NEW a \in Actors, RotateCommit(a) \/ \E r \in Results : VerifyFails(a, r)
      PROVE  authority' = Verified'
    <2>1. actor[a].pc \in {"rotating", "checking"}
        BY <1>3 DEF RotateCommit, VerifyFails, In
    <2>2. claims[actor[a].id].status = actor[a].claim.status /\ authority' = authority
        BY <1>3 DEF RotateCommit, VerifyFails, Notice
    <2>3. actor[a].claim \in Claim
        BY <2>1, HandlerType DEF InProgress
    <2>4. \A old \in Claim : /\ [old EXCEPT !.status = "pending", !.expired = FALSE].status = "pending"
                             /\ [old EXCEPT !.status = "failed", !.failures = @ + 1].status = "failed"
        BY DEF Claim
    <2>5. PICK new \in Claim : new.status # "verified" /\ Update(actor[a].id, actor[a].claim, new)
        <3>1. CASE RotateCommit(a)
            BY <2>3, <2>4, <3>1, WrittenClaim DEF RotateCommit
        <3>2. CASE \E r \in Results : VerifyFails(a, r)
            BY <2>3, <2>4, <3>2, WrittenClaim DEF VerifyFails
        <3>3. QED
            BY <1>3, <3>1, <3>2
    <2>6. QED
        BY <1>k, <1>s, <2>1, <2>2, <2>5, UnverifiedWrite
<1>4. ASSUME NEW a \in Actors, GrantCommit(a)
      PROVE  authority' = Verified'
    <2> DEFINE i == actor[a].id  old == actor[a].claim
    <2>1. i \in Ids /\ old \in Claim /\ ReadFrom(i, old)
        BY <1>4, HandlerType DEF GrantCommit, In, InProgress, SnapshotsOK, HoldsOK
    <2>2. claims[i].status = old.status /\ actor[a].list = authority
        BY <1>4 DEF GrantCommit, Notice
    <2>3. Exists(i) /\ claims[i].domain = old.domain
        BY <2>1, <2>2 DEF Exists, Claim, ReadFrom
    <2> DEFINE new == [old EXCEPT !.status = "verified", !.failures = 0]
    <2>4. new \in Claim /\ new.status = "verified" /\ Update(i, old, new)
        BY <1>4, <2>1, WrittenClaim DEF GrantCommit, Claim
    <2> HIDE DEF new
    <2>5. claims'[i].status = "verified"
        BY <2>1, <2>2, <2>3, <2>4, UpdateOne DEF Column
    <2>6. claims'[i].domain = old.domain
        BY <2>1, <2>3, <2>4, UpdateOne
    <2>7. \A j \in Ids \ {i} : claims'[j] = claims[j]
        BY <2>1, <2>4, UpdateOne
    <2>8. authority' = authority \cup {old.domain}
        BY <1>4, <2>2, <2>3 DEF GrantCommit
    <2>9. Verified' = Verified \cup {old.domain}
        BY <2>1, <2>3, <2>5, <2>6, <2>7 DEF Verified, IsVerified
    <2>10. QED
        BY <1>s, <2>8, <2>9
<1>5. ASSUME NEW a \in Actors, DeleteCommit(a)
      PROVE  authority' = Verified'
    <2> DEFINE i == actor[a].id  old == actor[a].claim
    <2>1. i \in Ids /\ old \in Claim /\ ReadFrom(i, old)
        BY <1>5, HandlerType DEF DeleteCommit, In, InProgress, SnapshotsOK, HoldsOK
    <2>2. claims[i].status = old.status /\ actor[a].list = authority
        BY <1>5 DEF DeleteCommit, Notice
    <2>3. Exists(i) /\ claims[i].domain = old.domain
        BY <2>1, <2>2 DEF Exists, Claim, ReadFrom
    <2>4. authority' = authority \ {old.domain}
        BY <1>5, <2>2 DEF DeleteCommit, Without
    <2>5. claims'[i].status = "removed" /\ \A j \in Ids \ {i} : claims'[j] = claims[j]
        BY <1>5, <2>1 DEF DeleteCommit, TypeOK, Removed
    <2>6. \A j \in Ids : IsVerified(j) /\ claims[j].domain = old.domain => j = i
        BY <2>1, <2>3 DEF OneClaimPerDomain, IsVerified, Held, Exists
    <2>7. Verified' = Verified \ {old.domain}
        <3>1. \A j \in Ids : IsVerified(j)' <=> IsVerified(j) /\ j # i
            BY <2>5 DEF IsVerified
        <3>2. \A j \in Ids : IsVerified(j)' => claims'[j].domain = claims[j].domain
            BY <2>5, <3>1
        <3>3. \A j \in Ids : IsVerified(j) /\ j # i <=> IsVerified(j) /\ claims[j].domain # old.domain
            BY <2>3, <2>6
        <3>4. QED
            BY <3>1, <3>2, <3>3 DEF Verified
    <2>8. QED
        BY <1>s, <2>4, <2>7
<1>6. ASSUME NEW i \in Ids, TokenExpires(i)
      PROVE  authority' = Verified'
    <2>1. authority' = authority
        BY <1>6 DEF TokenExpires
    <2>2. claims[i] \in Claim /\ claims' = [claims EXCEPT ![i] = [claims[i] EXCEPT !.expired = TRUE]]
        BY <1>6, HeldClaim DEF TokenExpires
    <2>3. \A c \in Claim : [c EXCEPT !.expired = TRUE].status = c.status
        BY DEF Claim
    <2>4. \A j \in Ids : claims'[j].status = claims[j].status
        BY <2>2, <2>3 DEF TypeOK
    <2>5. \A j \in Ids : IsVerified(j)' <=> IsVerified(j)
        BY <2>4 DEF IsVerified
    <2>6. QED
        BY <1>k, <1>s, <2>1, <2>5, SameVerified
<1>7. ASSUME NEW a \in Actors, SweepCommit(a)
      PROVE  authority' = Verified'
    <2> DEFINE rows == actor[a].rows
               revoked == {j \in DOMAIN rows : Revokes(rows[j][1], rows[j][2])}
               lost == {rows[j][1].domain : j \in revoked}
    <2>1. CASE ~(DOMAIN rows \subseteq Held)
        BY <1>1, <1>7, <2>1 DEF SweepCommit
    <2>2. CASE DOMAIN rows \subseteq Held
        <3>1. actor[a].list = authority /\ \A j \in DOMAIN rows : claims[j].status = rows[j][1].status
            BY <1>7 DEF SweepCommit, Notice
        <3>2. authority' = Without(authority, lost)
            BY <1>7, <2>2, <3>1 DEF SweepCommit
        <3> HIDE DEF lost
        <3>3. authority' = authority \ lost
            BY <3>2 DEF Without
        <3>4. \A j \in revoked : j \in Ids /\ Exists(j) /\ claims[j].domain = rows[j][1].domain
            <4>1. HoldsOK(actor[a]) /\ actor[a].pc = "applying"
                BY <1>7 DEF SnapshotsOK, SweepCommit, In
            <4>2. \A j \in DOMAIN rows : ReadFrom(j, rows[j][1])
                BY <4>1 DEF HoldsOK
            <4>3. QED
                BY <2>2, <4>2 DEF ReadFrom, Held
        <3>5. \A j \in Ids : claims'[j].status = IF j \in revoked THEN "failed" ELSE claims[j].status
            <4>1. \A j \in Ids :
                    claims'[j].status =
                      IF j \in DOMAIN rows /\ Revokes(rows[j][1], rows[j][2])
                      THEN Column(claims[j].status, rows[j][1].status, "failed")
                      ELSE claims[j].status
                BY <1>7, <2>2, SweepUpdates
            <4>2. QED
                BY <3>1, <4>1 DEF Column
        <3> HIDE DEF revoked
        <3>6. \A j \in Ids : IsVerified(j)' <=> IsVerified(j) /\ j \notin revoked
            BY <3>5 DEF IsVerified
        <3>7. \A j \in Ids : IsVerified(j) => Exists(j) /\ (IsVerified(j)' => Exists(j)')
            BY DEF IsVerified, Exists
        <3>8. \A j \in Ids : IsVerified(j)' => claims'[j].domain = claims[j].domain
            BY <1>k, <3>6, <3>7 DEF Kept
        <3>9. \A j \in Ids : IsVerified(j) => (j \in revoked <=> claims[j].domain \in lost)
            BY <3>4, <3>7 DEF lost, OneClaimPerDomain, Held
        <3>10. Verified' = Verified \ lost
            BY <3>6, <3>8, <3>9 DEF Verified
        <3>11. QED
            BY <1>s, <3>3, <3>10
    <2>3. QED
        BY <2>1, <2>2
<1>8. QED
    BY <1>1, <1>2, <1>3, <1>4, <1>5, <1>6, <1>7 DEF Next, Handler, Sweep, Abandon, AddCheck, VerifyLoad,
        VerifySucceeds, DeleteLoad, SweepLoad, SweepRead

\* Every step keeps the invariant.
LEMMA StepOK ==
    ASSUME ConstantsOK, IInv, [Next]_vars
    PROVE  IInv'
<1>1. CASE Next
    <2>1. Kept
        BY <1>1, ClaimsStep
    <2>2. actor' \in [Actors -> Actor] /\ SnapshotsOK'
        <3>1. ASSUME NEW a \in Actors, Handler(a) \/ Sweep(a) \/ Abandon(a)
              PROVE  actor' \in [Actors -> Actor] /\ SnapshotsOK'
            BY <2>1, <3>1, ActorsStep
        <3>2. ASSUME NEW i \in Ids, TokenExpires(i)
              PROVE  actor' \in [Actors -> Actor] /\ SnapshotsOK'
            <4>1. actor' = actor
                BY <3>2 DEF TokenExpires
            <4>2. actor' \in [Actors -> Actor]
                BY <4>1 DEF IInv, TypeOK
            <4>3. ASSUME NEW a \in Actors
                  PROVE  HoldsOK(actor[a])'
                BY <2>1, <4>1, <4>2, HoldsOn DEF IInv, TypeOK, SnapshotsOK
            <4>4. QED
                BY <4>2, <4>3 DEF SnapshotsOK
        <3>3. QED
            BY <1>1, <3>1, <3>2 DEF Next
    <2>3. TypeOK'
        BY <1>1, <2>2, ClaimsStep, ListStep DEF TypeOK
    <2>4. OneClaimPerDomain'
        BY <1>1, OneClaimStep
    <2>5. CacheMatchesClaims'
        BY <1>1, CacheStep DEF CacheMatchesClaims
    <2>6. QED
        BY <2>2, <2>3, <2>4, <2>5 DEF IInv
<1>2. CASE UNCHANGED vars
    BY <1>2 DEF vars, IInv, TypeOK, OneClaimPerDomain, SnapshotsOK, HoldsOK, ReadFrom, CacheMatchesClaims,
        Verified, IsVerified, Held, Exists, In
<1>3. QED
    BY <1>1, <1>2

\* In every reachable state the rows, the list and what the actors hold have the
\* types of the columns and local variables.
THEOREM TypeCorrect == Spec => []TypeOK
<1>1. Init => IInv
    BY ConstantsOK, InitOK
<1>2. IInv /\ [Next]_vars => IInv'
    BY ConstantsOK, StepOK
<1>3. IInv => TypeOK
    BY DEF IInv
<1>4. QED
    BY <1>1, <1>2, <1>3, PTL DEF Spec

\* However many handlers add it, an organisation holds a domain once, so that
\* withdrawing one claim never withdraws what another claim proved.
THEOREM DomainsClaimedOnce == Spec => []OneClaimPerDomain
<1>1. Init => IInv
    BY ConstantsOK, InitOK
<1>2. IInv /\ [Next]_vars => IInv'
    BY ConstantsOK, StepOK
<1>3. IInv => OneClaimPerDomain
    BY DEF IInv
<1>4. QED
    BY <1>1, <1>2, <1>3, PTL DEF Spec

\* As long as no commit was made on rows that had changed since they were read,
\* the list the scope checks read is the domains of the verified claims.
THEOREM ListMatchesClaims == Spec => []CacheMatchesClaims
<1>1. Init => IInv
    BY ConstantsOK, InitOK
<1>2. IInv /\ [Next]_vars => IInv'
    BY ConstantsOK, StepOK
<1>3. IInv => CacheMatchesClaims
    BY DEF IInv
<1>4. QED
    BY <1>1, <1>2, <1>3, PTL DEF Spec
-----------------------------------------------------------------------------
(* The cap.  Of the handlers that add a claim, at most all of them passed the *)
(* check while a place was free; each INSERT is paid for by one of them.     *)

Adding == {a \in Actors : In(a, "adding")}

\* Who is about to insert after a step, and which claims there are.
LEMMA AddingStep ==
    ASSUME ConstantsOK, IInv, Next, \A a \in Actors, d \in Domains : ~AddCheck(a, d)
    PROVE  Adding' \subseteq Adding
<1>1. CASE actor' = actor
    BY <1>1 DEF Adding, In
<1>2. ASSUME NEW a \in Actors, NEW next, Goto(a, next), next.pc # "adding"
      PROVE  Adding' \subseteq Adding
    BY <1>2 DEF Adding, In, Goto, IInv, TypeOK
<1>3. ASSUME NEW a \in Actors, Handler(a) \/ Sweep(a) \/ Abandon(a)
      PROVE  Adding' \subseteq Adding
    BY <1>2, <1>3 DEF Handler, Sweep, Abandon, AddCommit, VerifyLoad, RotateCommit, VerifyFails,
        VerifySucceeds, GrantCommit, DeleteLoad, DeleteCommit, SweepLoad, SweepRead, SweepCommit, Idle
<1>4. QED
    BY <1>1, <1>3 DEF Next, TokenExpires

LEMMA HeldStep ==
    ASSUME ConstantsOK, IInv, Next, \A a \in Actors, i \in Ids : ~AddCommit(a, i)
    PROVE  Held' \subseteq Held
<1>1. Kept
    BY ClaimsStep
<1>2. ASSUME claims' = claims PROVE Held' \subseteq Held
    BY <1>2 DEF Held, Exists
<1>3. ASSUME NEW i \in Ids, NEW c, claims' = [claims EXCEPT ![i] = c],
             c.status \notin {"pending", "verified", "failed"} \/ Exists(i)
      PROVE  Held' \subseteq Held
    BY <1>3 DEF Held, Exists, IInv, TypeOK
<1>4. ASSUME NEW a \in Actors, DeleteCommit(a) PROVE Held' \subseteq Held
    BY <1>4 DEF DeleteCommit, Held, Exists, Removed, IInv, TypeOK
<1>5. ASSUME NEW i \in Ids, TokenExpires(i) PROVE Held' \subseteq Held
    BY <1>5 DEF TokenExpires, Held, Exists, IInv, TypeOK
<1>6. ASSUME NEW a \in Actors, NEW i \in Ids, NEW old, NEW new, Update(i, old, new)
      PROVE  Held' \subseteq Held
    BY <1>6 DEF Update, Held, Exists, IInv, TypeOK
<1>7. ASSUME NEW a \in Actors, SweepCommit(a) PROVE Held' \subseteq Held
    BY <1>7, SweepUpdates DEF Held
<1>8. ASSUME NEW a \in Actors, RotateCommit(a) \/ GrantCommit(a) \/ \E r \in Results : VerifyFails(a, r)
      PROVE  Held' \subseteq Held
    <2>1. actor[a].id \in Ids
        BY <1>8, HandlerType DEF RotateCommit, GrantCommit, VerifyFails, In, InProgress, IInv
    <2>2. PICK old, new : Update(actor[a].id, old, new)
        BY <1>8 DEF RotateCommit, GrantCommit, VerifyFails
    <2>3. QED
        BY <1>6, <2>1, <2>2
<1>9. QED
    BY <1>2, <1>4, <1>5, <1>7, <1>8 DEF Next, Handler, Sweep, Abandon, AddCheck, VerifyLoad,
        VerifySucceeds, DeleteLoad, SweepLoad, SweepRead

LEMMA CapStep ==
    ASSUME ConstantsOK, IInv, ClaimsOvershootBounded, Next
    PROVE  ClaimsOvershootBounded'
<1> DEFINE Cap == MaxClaims - 1 + Cardinality(Actors)
<1>1. /\ Cardinality(Held) + Cardinality(Adding) <= Cap
      /\ Cardinality(Held') + Cardinality(Adding') <= Cap => ClaimsOvershootBounded'
    BY DEF ClaimsOvershootBounded, Adding
<1>2. IsFiniteSet(Held) /\ IsFiniteSet(Adding) /\ IsFiniteSet(Held') /\ IsFiniteSet(Adding')
    BY FS_Subset DEF ConstantsOK, Held, Adding
<1>3. /\ Cardinality(Held) \in Nat /\ Cardinality(Adding) \in Nat
      /\ Cardinality(Held') \in Nat /\ Cardinality(Adding') \in Nat
      /\ Cardinality(Actors) \in Nat /\ MaxClaims \in Nat
    BY <1>2, FS_CardinalityType DEF ConstantsOK
<1>4. ASSUME NEW a \in Actors, NEW d \in Domains, AddCheck(a, d) PROVE ClaimsOvershootBounded'
    <2>1. Held' = Held /\ Cardinality(Held) < MaxClaims
        BY <1>4 DEF AddCheck, Held, Exists
    <2>2. Cardinality(Adding') <= Cardinality(Actors)
        BY FS_Subset DEF ConstantsOK, Adding
    <2>3. QED
        BY <1>1, <1>3, <2>1, <2>2
<1>5. ASSUME NEW a \in Actors, NEW i \in Ids, AddCommit(a, i) PROVE ClaimsOvershootBounded'
    <2>1. Held' \subseteq Held \cup {i}
        BY <1>5 DEF AddCommit, Held, Exists, IInv, TypeOK
    <2>2. a \in Adding /\ Adding' \subseteq Adding \ {a}
        BY <1>5 DEF AddCommit, Adding, In, Goto, Idle, IInv, TypeOK
    <2>3. Cardinality(Held') <= Cardinality(Held) + 1
        <3>1. /\ IsFiniteSet(Held \cup {i})
              /\ Cardinality(Held \cup {i}) \in {Cardinality(Held), Cardinality(Held) + 1}
            BY <1>2, FS_AddElement
        <3>2. Cardinality(Held') <= Cardinality(Held \cup {i})
            BY <2>1, <3>1, FS_Subset
        <3>3. QED
            BY <1>3, <3>1, <3>2
    <2>4. Cardinality(Adding') <= Cardinality(Adding) - 1
        <3>1. IsFiniteSet(Adding \ {a}) /\ Cardinality(Adding \ {a}) = Cardinality(Adding) - 1
            BY <1>2, <2>2, FS_RemoveElement
        <3>2. Cardinality(Adding') <= Cardinality(Adding \ {a})
            BY <2>2, <3>1, FS_Subset
        <3>3. QED
            BY <3>1, <3>2
    <2>5. QED
        BY <1>1, <1>3, <2>3, <2>4
<1>6. CASE /\ \A a \in Actors, d \in Domains : ~AddCheck(a, d)
           /\ \A a \in Actors, i \in Ids : ~AddCommit(a, i)
    <2>1. Held' \subseteq Held /\ Adding' \subseteq Adding
        BY <1>6, AddingStep, HeldStep
    <2>2. Cardinality(Held') <= Cardinality(Held) /\ Cardinality(Adding') <= Cardinality(Adding)
        BY <1>2, <2>1, FS_Subset
    <2>3. QED
        BY <1>1, <1>3, <2>2
<1>7. QED
    BY <1>4, <1>5, <1>6

\* The cap on claims is passed by no more than the handlers that were between
\* their count and their INSERT.
THEOREM ClaimLimitOvershootBounded == Spec => []ClaimsOvershootBounded
<1>1. ASSUME Init PROVE IInv /\ ClaimsOvershootBounded
    <2>1. Held = {} /\ Adding = {}
        BY <1>1 DEF Init, Held, Exists, Unused, Adding, In, Idle
    <2>2. Cardinality(Held) = 0 /\ Cardinality(Adding) = 0
        BY <2>1, FS_EmptySet
    <2>3. Cardinality(Actors) \in Nat /\ MaxClaims \in Nat \ {0}
        BY ConstantsOK, FS_CardinalityType DEF ConstantsOK
    <2>4. QED
        BY <1>1, <2>2, <2>3, ConstantsOK, InitOK DEF ClaimsOvershootBounded, Adding
<1>2. ASSUME IInv, ClaimsOvershootBounded, [Next]_vars PROVE IInv' /\ ClaimsOvershootBounded'
    <2>1. CASE Next
        BY <1>2, <2>1, ConstantsOK, StepOK, CapStep
    <2>2. CASE UNCHANGED vars
        BY <1>2, <2>2, ConstantsOK, StepOK DEF vars, ClaimsOvershootBounded, Held, Exists, In
    <2>3. QED
        BY <1>2, <2>1, <2>2
<1>3. QED
    BY <1>1, <1>2, PTL DEF Spec
=============================================================================
