----------------------------- MODULE Correlation -----------------------------
(***************************************************************************)
(* From a vulnerable product to the message in Slack: the correlator of    *)
(* overlapping scans (workers/cve_correlator.py), which asks NVD or its    *)
(* cache, upserts the findings and collects the ones it inserted, and the  *)
(* notifier that announces those (workers/notifier.py).                    *)
(*                                                                         *)
(* The estate runs one product, and NVD knows one critical CVE of it, so a *)
(* finding is its asset's.  Every finding gets an id when it is inserted.  *)
(***************************************************************************)
EXTENDS Naturals, FiniteSets

CONSTANTS
    Assets,       \* assets that run the product when the scans start
    Runs,         \* executions of the correlator, each of another scan
    MaxBirths,    \* bound on the findings inserted
    MaxAttempts,  \* 1 + max_retries of notify_critical
    MaxSetbacks   \* bound on exceptions, lost workers and broker errors

ASSUME CorrelationConstants ==
    /\ IsFiniteSet(Assets) /\ IsFiniteSet(Runs)
    /\ MaxBirths \in Nat /\ MaxAttempts \in Nat \ {0} /\ MaxSetbacks \in Nat

VARIABLES
    cache,     \* the cached answer for the product
    present,   \* assets that have not been deleted
    found,     \* the finding of each asset; 0 is none
    births,    \* findings inserted so far
    crun,      \* the correlator of each scan
    notices,   \* messages for the notifier
    posted,    \* how often each finding was posted in Slack
    repeated,  \* history: how often a delivery of it was repeated
    unsaid,    \* history: findings whose announcement was given up, and where
    setbacks   \* setbacks so far

correlationVars == <<cache, present, found, births, crun, notices, posted, repeated,
                     unsaid, setbacks>>
-----------------------------------------------------------------------------
FindingIds == 1 .. MaxBirths
Answer == {"known", "empty"}

\* "looking" has loaded the assets; `knows' is the answer it got, `todo' the
\* assets it has not come to, `fresh' the findings it inserted itself.
RunPC == {"queued", "looking", "attaching", "enriching", "alerting", "done", "failed"}
RunRecord == [pc: RunPC, knows: BOOLEAN, todo: SUBSET Assets, fresh: SUBSET FindingIds]
Unstarted == [pc |-> "queued", knows |-> FALSE, todo |-> {}, fresh |-> {}]
RunAt(r, pc) == crun[r].pc = pc
RunMoves(r, next) == crun' = [crun EXCEPT ![r] = next]

Notice == [ids: SUBSET FindingIds, attempt: 1 .. MaxAttempts]

\* Where an announcement can end without a post.
Reason == {"worker lost", "task failed", "not queued", "muted", "given up"}
GivenUp(ids, why) == unsaid' = unsaid \cup {<<id, why>> : id \in ids}

Setback   == setbacks < MaxSetbacks /\ setbacks' = setbacks + 1
NoSetback == UNCHANGED setbacks

More(counts, ids) == [id \in FindingIds |-> IF id \in ids THEN counts[id] + 1 ELSE counts[id]]

CorrelationTypeOK ==
    /\ cache \in Answer \cup {"none"}
    /\ present \subseteq Assets
    /\ found \in [Assets -> 0 .. MaxBirths]
    /\ births \in 0 .. MaxBirths
    /\ crun \in [Runs -> RunRecord]
    /\ notices \subseteq Notice
    /\ posted \in [FindingIds -> Nat] /\ repeated \in [FindingIds -> Nat]
    /\ unsaid \subseteq FindingIds \X Reason
    /\ setbacks \in Nat

CorrelationInit ==
    /\ cache = "none"
    /\ present = Assets
    /\ found = [a \in Assets |-> 0]
    /\ births = 0
    /\ crun = [r \in Runs |-> Unstarted]
    /\ notices = {}
    /\ posted = [id \in FindingIds |-> 0] /\ repeated = [id \in FindingIds |-> 0]
    /\ unsaid = {}
    /\ setbacks = 0
-----------------------------------------------------------------------------
(* The correlator.                                                          *)

LoadAssets(r) ==
    /\ RunAt(r, "queued")
    /\ RunMoves(r, [Unstarted EXCEPT !.pc = "looking", !.todo = present])
    /\ UNCHANGED <<cache, present, found, births, notices, posted, repeated, unsaid, setbacks>>

Looked(r, knows) == RunMoves(r, [crun[r] EXCEPT !.pc = "attaching", !.knows = knows])

FromCache(r) ==
    /\ RunAt(r, "looking") /\ cache # "none"
    /\ Looked(r, cache = "known")
    /\ UNCHANGED <<cache, present, found, births, notices, posted, repeated, unsaid, setbacks>>

\* Also when Redis fails.  An error of NVD is an empty answer, and is cached.
AskNvd(r) ==
    /\ RunAt(r, "looking")
    /\ \E answer \in Answer : Looked(r, answer = "known") /\ cache' \in {cache, answer}
    /\ UNCHANGED <<present, found, births, notices, posted, repeated, unsaid, setbacks>>

CacheExpires ==
    /\ cache # "none"
    /\ cache' = "none"
    /\ UNCHANGED <<present, found, births, crun, notices, posted, repeated, unsaid, setbacks>>

\* A cancelled scan asks nobody and attaches nothing.
CancelSeen(r) ==
    /\ RunAt(r, "looking")
    /\ Looked(r, FALSE)
    /\ UNCHANGED <<cache, present, found, births, notices, posted, repeated, unsaid, setbacks>>

\* The transaction of one asset; `fresh' are the findings it takes for its own.
Upserts(r, a, id, fresh) ==
    /\ found' = [found EXCEPT ![a] = id]
    /\ births' = IF id > births THEN id ELSE births
    /\ RunMoves(r, [crun[r] EXCEPT !.todo = @ \ {a}, !.fresh = @ \cup fresh])

\* Mistake: what is new is decided by whether an earlier scan had announced it,
\* and not by who inserted the row.
AttachUnannounced(r, a) ==
    LET id == IF found[a] = 0 THEN births + 1 ELSE found[a] IN
    /\ RunAt(r, "attaching") /\ a \in crun[r].todo
    /\ crun[r].knows /\ a \in present /\ id \in FindingIds
    /\ Upserts(r, a, id, IF posted[id] = 0 THEN {id} ELSE {})
    /\ UNCHANGED <<cache, present, notices, posted, repeated, unsaid, setbacks>>

\* INSERT ... ON CONFLICT: of those that insert at the same time one creates the
\* row, and only to that one is first_seen its own time.
Attach(r, a) ==
    LET id == IF found[a] = 0 THEN births + 1 ELSE found[a] IN
    /\ RunAt(r, "attaching") /\ a \in crun[r].todo
    /\ crun[r].knows /\ a \in present /\ id \in FindingIds
    /\ Upserts(r, a, id, IF found[a] = 0 THEN {id} ELSE {})
    /\ UNCHANGED <<cache, present, notices, posted, repeated, unsaid, setbacks>>

\* An exception fails the stage, and the chain, with what was collected: the
\* asset is gone and its INSERT breaks the foreign key, or the time is up.
Raises(r) ==
    /\ RunMoves(r, [Unstarted EXCEPT !.pc = "failed"])
    /\ GivenUp(crun[r].fresh, "task failed")
    /\ UNCHANGED <<cache, present, found, births, notices, posted, repeated>>

AttachRaises(r, a) ==
    /\ RunAt(r, "attaching") /\ a \in crun[r].todo
    /\ crun[r].knows /\ a \notin present
    /\ Raises(r) /\ NoSetback

StageRaises(r) == crun[r].pc \in {"looking", "attaching"} /\ Setback /\ Raises(r)

Attached(r) ==
    /\ RunAt(r, "attaching")
    /\ crun[r].knows => crun[r].todo = {}
    /\ RunMoves(r, [crun[r] EXCEPT !.pc = "enriching", !.todo = {}])
    /\ UNCHANGED <<cache, present, found, births, notices, posted, repeated, unsaid, setbacks>>

\* Mistake: one try block is put around both messages.
EnrichOneTry(r) ==
    /\ RunAt(r, "enriching")
    /\ \/ RunMoves(r, [crun[r] EXCEPT !.pc = "alerting"]) /\ NoSetback
       \/ RunMoves(r, [Unstarted EXCEPT !.pc = "done"]) /\ Setback
    /\ UNCHANGED <<cache, present, found, births, notices, posted, repeated, unsaid>>

\* Queue the enrichment, or warn that it could not be queued, and go on.
Enrich(r) ==
    /\ RunAt(r, "enriching")
    /\ RunMoves(r, [crun[r] EXCEPT !.pc = "alerting"])
    /\ NoSetback \/ Setback
    /\ UNCHANGED <<cache, present, found, births, notices, posted, repeated, unsaid>>

AlertSent(r) ==
    LET ids == crun[r].fresh IN
    /\ RunAt(r, "alerting")
    /\ notices' = IF ids = {} THEN notices ELSE notices \cup {[ids |-> ids, attempt |-> 1]}
    /\ RunMoves(r, [Unstarted EXCEPT !.pc = "done"])
    /\ UNCHANGED <<cache, present, found, births, posted, repeated, unsaid, setbacks>>

\* The broker refuses the message, or takes it and the connection breaks.
AlertRaises(r) ==
    LET ids == crun[r].fresh IN
    /\ RunAt(r, "alerting") /\ ids # {} /\ Setback
    /\ UNCHANGED notices \/ notices' = notices \cup {[ids |-> ids, attempt |-> 1]}
    /\ GivenUp(ids, "not queued")
    /\ RunMoves(r, [Unstarted EXCEPT !.pc = "done"])
    /\ UNCHANGED <<cache, present, found, births, posted, repeated>>

\* The task is executed again.  What it had inserted is no longer new to it.
RunnerLost(r) ==
    /\ crun[r].pc \notin {"queued", "failed"} /\ Setback
    /\ GivenUp(crun[r].fresh, "worker lost")
    /\ RunMoves(r, Unstarted)
    /\ UNCHANGED <<cache, present, found, births, notices, posted, repeated>>
-----------------------------------------------------------------------------
(* notify_critical.                                                         *)

\* Notifications are switched off, or the organisation has no webhook now.
NotifyMuted(n) ==
    /\ notices' = notices \ {n}
    /\ GivenUp(n.ids, "muted")
    /\ UNCHANGED <<cache, present, found, births, crun, posted, repeated, setbacks>>

\* Posted.  A worker lost before it acknowledges the message posts once more.
NotifyPosts(n) ==
    /\ posted' = More(posted, n.ids)
    /\ \/ notices' = notices \ {n} /\ NoSetback /\ UNCHANGED repeated
       \/ UNCHANGED notices /\ Setback /\ repeated' = More(repeated, n.ids)
    /\ UNCHANGED <<cache, present, found, births, crun, unsaid>>

\* Mistake: max_retries is None, and an attempt never the last one.
RetryForEver(n) ==
    /\ notices' = (notices \ {n}) \cup {[n EXCEPT !.attempt = @ + 1]}
    /\ UNCHANGED unsaid

\* Try again, as a new message, until the attempts are used up.
Retry(n) ==
    /\ notices' = (notices \ {n}) \cup
           (IF n.attempt < MaxAttempts THEN {[n EXCEPT !.attempt = @ + 1]} ELSE {})
    /\ IF n.attempt < MaxAttempts THEN UNCHANGED unsaid ELSE GivenUp(n.ids, "given up")

NotifyFails(n) ==
    /\ Retry(n)
    /\ UNCHANGED <<cache, present, found, births, crun, posted, repeated, setbacks>>

\* Slack posts, and its answer is lost.
NotifyTimesOut(n) ==
    /\ Setback
    /\ posted' = More(posted, n.ids) /\ repeated' = More(repeated, n.ids)
    /\ Retry(n)
    /\ UNCHANGED <<cache, present, found, births, crun>>
-----------------------------------------------------------------------------
(* Deletions, which cascade from the asset to its findings.                 *)

DeleteVulnerability(a) ==
    /\ found[a] # 0
    /\ found' = [found EXCEPT ![a] = 0]
    /\ UNCHANGED <<cache, present, births, crun, notices, posted, repeated, unsaid, setbacks>>

DeleteHost(a) ==
    /\ a \in present
    /\ present' = present \ {a}
    /\ found' = [found EXCEPT ![a] = 0]
    /\ UNCHANGED <<cache, births, crun, notices, posted, repeated, unsaid, setbacks>>
-----------------------------------------------------------------------------
Correlates(r) ==
    \/ LoadAssets(r) \/ FromCache(r) \/ AskNvd(r) \/ CancelSeen(r)
    \/ \E a \in Assets : Attach(r, a) \/ AttachRaises(r, a)
    \/ Attached(r) \/ Enrich(r) \/ AlertSent(r)

CorrelationNext ==
    \/ \E r \in Runs : Correlates(r) \/ StageRaises(r) \/ AlertRaises(r) \/ RunnerLost(r)
    \/ \E n \in notices : NotifyMuted(n) \/ NotifyPosts(n) \/ NotifyFails(n) \/ NotifyTimesOut(n)
    \/ \E a \in Assets : DeleteVulnerability(a) \/ DeleteHost(a)
    \/ CacheExpires

CorrelationSpec == CorrelationInit /\ [][CorrelationNext]_correlationVars
-----------------------------------------------------------------------------
(* Properties.                                                              *)

\* The on-call is not paged twice for one finding: among overlapping scans, scans
\* executed again and retries, only repeated deliveries of one message and posts
\* whose answer was lost say it more than once.
AnnouncedOnce == \A id \in FindingIds : posted[id] <= 1 + repeated[id]

\* And no critical finding is passed over: once inserted it is posted, or in the
\* hands of the scan that inserted it or of the notifier, or its announcement
\* ended in one of the places listed in Reason.
NoBirthUnannounced ==
    \A id \in 1 .. births :
        \/ posted[id] > 0
        \/ \E r \in Runs : id \in crun[r].fresh
        \/ \E n \in notices : id \in n.ids
        \/ \E why \in Reason : <<id, why>> \in unsaid
=============================================================================
