------------------------------- MODULE Triage -------------------------------
(***************************************************************************)
(* One vulnerability of one asset, as analysts and the enrichment see it:  *)
(* the row a scan or an analyst inserts, the triage form and its PATCH     *)
(* (routes/findings.py), and the task that replaces the remediation text   *)
(* by generated advice (workers/ai_remediation.py,                         *)
(* services/ai_remediation.py).                                            *)
(*                                                                         *)
(* A scan that finds the row again touches only last_seen, the scan, the   *)
(* score and the severity, none of which is modelled here.  Statuses are   *)
(* open or closed, which is what resolved_at depends on; a text is the     *)
(* correlator's, the model's or an analyst's.                              *)
(***************************************************************************)
EXTENDS Naturals, FiniteSets

CONSTANTS
    Analysts,     \* users that may have a PATCH in progress at the same time
    MaxFindings,  \* bound on the rows the vulnerability gets, one after the other
    MaxLosses     \* bound on lost workers

ASSUME TriageConstants ==
    /\ IsFiniteSet(Analysts) /\ MaxFindings \in Nat /\ MaxLosses \in Nat

VARIABLES
    finding,   \* the row; id 0 is no row
    edit,      \* the PATCH of an analyst
    enrich,    \* the enrichment task of each row
    texts,     \* the texts this row has had, which browsers may still show
    nextId,    \* the id of the next row
    losses,    \* lost workers so far
    skewed,    \* history: a commit to this row carried an outdated text or evidence
    raced,     \* history: a commit to this row carried an outdated status
    outdated   \* history: a form of this row was saved that was older than its text

triageVars == <<finding, edit, enrich, texts, nextId, losses, skewed, raced, outdated>>
-----------------------------------------------------------------------------
Text   == {"template", "ai", "own"}
Credit == {"none", "claude", "analyst"}  \* evidence.remediation_source
FindingRow == [id: 0 .. MaxFindings, closed: BOOLEAN, resolved: BOOLEAN, text: Text, credit: Credit]
NoRow == [id |-> 0, closed |-> FALSE, resolved |-> FALSE, text |-> "template", credit |-> "none"]
Exists == finding.id # 0

\* What a PATCH asks for: a status; or notes, the text the form was opened with,
\* or a new text, which becomes the analyst's own.  One that asks for a status and
\* a text is the two at once: they are different columns.
Statuses == {"open", "closed"}
Request  == Statuses \cup Text \cup {"notes", "new"}
EditRecord == [pc: {"idle", "loaded"}, snap: FindingRow, asks: Request]
Idle == [pc |-> "idle", snap |-> NoRow, asks |-> "notes"]

EnrichRecord == [pc: {"none", "queued", "generating", "merging", "done"},
                 snap: FindingRow]
EnrichAt(id, pc) == enrich[id].pc = pc
EnrichMoves(id, pc) == enrich' = [enrich EXCEPT ![id].pc = pc]

\* One column of an UPDATE: written only if the session saw it change.
Merged(row, old, new) == IF new = old THEN row ELSE new

TriageTypeOK ==
    /\ finding \in FindingRow
    /\ edit \in [Analysts -> EditRecord]
    /\ enrich \in [1 .. MaxFindings -> EnrichRecord]
    /\ texts \subseteq Text
    /\ nextId \in 1 .. MaxFindings + 1
    /\ losses \in Nat
    /\ skewed \in BOOLEAN /\ raced \in BOOLEAN /\ outdated \in BOOLEAN

TriageInit ==
    /\ finding = NoRow
    /\ edit = [a \in Analysts |-> Idle]
    /\ enrich = [id \in 1 .. MaxFindings |-> [pc |-> "none", snap |-> NoRow]]
    /\ texts = {}
    /\ nextId = 1
    /\ losses = 0
    /\ skewed = FALSE /\ raced = FALSE /\ outdated = FALSE
-----------------------------------------------------------------------------
(* Rows come and go.                                                        *)

Inserted(text) ==
    /\ ~Exists /\ nextId <= MaxFindings
    /\ finding' = [NoRow EXCEPT !.id = nextId, !.text = text]
    /\ texts' = {text}
    /\ nextId' = nextId + 1
    /\ UNCHANGED <<edit, losses, skewed, raced, outdated>>

\* The correlator inserts the row and queues its enrichment.
InsertByScan == Inserted("template") /\ EnrichMoves(nextId, "queued")

\* create_finding: an analyst's own text, without provenance, never enriched.
\* A vulnerability that has a row violates the unique fingerprint.
CreateFinding == Inserted("own") /\ UNCHANGED enrich

DeleteFinding ==
    /\ Exists
    /\ finding' = NoRow
    /\ texts' = {} /\ skewed' = FALSE /\ raced' = FALSE /\ outdated' = FALSE
    /\ UNCHANGED <<edit, enrich, nextId, losses>>

(* The triage form, and update_finding.                                     *)

Requests == Statuses \cup texts \cup {"notes", "new"}

\* What the handler makes use of in the row it loaded.
Loaded(request) ==
    IF request \in Statuses THEN [NoRow EXCEPT !.id = finding.id, !.closed = finding.closed,
                                              !.resolved = finding.resolved]
    ELSE [NoRow EXCEPT !.id = finding.id, !.text = finding.text, !.credit = finding.credit]

UpdateLoad(a, request) ==
    /\ edit[a].pc = "idle" /\ Exists
    /\ edit' = [edit EXCEPT ![a] = [pc |-> "loaded", snap |-> Loaded(request), asks |-> request]]
    /\ outdated' = (outdated \/ (request \in Text /\ request # finding.text))
    /\ UNCHANGED <<finding, texts, enrich, nextId, losses, skewed, raced>>

\* Mistake: resolved_at is stamped, and never cleared.
TriagedStampOnly(old, st) ==
    [finding EXCEPT !.closed = Merged(@, old.closed, st = "closed"),
                    !.resolved = @ \/ st = "closed"]

\* resolved_at is a time: stamping it again is a change, clearing it twice is not.
Triaged(old, st) ==
    [finding EXCEPT !.closed = Merged(@, old.closed, st = "closed"),
                    !.resolved = IF st = "closed" THEN TRUE ELSE Merged(@, old.resolved, FALSE)]

\* The texts of analysts are one value, but a new one always differs.
Typed(request) == IF request = "new" THEN "own" ELSE request

\* Mistake: the text is replaced and the model's name is left on it.
RewrittenCreditKept(old, request) ==
    IF request = old.text THEN finding ELSE [finding EXCEPT !.text = Typed(request)]

\* A text that differs from the one loaded is the analyst's.
Rewritten(old, request) ==
    IF request = old.text THEN finding
    ELSE [finding EXCEPT !.text = Typed(request),
                         !.credit = Merged(@, old.credit, "analyst")]

\* The evidence is one column: notes write it with the credit as it was loaded.
Annotated(old) == [finding EXCEPT !.credit = old.credit]

Edited(old, request) ==
    CASE request \in Statuses -> Triaged(old, request)
      [] request \in Text \cup {"new"} -> Rewritten(old, request)
      [] request = "notes"    -> Annotated(old)

SkewsText(old)   == finding.text # old.text \/ finding.credit # old.credit
SkewsStatus(old) == finding.closed # old.closed \/ finding.resolved # old.resolved

\* The UPDATE of a row that is gone raises, and the request with it.
UpdateCommit(a) ==
    LET old == edit[a].snap  request == edit[a].asks IN
    /\ edit[a].pc = "loaded"
    /\ IF finding.id = old.id
       THEN /\ finding' = Edited(old, request)
            /\ texts' = texts \cup {finding'.text}
            /\ skewed' = (skewed \/ (request \notin Statuses /\ SkewsText(old)))
            /\ raced' = (raced \/ (request \in Statuses /\ SkewsStatus(old)))
       ELSE UNCHANGED <<finding, texts, skewed, raced>>
    /\ edit' = [edit EXCEPT ![a] = Idle]
    /\ UNCHANGED <<enrich, nextId, losses, outdated>>
-----------------------------------------------------------------------------
(* The enrichment task of a row.                                            *)

EnrichLoad(id) ==
    /\ EnrichAt(id, "queued")
    /\ EnrichMoves(id, IF finding.id = id THEN "generating" ELSE "done")
    /\ UNCHANGED <<finding, edit, texts, nextId, losses, skewed, raced, outdated>>

\* Advice from the cache or the API, and the row loaded again to be changed.
Generate(id) ==
    /\ EnrichAt(id, "generating")
    /\ enrich' = [enrich EXCEPT ![id] = IF finding.id = id THEN [pc |-> "merging", snap |-> Loaded("new")]
                                                          ELSE [@ EXCEPT !.pc = "done"]]
    /\ UNCHANGED <<finding, edit, texts, nextId, losses, skewed, raced, outdated>>

\* No advice, a cancelled scan, or a finding beyond the cap: the text stays.
FallBack(id) ==
    /\ EnrichAt(id, "generating")
    /\ EnrichMoves(id, "done")
    /\ UNCHANGED <<finding, edit, texts, nextId, losses, skewed, raced, outdated>>

EnrichCommit(id) ==
    LET old == enrich[id].snap IN
    /\ EnrichAt(id, "merging")
    /\ IF finding.id = id
       THEN /\ finding' = [finding EXCEPT
                  !.text = Merged(@, old.text, "ai"),
                  !.credit = Merged(@, old.credit, "claude")]
            /\ texts' = texts \cup {finding'.text}
            /\ skewed' = (skewed \/ SkewsText(old))
       ELSE UNCHANGED <<finding, texts, skewed>>
    /\ enrich' = [enrich EXCEPT ![id] = [pc |-> "done", snap |-> NoRow]]
    /\ UNCHANGED <<edit, nextId, losses, raced, outdated>>

\* The task is executed again, also if it was lost after its last write.
EnrichWorkerLost(id) ==
    /\ enrich[id].pc \notin {"none", "queued"} /\ losses < MaxLosses
    /\ losses' = losses + 1
    /\ enrich' = [enrich EXCEPT ![id] = [pc |-> "queued", snap |-> NoRow]]
    /\ UNCHANGED <<finding, edit, texts, nextId, skewed, raced, outdated>>
-----------------------------------------------------------------------------
TriageNext ==
    \/ InsertByScan \/ CreateFinding \/ DeleteFinding
    \/ \E a \in Analysts : UpdateCommit(a) \/ \E request \in Requests : UpdateLoad(a, request)
    \/ \E id \in 1 .. MaxFindings :
        EnrichLoad(id) \/ Generate(id) \/ FallBack(id) \/ EnrichCommit(id) \/ EnrichWorkerLost(id)

TriageSpec == TriageInit /\ [][TriageNext]_triageVars
-----------------------------------------------------------------------------
(* Properties.                                                              *)

\* A model's name never stands against a human's advice, and its advice carries
\* its name, whatever analysts and the enrichment do at the same time.  Not
\* covered: a commit whose text or evidence was loaded before another's commit,
\* and generated advice that an older form put back.
CreditMatchesText ==
    Exists => \/ finding.credit = "claude" <=> finding.text = "ai"
              \/ skewed
              \/ outdated /\ finding.text = "ai"

\* A finding has a resolution time exactly if it is closed, unless a request that
\* had loaded another status repeated a resolution.
ResolvedIffClosed == Exists => (finding.resolved <=> finding.closed) \/ raced

\* What the comment in update_finding and a test say: a form saved with the text
\* it was opened with is not recorded as a rewrite.
ResaveKeepsCredit ==
    [][\A a \in Analysts :
        edit[a].pc = "loaded" /\ edit'[a].pc = "idle" /\ edit[a].asks \in Text
        => finding'.credit = finding.credit]_triageVars
=============================================================================
