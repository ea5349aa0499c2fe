----------------------------- MODULE Scheduler -----------------------------
(***************************************************************************)
(* The recurring scans of one organisation: the beat-driven dispatcher of  *)
(* workers/scheduler.py, the handlers of routes/schedules.py, and the part *)
(* of the domain sweep that switches schedules off.                        *)
(*                                                                         *)
(* A dispatcher holds row locks on the schedules it selected until it      *)
(* commits; the UPDATE of another process waits for them.  What becomes of *)
(* a published scan is the business of ScanLifecycle.                      *)
(***************************************************************************)
EXTENDS Calendar, FiniteSets, Sequences, SequencesExt

CONSTANTS
    Schedules,    \* primary keys of scan_schedules, never used twice
    Domains,      \* domains of the organisation; a target lies under one of them
    Dispatchers,  \* ticks that may be in progress at one time
    Handlers,     \* HTTP handlers and sweeps that may be in progress at one time
    Cadences,     \* the cadences users choose
    Moments,      \* the instants at which anything happens
    MaxActive,    \* settings.max_concurrent_scans_per_org
    MaxPerTick,   \* _MAX_PER_TICK
    FailureLimit, \* settings.schedule_max_consecutive_failures
    MaxRequests,  \* bound: users and the sweep act this often
    MayHappen,    \* the kinds of faults a behaviour may contain
    MaxFaults     \* and how many of them

ASSUME ConstantsOK ==
    /\ IsFiniteSet(Schedules) /\ IsFiniteSet(Dispatchers) /\ IsFiniteSet(Handlers)
    /\ Cadences \subseteq Cadence
    /\ Moments \subseteq Nat /\ Moments # {} /\ IsFiniteSet(Moments)
    /\ MaxActive \in Nat \ {0} /\ MaxPerTick \in Nat \ {0} /\ FailureLimit \in Nat \ {0}
    /\ MaxRequests \in Nat /\ MaxFaults \in Nat
    /\ MayHappen \subseteq {"refused", "ambiguous", "crash"}

VARIABLES
    now,          \* the clock
    schedules,    \* the table scan_schedules
    authority,    \* organisations.verified_domains
    scans,        \* the table scans, in the order of insertion
    dispatcher,   \* dispatch_due_scans, in progress
    handler,      \* handlers and sweeps, in progress
    faults,       \* how many faults so far
    requests,     \* how many acts of users and the sweep so far
    stale         \* history: some UPDATE wrote from a row that had changed

vars == <<now, schedules, authority, scans, dispatcher, handler, faults, requests, stale>>
-----------------------------------------------------------------------------
(* Rows.  explained: disabled_reason is set.                                *)

Unborn == [state |-> "unborn"]
Gone   == [state |-> "gone"]
Row    == [state: {"present"}, target: Domains, cadence: Cadence, next: Nat,
           enabled: BOOLEAN, failures: Nat, explained: BOOLEAN]

Present(s) == schedules[s].state = "present"
Due(s) == Present(s) /\ schedules[s].enabled /\ schedules[s].next <= now

Disabled(row) == [row EXCEPT !.enabled = FALSE, !.explained = TRUE]

Column(current, old, new) == IF new # old THEN new ELSE current

Merge(current, old, new) ==
    [current EXCEPT !.cadence   = Column(@, old.cadence, new.cadence),
                    !.next      = Column(@, old.next, new.next),
                    !.enabled   = Column(@, old.enabled, new.enabled),
                    !.failures  = Column(@, old.failures, new.failures),
                    !.explained = Column(@, old.explained, new.explained)]

\* A scan is "queued" (or running) or "over" (failed, cancelled, completed).
\* of, window: the schedule and the next_run_at it was queued for.
\* lost: history, the process that was to publish the scan is gone.
Manual == -1
Scan == [of: Schedules, window: Nat \cup {Manual}, status: {"queued", "over"},
         published: BOOLEAN, lost: BOOLEAN]

NewScan(s, window) ==
    [of |-> s, window |-> window, status |-> "queued", published |-> FALSE, lost |-> FALSE]

ActiveCount == Cardinality({i \in DOMAIN scans : scans[i].status = "queued"})
-----------------------------------------------------------------------------
(* Processes.  A dispatcher is "locked" after its SELECT ... FOR UPDATE,     *)
(* "decided" after reading the organisation and the count, "publishing" in   *)
(* phase two, "answered" once the broker call returned, and "recording" with *)
(* a loaded schedule.                                                        *)

Idle == [pc |-> "idle"]
Batches == {b \in BoundedSeq(Schedules, Cardinality(Schedules)) : IsInjective(b)}
Pending == Seq([schedule: Schedules, scan: Nat])

Dispatcher ==
         {Idle}
    \cup [pc: {"locked"}, moment: Nat, batch: Batches]
    \cup [pc: {"decided"}, moment: Nat, batch: Batches, scope: SUBSET Domains, active: Nat]
    \cup [pc: {"publishing"}, pending: Pending]
    \cup [pc: {"answered"}, pending: Pending, accepted: BOOLEAN]
    \cup [pc: {"recording"}, pending: Pending, accepted: BOOLEAN, old: Row \cup {Gone}]

Handler ==
         {Idle}
    \cup [pc: {"creating"}, row: Row]
    \cup [pc: {"editing"}, schedule: Schedules, old: Row, new: Row, seen: Nat]
    \cup [pc: {"counted"}, schedule: Schedules]
    \cup [pc: {"inserted"}, schedule: Schedules, scan: Nat]
    \cup [pc: {"refused"}, scan: Nat]
    \cup [pc: {"revoking"}, domain: Domains, rows: [Schedules -> Row \cup {Unborn}]]

DAt(d, pc) == dispatcher[d].pc = pc
HAt(h, pc) == handler[h].pc = pc
DGoto(d, next) == dispatcher' = [dispatcher EXCEPT ![d] = next]
HGoto(h, next) == handler' = [handler EXCEPT ![h] = next]

\* The row lock on a schedule is held until the commit of phase one.
Locked(s) ==
    \E d \in Dispatchers :
       dispatcher[d].pc \in {"locked", "decided"} /\ s \in ToSet(dispatcher[d].batch)

Notice(condition) == stale' = (stale \/ condition)

Fault(kind) == kind \in MayHappen /\ faults < MaxFaults /\ faults' = faults + 1
NoFault == UNCHANGED faults
Requested == requests < MaxRequests /\ requests' = requests + 1

Created(target, c) ==
    [state |-> "present", target |-> target, cadence |-> c, next |-> NextOccurrence(c, now),
     enabled |-> TRUE, failures |-> 0, explained |-> FALSE]

\* Some schedules exist, created just now; the domains under them may be verified or not.
Init ==
    /\ now \in Moments /\ \A m \in Moments : now <= m
    /\ schedules \in [Schedules -> {Unborn} \cup {Created(t, c) : t \in Domains, c \in Cadences}]
    /\ authority \in SUBSET Domains
    /\ scans = <<>>
    /\ dispatcher = [d \in Dispatchers |-> Idle]
    /\ handler = [h \in Handlers |-> Idle]
    /\ faults = 0
    /\ requests = 0
    /\ stale = FALSE
-----------------------------------------------------------------------------
(* dispatch_due_scans, phase one                                             *)

\* Mistake: the rows are selected without FOR UPDATE SKIP LOCKED.
OldestDueUnlocked(b) ==
    LET free == {s \in Schedules : Due(s)} IN
    /\ ToSet(b) \subseteq free
    /\ Len(b) = IF Cardinality(free) < MaxPerTick THEN Cardinality(free) ELSE MaxPerTick
    /\ \A i, j \in DOMAIN b : i < j => schedules[b[i]].next <= schedules[b[j]].next

\* The LIMIT oldest of the due rows nobody has locked, oldest first.
OldestDue(b) ==
    LET free == {s \in Schedules : Due(s) /\ ~Locked(s)} IN
    /\ ToSet(b) \subseteq free
    /\ Len(b) = IF Cardinality(free) < MaxPerTick THEN Cardinality(free) ELSE MaxPerTick
    /\ \A i, j \in DOMAIN b : i < j => schedules[b[i]].next <= schedules[b[j]].next
    /\ \A i \in DOMAIN b, s \in free \ ToSet(b) : schedules[b[i]].next <= schedules[s].next

TickLock(d) ==
    /\ DAt(d, "idle")
    /\ \E b \in Batches :
          /\ b # <<>> /\ OldestDue(b)
          /\ DGoto(d, [pc |-> "locked", moment |-> now, batch |-> b])
    /\ UNCHANGED <<now, schedules, authority, scans, handler, faults, stale, requests>>

TickRead(d) ==
    /\ DAt(d, "locked")
    /\ DGoto(d, [pc |-> "decided", moment |-> dispatcher[d].moment, batch |-> dispatcher[d].batch,
                 scope |-> authority, active |-> ActiveCount])
    /\ UNCHANGED <<now, schedules, authority, scans, handler, faults, stale, requests>>

\* Mistake: the count is not raised for the scans this tick queues.
RoomUncounted(active) == IF active < MaxActive THEN Cardinality(Schedules) ELSE 0

\* How many scans a tick may queue before the count it keeps in memory is at the limit.
Room(active) == IF active < MaxActive THEN MaxActive - active ELSE 0

\* The schedules of a batch that get a scan: those in scope, in order, while there is room.
Allowed(queued, batch, scope, active) ==
    LET eligible == {s \in ToSet(batch) : schedules[s].target \in scope}
        room == Room(active)
        before(r, s) == \E i, j \in DOMAIN batch : i < j /\ batch[i] = r /\ batch[j] = s
    IN
    /\ ToSet(queued) \subseteq eligible
    /\ Len(queued) = IF Cardinality(eligible) < room THEN Cardinality(eligible) ELSE room
    /\ \A i, j \in DOMAIN queued : i < j => before(queued[i], queued[j])
    /\ \A r \in ToSet(queued), s \in eligible \ ToSet(queued) : before(r, s)

\* The scans a tick queues, one for each schedule, and the list it publishes from.
NewScans(queued) == [i \in DOMAIN queued |-> NewScan(queued[i], schedules[queued[i]].next)]
ToPublish(queued) == [i \in DOMAIN queued |-> [schedule |-> queued[i], scan |-> Len(scans) + i]]

Publishing(pending) == IF pending = <<>> THEN Idle ELSE [pc |-> "publishing", pending |-> pending]

Advanced(row, moment) == [row EXCEPT !.next = NextOccurrence(row.cadence, moment)]

\* Mistake: the schedules the limit leaves out are not advanced.
TickCommitAdvancesQueued(d) ==
    LET t == dispatcher[d] IN
    /\ DAt(d, "decided")
    /\ \E queued \in Batches :
          /\ Allowed(queued, t.batch, t.scope, t.active)
          /\ schedules' = [s \in Schedules |->
                IF s \in ToSet(queued) THEN Advanced(schedules[s], t.moment)
                ELSE IF s \in ToSet(t.batch) /\ schedules[s].target \notin t.scope
                     THEN Disabled(Advanced(schedules[s], t.moment)) ELSE schedules[s]]
          /\ scans' = scans \o NewScans(queued)
          /\ DGoto(d, Publishing(ToPublish(queued)))
    /\ UNCHANGED <<now, authority, handler, faults, stale, requests>>

\* Every schedule of the batch is advanced, whatever happens to it.
TickCommit(d) ==
    LET t == dispatcher[d] IN
    /\ DAt(d, "decided")
    /\ schedules' = [s \in Schedules |->
          IF s \notin ToSet(t.batch) THEN schedules[s]
          ELSE IF schedules[s].target \in t.scope THEN Advanced(schedules[s], t.moment)
          ELSE Disabled(Advanced(schedules[s], t.moment))]
    /\ \E queued \in Batches :
          /\ Allowed(queued, t.batch, t.scope, t.active)
          /\ scans' = scans \o NewScans(queued)
          /\ DGoto(d, Publishing(ToPublish(queued)))
    /\ UNCHANGED <<now, authority, handler, faults, stale, requests>>
-----------------------------------------------------------------------------
(* Phase two: _publish, _record_success, _record_failure                     *)

\* dispatch_scan returns, raises, or raises although the message was sent.
Answer(i, accepted) ==
    \/ accepted  /\ scans' = [scans EXCEPT ![i].published = TRUE] /\ NoFault
    \/ ~accepted /\ UNCHANGED scans /\ Fault("refused")
    \/ ~accepted /\ scans' = [scans EXCEPT ![i].published = TRUE] /\ Fault("ambiguous")

Publish(d) ==
    /\ DAt(d, "publishing")
    /\ \E accepted \in BOOLEAN :
          /\ Answer(Head(dispatcher[d].pending).scan, accepted)
          /\ DGoto(d, [pc |-> "answered", pending |-> dispatcher[d].pending, accepted |-> accepted])
    /\ UNCHANGED <<now, schedules, authority, handler, stale, requests>>

RecordLoad(d) ==
    LET t == dispatcher[d]  s == Head(t.pending).schedule IN
    /\ DAt(d, "answered")
    /\ DGoto(d, [pc |-> "recording", pending |-> t.pending, accepted |-> t.accepted,
                 old |-> IF Present(s) THEN schedules[s] ELSE Gone])
    /\ UNCHANGED <<now, schedules, authority, scans, handler, faults, stale, requests>>

\* Mistake: a success takes one failure back.
RecordedStepwise(old, accepted) ==
    LET failed == [old EXCEPT !.failures = @ + 1] IN
    IF accepted THEN [old EXCEPT !.failures = @ - 1]
    ELSE IF failed.failures >= FailureLimit THEN Disabled(failed) ELSE failed

\* What _record_success and _record_failure make of the loaded schedule.
Recorded(old, accepted) ==
    LET failed == [old EXCEPT !.failures = @ + 1] IN
    IF accepted THEN [old EXCEPT !.failures = 0]
    ELSE IF failed.failures >= FailureLimit THEN Disabled(failed) ELSE failed

Writes(t) == IF t.old = Gone THEN FALSE ELSE Recorded(t.old, t.accepted) # t.old

\* The scans of a process that ends without publishing them.
Lose(ids) ==
    scans' = [i \in DOMAIN scans |-> IF i \in ids THEN [scans[i] EXCEPT !.lost = TRUE] ELSE scans[i]]

Fail(i) == [scans EXCEPT ![i].status = "over"]

Unpublished(d) ==
    IF dispatcher[d].pc \in {"publishing", "answered", "recording"}
    THEN {dispatcher[d].pending[k].scan : k \in DOMAIN dispatcher[d].pending} ELSE {}

\* Mistake: a deleted schedule returns before the scan is written off.
RecordCommitReturnsEarly(d) ==
    LET t == dispatcher[d]
        s == Head(t.pending).schedule
        i == Head(t.pending).scan
    IN
    /\ DAt(d, "recording")
    /\ IF Writes(t)
       THEN /\ Present(s) /\ ~Locked(s)
            /\ schedules' = [schedules EXCEPT ![s] = Merge(@, t.old, Recorded(t.old, t.accepted))]
            /\ Notice(schedules[s] # t.old)
       ELSE UNCHANGED <<schedules, stale>>
    /\ scans' = IF t.accepted \/ t.old = Gone THEN scans ELSE Fail(i)
    /\ DGoto(d, Publishing(Tail(t.pending)))
    /\ UNCHANGED <<now, authority, handler, faults, requests>>

RecordCommit(d) ==
    LET t == dispatcher[d]
        s == Head(t.pending).schedule
        i == Head(t.pending).scan
    IN
    /\ DAt(d, "recording")
    /\ IF Writes(t)
       THEN /\ Present(s) /\ ~Locked(s)
            /\ schedules' = [schedules EXCEPT ![s] = Merge(@, t.old, Recorded(t.old, t.accepted))]
            /\ Notice(schedules[s] # t.old)
       ELSE UNCHANGED <<schedules, stale>>
    /\ scans' = IF t.accepted THEN scans ELSE Fail(i)
    /\ DGoto(d, Publishing(Tail(t.pending)))
    /\ UNCHANGED <<now, authority, handler, faults, requests>>

\* The schedule was deleted after it was loaded: the UPDATE raises, and nothing in
\* _publish catches it, so the rest of the batch is dropped as well.
RecordRaises(d) ==
    LET t == dispatcher[d]  s == Head(t.pending).schedule IN
    /\ DAt(d, "recording")
    /\ Writes(t) /\ ~Present(s)
    /\ Lose(Unpublished(d))
    /\ DGoto(d, Idle)
    /\ UNCHANGED <<now, schedules, authority, handler, faults, stale, requests>>

\* The worker dies; PostgreSQL rolls back and releases the locks.
DispatcherDies(d) ==
    /\ ~DAt(d, "idle")
    /\ Fault("crash")
    /\ Lose(Unpublished(d))
    /\ DGoto(d, Idle)
    /\ UNCHANGED <<now, schedules, authority, handler, stale, requests>>
-----------------------------------------------------------------------------
(* routes/schedules.py                                                       *)

CreateCheck(h, domain, c) ==
    /\ HAt(h, "idle")
    /\ domain \in authority
    /\ HGoto(h, [pc |-> "creating", row |-> Created(domain, c)])
    /\ Requested
    /\ UNCHANGED <<now, schedules, authority, scans, dispatcher, faults, stale>>

CreateCommit(h, s) ==
    /\ HAt(h, "creating")
    /\ schedules[s] = Unborn
    /\ schedules' = [schedules EXCEPT ![s] = handler[h].row]
    /\ HGoto(h, Idle)
    /\ UNCHANGED <<now, authority, scans, dispatcher, faults, stale, requests>>

\* Mistake: switching on forgets what switched it off.
EditedKeepingReason(row, c, enabled) ==
    [row EXCEPT !.cadence = c, !.enabled = enabled, !.next = NextOccurrence(c, now)]

\* Mistake: the old cadence decides when the schedule runs next.
EditedOldCadence(row, c, enabled) ==
    LET timed == [row EXCEPT !.cadence = c, !.enabled = enabled, !.next = NextOccurrence(row.cadence, now)] IN
    IF enabled /\ ~row.enabled THEN [timed EXCEPT !.failures = 0, !.explained = FALSE] ELSE timed

\* update_schedule: any edit computes next_run_at anew.
Edited(row, c, enabled) ==
    LET timed == [row EXCEPT !.cadence = c, !.enabled = enabled, !.next = NextOccurrence(c, now)] IN
    IF enabled /\ ~row.enabled THEN [timed EXCEPT !.failures = 0, !.explained = FALSE] ELSE timed

EditLoad(h, s, c, enabled) ==
    /\ HAt(h, "idle")
    /\ Present(s)
    /\ HGoto(h, [pc |-> "editing", schedule |-> s, old |-> schedules[s],
                 new |-> Edited(schedules[s], c, enabled), seen |-> Len(scans)])
    /\ Requested
    /\ UNCHANGED <<now, schedules, authority, scans, dispatcher, faults, stale>>

\* A scan queued meanwhile changed the row as well, in columns the model leaves out.
EditCommit(h) ==
    LET e == handler[h]  s == e.schedule IN
    /\ HAt(h, "editing")
    /\ ~Locked(s)
    /\ schedules' = IF Present(s) THEN [schedules EXCEPT ![s] = Merge(schedules[s], e.old, e.new)]
                    ELSE schedules
    /\ Notice(schedules[s] # e.old \/ \E i \in DOMAIN scans : e.seen < i /\ scans[i].of = s)
    /\ HGoto(h, Idle)
    /\ UNCHANGED <<now, authority, scans, dispatcher, faults, requests>>

Delete(s) ==
    /\ Present(s) /\ ~Locked(s)
    /\ schedules' = [schedules EXCEPT ![s] = Gone]
    /\ Requested
    /\ UNCHANGED <<now, authority, scans, dispatcher, handler, faults, stale>>

\* run_schedule_now
RunCheck(h, s) ==
    /\ HAt(h, "idle")
    /\ Present(s) /\ schedules[s].target \in authority
    /\ ActiveCount < MaxActive
    /\ HGoto(h, [pc |-> "counted", schedule |-> s])
    /\ Requested
    /\ UNCHANGED <<now, schedules, authority, scans, dispatcher, faults, stale>>

\* The scan is inserted in the transaction that updates last_run_at, which waits
\* for the row lock and raises when the schedule is gone.
RunCommit(h) ==
    LET s == handler[h].schedule IN
    /\ HAt(h, "counted")
    /\ ~Locked(s)
    /\ IF Present(s)
       THEN /\ scans' = Append(scans, NewScan(s, Manual))
            /\ HGoto(h, [pc |-> "inserted", schedule |-> s, scan |-> Len(scans) + 1])
       ELSE /\ UNCHANGED scans
            /\ HGoto(h, Idle)
    /\ UNCHANGED <<now, schedules, authority, dispatcher, faults, stale, requests>>

\* db.refresh(schedule) comes between the commit and dispatch_scan.
RunRefreshRaises(h) ==
    /\ HAt(h, "inserted") /\ ~Present(handler[h].schedule)
    /\ Lose({handler[h].scan})
    /\ HGoto(h, Idle)
    /\ UNCHANGED <<now, schedules, authority, dispatcher, faults, stale, requests>>

RunPublish(h) ==
    LET i == handler[h].scan IN
    /\ HAt(h, "inserted") /\ Present(handler[h].schedule)
    /\ \E accepted \in BOOLEAN :
          /\ Answer(i, accepted)
          /\ HGoto(h, IF accepted THEN Idle ELSE [pc |-> "refused", scan |-> i])
    /\ UNCHANGED <<now, schedules, authority, dispatcher, stale, requests>>

RunFails(h) ==
    /\ HAt(h, "refused")
    /\ scans' = Fail(handler[h].scan)
    /\ HGoto(h, Idle)
    /\ UNCHANGED <<now, schedules, authority, dispatcher, faults, stale, requests>>

HandlerDies(h) ==
    /\ ~HAt(h, "idle")
    /\ Fault("crash")
    /\ Lose(IF handler[h].pc \in {"inserted", "refused"} THEN {handler[h].scan} ELSE {})
    /\ HGoto(h, Idle)
    /\ UNCHANGED <<now, schedules, authority, dispatcher, stale, requests>>
-----------------------------------------------------------------------------
(* The domains under the schedules.                                          *)

\* _revoke of the sweep: the list, and the schedules that depend on the domain.
RevokeLoad(h, domain) ==
    LET depends(s) == Present(s) /\ schedules[s].enabled /\ schedules[s].target = domain IN
    /\ HAt(h, "idle")
    /\ domain \in authority
    /\ HGoto(h, [pc |-> "revoking", domain |-> domain,
                 rows |-> [s \in Schedules |-> IF depends(s) THEN schedules[s] ELSE Unborn]])
    /\ Requested
    /\ UNCHANGED <<now, schedules, authority, scans, dispatcher, faults, stale>>

RevokeCommit(h) ==
    LET rows == handler[h].rows
        victims == {s \in Schedules : rows[s] # Unborn}
    IN
    /\ HAt(h, "revoking")
    /\ \A s \in victims : ~Locked(s)
    /\ IF \A s \in victims : Present(s)
       THEN /\ authority' = authority \ {handler[h].domain}
            /\ schedules' = [s \in Schedules |->
                  IF s \in victims THEN Merge(schedules[s], rows[s], Disabled(rows[s]))
                  ELSE schedules[s]]
       ELSE UNCHANGED <<authority, schedules>>
    /\ Notice(\E s \in victims : schedules[s] # rows[s])
    /\ HGoto(h, Idle)
    /\ UNCHANGED <<now, scans, dispatcher, faults, requests>>

\* verify_domain, and delete_domain, which leaves the schedules alone.
AuthorityChanges(domain) ==
    /\ authority' = IF domain \in authority THEN authority \ {domain} ELSE authority \cup {domain}
    /\ Requested
    /\ UNCHANGED <<now, schedules, scans, dispatcher, handler, faults, stale>>

\* The pipeline ends a published scan, or a user cancels a queued one.
ScanEnds(i) ==
    /\ scans[i].status = "queued"
    /\ scans' = [scans EXCEPT ![i].status = "over"]
    /\ UNCHANGED <<now, schedules, authority, dispatcher, handler, faults, stale, requests>>

Clock ==
    /\ \E m \in Moments : now < m /\ now' = m /\ \A k \in Moments : k <= now \/ m <= k
    /\ UNCHANGED <<schedules, authority, scans, dispatcher, handler, faults, stale, requests>>
-----------------------------------------------------------------------------
Tick(d) == TickLock(d) \/ TickRead(d) \/ TickCommit(d)
PhaseTwo(d) == Publish(d) \/ RecordLoad(d) \/ RecordCommit(d) \/ RecordRaises(d)

Request(h) ==
    \/ \E domain \in Domains, c \in Cadences : CreateCheck(h, domain, c)
    \/ \E s \in Schedules : CreateCommit(h, s) \/ RunCheck(h, s)
    \/ \E s \in Schedules, c \in Cadences, enabled \in BOOLEAN : EditLoad(h, s, c, enabled)
    \/ EditCommit(h)
    \/ RunCommit(h) \/ RunRefreshRaises(h) \/ RunPublish(h) \/ RunFails(h)
    \/ \E domain \in Domains : RevokeLoad(h, domain)
    \/ RevokeCommit(h)

Next ==
    \/ \E d \in Dispatchers : Tick(d) \/ PhaseTwo(d) \/ DispatcherDies(d)
    \/ \E h \in Handlers : Request(h) \/ HandlerDies(h)
    \/ \E s \in Schedules : Delete(s)
    \/ \E domain \in Domains : AuthorityChanges(domain)
    \/ \E i \in DOMAIN scans : ScanEnds(i)
    \/ Clock

Spec == Init /\ [][Next]_vars

\* Beat runs the task every minute and a worker executes it.
FairSpec == Spec /\ \A d \in Dispatchers : WF_vars(Tick(d)) /\ WF_vars(PhaseTwo(d))
-----------------------------------------------------------------------------
TypeOK ==
    /\ now \in Moments
    /\ schedules \in [Schedules -> Row \cup {Unborn, Gone}]
    /\ authority \subseteq Domains
    /\ scans \in Seq(Scan)
    /\ dispatcher \in [Dispatchers -> Dispatcher]
    /\ handler \in [Handlers -> Handler]
    /\ faults \in 0 .. MaxFaults
    /\ requests \in 0 .. MaxRequests
    /\ stale \in BOOLEAN

\* A window of a schedule is fired at most once, however many dispatchers overlap,
\* as long as no edit wrote over a row that had changed since it was loaded.
OncePerWindow ==
    ~stale => \A i, j \in DOMAIN scans :
                 i # j /\ scans[i].of = scans[j].of /\ scans[i].window = scans[j].window
                    => scans[i].window = Manual

\* What dispatchers, handlers and sweeps do together is what WindowBook says: a scan
\* is entered for a window that has arrived, in the step that moves the schedule on.
Book == INSTANCE WindowBook WITH
    MaxBatch <- Cardinality(Schedules),
    clock    <- now,
    life     <- [s \in Schedules |-> IF Present(s) THEN "kept" ELSE schedules[s].state],
    next     <- [s \in Schedules |-> IF Present(s) THEN schedules[s].next ELSE 0],
    book     <- [i \in DOMAIN scans |-> [of |-> scans[i].of, window |-> scans[i].window]],
    disputed <- stale

ImplementsWindowBook == Book!BookSpec

\* A committed scan that no message carries has a process that will publish it or
\* write it off, unless that process died or raised.
QueuedHasPublisher ==
    \A i \in DOMAIN scans :
       scans[i].status = "queued" /\ ~scans[i].published /\ ~scans[i].lost
          => \/ \E d \in Dispatchers : i \in Unpublished(d)
             \/ \E h \in Handlers : handler[h].pc \in {"inserted", "refused"} /\ handler[h].scan = i

\* A schedule that is on has no reason to be off and is below the failure limit.
EnabledIsHealthy ==
    ~stale => \A s \in Schedules :
                 Present(s) /\ schedules[s].enabled
                    => ~schedules[s].explained /\ schedules[s].failures < FailureLimit

\* next_run_at is an instant of the cadence stored beside it, whoever wrote either.
NextFitsCadence ==
    ~stale => \A s \in Schedules : Present(s) => Occurs(schedules[s].cadence, schedules[s].next)

\* A tick whose count is not out of date does not take the organisation past its limit.
TickRespectsCap ==
    [][\A d \in Dispatchers :
          DAt(d, "decided") /\ dispatcher'[d] # dispatcher[d] /\ ActiveCount <= dispatcher[d].active
             => ActiveCount' <= IF ActiveCount < MaxActive THEN MaxActive ELSE ActiveCount]_vars

\* A window that has arrived is dealt with.
EveryWindowHandled == \A s \in Schedules : Due(s) ~> ~Due(s)
=============================================================================
