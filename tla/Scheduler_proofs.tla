-------------------------- MODULE Scheduler_proofs --------------------------
(***************************************************************************)
(* Proofs about Calendar, for every cadence and every instant, and about   *)
(* Scheduler, for any number of schedules, domains, dispatchers and        *)
(* handlers, any clock and any limits.                                     *)
(*                                                                         *)
(* The argument.  A row that a dispatcher has locked is due, belongs to it *)
(* alone, and is changed by nobody but its commit (BatchesOK).  That       *)
(* commit queues a scan for the old next_run_at, which has arrived, and    *)
(* leaves a later one, so every window that was fired lies before the next *)
(* one (WindowsOK) and cannot be fired again.  An edit is the other writer *)
(* of next_run_at: what it made of the row lies after every window that    *)
(* had been fired when it loaded the row (EditsOK), and unless its read    *)
(* was stale there is no other when it commits.                            *)
(*                                                                         *)
(* RowStep says what can become of a row in one step, ScanStep what can    *)
(* become of the table of scans, DispatcherGoes and HandlerGoes where the  *)
(* processes go; the parts of the invariant follow from these four.        *)
(***************************************************************************)
EXTENDS Scheduler, FiniteSetTheorems, SequenceTheorems, TLAPS

(* The calendar: NextOccurrence returns the first instant of the cadence     *)
(* strictly after its argument.                                              *)

\* An instant is a number of whole hours and some minutes.
LEMMA InHours ==
    ASSUME NEW t \in Nat
    PROVE  t = 60 * (t \div 60) + (t % 60) /\ t % 60 \in 0 .. 59 /\ t \div 60 \in Nat
OBVIOUS

\* An instant is a number of whole days and some minutes.
LEMMA InDays ==
    ASSUME NEW t \in Nat
    PROVE  t = 1440 * (t \div 1440) + (t % 1440) /\ t % 1440 \in 0 .. 1439 /\ t \div 1440 \in Nat
OBVIOUS

\* The start of an hour of a day.
LEMMA HourOfDay ==
    ASSUME NEW q \in Nat, NEW h \in 0 .. 23
    PROVE  (1440 * q + h * 60) % 1440 = h * 60 /\ (1440 * q + h * 60) \div 1440 = q
OBVIOUS

\* No hour starts before the next one.
LEMMA Hourly ==
    ASSUME NEW after \in Nat, NEW c, c.every = "hour"
    PROVE  NextOccurrence(c, after) \in Nat /\ IsNext(c, after, NextOccurrence(c, after))
<1> DEFINE n == (after - (after % 60)) + 60
<1>1. NextOccurrence(c, after) = n
    BY DEF NextOccurrence, Hour
<1>2. n \in Nat /\ n > after /\ n % 60 = 0
    OBVIOUS
<1>3. ASSUME NEW t \in after + 1 .. n - 1
      PROVE  t % 60 # 0
    OBVIOUS
<1>4. QED
    BY <1>1, <1>2, <1>3 DEF IsNext, Occurs, Hour

\* The candidate at the hour of the day, put off by a day when it has passed.
LEMMA Daily ==
    ASSUME NEW after \in Nat, NEW h \in 0 .. 23, NEW c, c.every = "day", c.hour = h
    PROVE  NextOccurrence(c, after) \in Nat /\ IsNext(c, after, NextOccurrence(c, after))
<1> DEFINE q == after \div 1440
           r == after % 1440
           n == IF h * 60 <= r THEN 1440 * (q + 1) + h * 60 ELSE 1440 * q + h * 60
<1>1. q \in Nat /\ r \in 0 .. 1439 /\ after = 1440 * q + r
    BY InDays
<1>2. NextOccurrence(c, after) = n
    <2>1. AtHour(after, h) = 1440 * q + h * 60
        BY <1>1 DEF AtHour, Hour, Day
    <2>2. NextOccurrence(c, after) = Later(1440 * q + h * 60, after, 1440)
        BY <2>1 DEF NextOccurrence, Day
    <2> HIDE DEF q, r
    <2>3. QED
        BY <1>1, <2>2 DEF Later
<1>3. n \in Nat /\ n > after
    BY <1>1
<1>4. n % 1440 = h * 60
    <2>1. q + 1 \in Nat
        BY <1>1
    <2> HIDE DEF q, r
    <2>2. QED
        BY <1>1, <2>1, HourOfDay
<1>5. ASSUME NEW t \in after + 1 .. n - 1
      PROVE  t % 1440 # h * 60
    <2>1. t = 1440 * (t \div 1440) + (t % 1440) /\ t \div 1440 \in Nat
        BY <1>1, InDays
    <2> HIDE DEF q, r
    <2>2. QED
        BY <1>1, <2>1
<1>6. QED
    BY <1>2, <1>3, <1>4, <1>5 DEF IsNext, Occurs, Hour, Day

\* The candidate on the weekday, put off by a week when it is today and has passed.
LEMMA Weekly ==
    ASSUME NEW after \in Nat, NEW h \in 0 .. 23, NEW w \in 0 .. 6,
           NEW c, c.every = "week", c.hour = h, c.weekday = w
    PROVE  NextOccurrence(c, after) \in Nat /\ IsNext(c, after, NextOccurrence(c, after))
<1> DEFINE q == after \div 1440
           r == after % 1440
           k == (w - (q % 7)) % 7
           d == IF k = 0 /\ h * 60 <= r THEN q + 7 ELSE q + k
           n == 1440 * d + h * 60
<1>1. q \in Nat /\ r \in 0 .. 1439 /\ after = 1440 * q + r
    BY InDays
<1>2. k \in 0 .. 6 /\ (q + k) % 7 = w /\ \A j \in 0 .. 6 : (q + j) % 7 = w => j = k
    <2>1. k = (w - (q % 7)) % 7
        OBVIOUS
    <2> HIDE DEF q, k
    <2>2. QED
        BY <1>1, <2>1
<1>3. h * 60 \in 0 .. 1439
    OBVIOUS
<1>4. NextOccurrence(c, after) = n
    <2>1. AtHour(after, h) = 1440 * q + h * 60
        BY <1>1 DEF AtHour, Hour, Day
    <2>2. Weekday(AtHour(after, h)) = q % 7
        <3> HIDE DEF q, r
        <3>1. QED
            BY <1>1, <2>1, HourOfDay DEF Weekday, Day
    <2>3. NextOccurrence(c, after) = Later(1440 * q + h * 60 + 1440 * k, after, 10080)
        BY <2>1, <2>2 DEF NextOccurrence, Day, Week
    <2> HIDE DEF q, r, k
    <2>4. QED
        BY <1>1, <1>2, <1>3, <2>3 DEF Later
<1> HIDE DEF q, r, k
<1>5. d \in Nat /\ n \in Nat /\ n > after
    BY <1>1, <1>2, <1>3
<1>6. n % 1440 = h * 60 /\ n \div 1440 = d
    <2> HIDE DEF d
    <2>1. QED
        BY <1>5, HourOfDay
<1>7. d % 7 = w
    <2>1. k = 0 => (q + 7) % 7 = w
        BY <1>1, <1>2
    <2>2. QED
        BY <1>2, <2>1
<1>8. ASSUME NEW t \in after + 1 .. n - 1, t % 1440 = h * 60, (t \div 1440) % 7 = w
      PROVE  FALSE
    <2> DEFINE e == t \div 1440
    <2>1. t \in Nat
        BY <1>1, <1>5
    <2>2. t = 1440 * e + h * 60 /\ e \in Nat
        BY <1>8, <2>1, InDays
    <2> HIDE DEF e
    <2>3. e < d /\ e >= q /\ (h * 60 <= r => e > q)
        BY <1>1, <1>3, <1>5, <2>2
    <2>4. \E j \in 0 .. 6 : e = q + j
        BY <1>1, <1>2, <2>2, <2>3
    <2>5. PICK j \in 0 .. 6 : e = q + j
        BY <2>4
    <2>6. (q + j) % 7 = w
        BY <1>8, <2>5 DEF e
    <2>7. j = k
        BY <1>2, <2>6
    <2>8. QED
        BY <1>1, <1>2, <2>3, <2>5, <2>7
<1> HIDE DEF n, d
<1>9. Occurs(c, n)
    BY <1>6, <1>7 DEF Occurs, Weekday, Hour, Day
<1>10. \A t \in after + 1 .. n - 1 : ~Occurs(c, t)
    BY <1>8 DEF Occurs, Weekday, Hour, Day
<1>11. QED
    BY <1>4, <1>5, <1>9, <1>10 DEF IsNext

\* The docstring of next_occurrence, "the first scheduled instant strictly after
\* `after'": none is returned twice and none is skipped.
THEOREM NextOccurrenceIsNext ==
    ASSUME NEW c \in Cadence, NEW after \in Nat
    PROVE  NextOccurrence(c, after) \in Nat /\ IsNext(c, after, NextOccurrence(c, after))
<1>1. CASE c.every = "hour"
    BY <1>1, Hourly
<1>2. CASE c.every = "day"
    BY <1>2, Daily DEF Cadence
<1>3. CASE c.every = "week"
    BY <1>3, Weekly DEF Cadence
<1>4. QED
    BY <1>1, <1>2, <1>3 DEF Cadence
-----------------------------------------------------------------------------

(* Rows.                                                                    *)

Fits(row) == Occurs(row.cadence, row.next)
Healthy(row) == row.enabled => ~row.explained /\ row.failures < FailureLimit

\* NextOccurrenceIsNext, as far as it is needed here.
LEMMA NextIsLater ==
    ASSUME NEW c \in Cadence, NEW t \in Nat
    PROVE  /\ NextOccurrence(c, t) \in Nat /\ NextOccurrence(c, t) > t
           /\ Occurs(c, NextOccurrence(c, t))
BY NextOccurrenceIsNext DEF IsNext

LEMMA RowFields ==
    ASSUME NEW row \in Row
    PROVE  /\ row.state = "present" /\ row.target \in Domains /\ row.cadence \in Cadence
           /\ row.next \in Nat /\ row.enabled \in BOOLEAN /\ row.failures \in Nat
           /\ row.explained \in BOOLEAN
           /\ row # Unborn /\ row # Gone
BY DEF Row, Unborn, Gone

LEMMA CreatedType ==
    ASSUME ConstantsOK, now \in Nat, NEW target \in Domains, NEW c \in Cadence
    PROVE  /\ Created(target, c) \in Row
           /\ Fits(Created(target, c)) /\ Healthy(Created(target, c))
<1>1. NextOccurrence(c, now) \in Nat /\ Occurs(c, NextOccurrence(c, now))
    BY NextIsLater
<1>2. FailureLimit \in Nat \ {0}
    BY DEF ConstantsOK
<1> HIDE DEF Cadence, Occurs, NextOccurrence
<1>3. QED
    BY <1>1, <1>2 DEF Created, Row, Fits, Healthy

LEMMA EditedType ==
    ASSUME now \in Nat, NEW row \in Row, NEW c \in Cadence, NEW enabled \in BOOLEAN
    PROVE  /\ Edited(row, c, enabled) \in Row
           /\ Edited(row, c, enabled).next > now
           /\ Fits(Edited(row, c, enabled))
           /\ LET new == Edited(row, c, enabled) IN
              new.enabled => \/ ~new.explained /\ new.failures = 0
                             \/ row.enabled /\ new.explained = row.explained /\ new.failures = row.failures
<1> DEFINE next == NextOccurrence(c, now)
           timed == [row EXCEPT !.cadence = c, !.enabled = enabled, !.next = next]
<1>1. next \in Nat /\ Occurs(c, next) /\ next > now
    BY NextIsLater
<1>2. Edited(row, c, enabled) = IF enabled /\ ~row.enabled
                                THEN [timed EXCEPT !.failures = 0, !.explained = FALSE] ELSE timed
    BY DEF Edited
<1> HIDE DEF next
<1>3. /\ timed \in Row /\ timed.next = next /\ timed.cadence = c /\ timed.enabled = enabled
      /\ timed.explained = row.explained /\ timed.failures = row.failures
    BY <1>1 DEF Row
<1> HIDE DEF timed
<1>4. /\ [timed EXCEPT !.failures = 0, !.explained = FALSE] \in Row
      /\ [timed EXCEPT !.failures = 0, !.explained = FALSE].next = timed.next
      /\ [timed EXCEPT !.failures = 0, !.explained = FALSE].cadence = timed.cadence
      /\ [timed EXCEPT !.failures = 0, !.explained = FALSE].explained = FALSE
      /\ [timed EXCEPT !.failures = 0, !.explained = FALSE].failures = 0
    BY <1>3 DEF Row
<1>5. QED
    BY <1>1, <1>2, <1>3, <1>4 DEF Fits

\* A row that is advanced, and one that is switched off.
LEMMA AdvancedType ==
    ASSUME NEW row \in Row, NEW moment \in Nat
    PROVE  /\ Advanced(row, moment) \in Row
           /\ Advanced(row, moment).next > moment
           /\ Fits(Advanced(row, moment))
           /\ Healthy(row) => Healthy(Advanced(row, moment))
<1> DEFINE next == NextOccurrence(row.cadence, moment)
<1>1. next \in Nat /\ Occurs(row.cadence, next) /\ next > moment
    BY NextIsLater, RowFields
<1>2. Advanced(row, moment) = [row EXCEPT !.next = next]
    BY DEF Advanced
<1> HIDE DEF next
<1>3. QED
    BY <1>1, <1>2 DEF Row, Fits, Healthy

LEMMA DisabledType ==
    ASSUME NEW row \in Row
    PROVE  /\ Disabled(row) \in Row
           /\ Disabled(row).next = row.next /\ Disabled(row).cadence = row.cadence
           /\ Healthy(Disabled(row))
BY DEF Disabled, Row, Healthy

LEMMA RecordedType ==
    ASSUME ConstantsOK, NEW row \in Row, NEW accepted \in BOOLEAN
    PROVE  /\ Recorded(row, accepted) \in Row
           /\ Recorded(row, accepted).next = row.next
           /\ Recorded(row, accepted).cadence = row.cadence
           /\ Healthy(row) => Healthy(Recorded(row, accepted))
<1> DEFINE failed == [row EXCEPT !.failures = @ + 1]
<1>1. /\ failed \in Row /\ failed.failures = row.failures + 1
      /\ failed.next = row.next /\ failed.cadence = row.cadence
      /\ failed.explained = row.explained /\ failed.enabled = row.enabled
    BY DEF Row
<1>2. CASE accepted
    BY <1>2 DEF Recorded, Row, Healthy, ConstantsOK
<1>3. CASE ~accepted
    <2>1. Recorded(row, accepted) = IF failed.failures >= FailureLimit THEN Disabled(failed) ELSE failed
        BY <1>3 DEF Recorded
    <2>2. FailureLimit \in Nat /\ failed.failures \in Nat
        BY <1>1, RowFields DEF ConstantsOK
    <2> HIDE DEF failed
    <2>3. QED
        BY <1>1, <2>1, <2>2, DisabledType DEF Healthy
<1>4. QED
    BY <1>2, <1>3

LEMMA MergeType ==
    ASSUME NEW current \in Row, NEW old \in Row, NEW new \in Row
    PROVE  /\ Merge(current, old, new) \in Row
           /\ Merge(current, old, new).cadence = Column(current.cadence, old.cadence, new.cadence)
           /\ Merge(current, old, new).next = Column(current.next, old.next, new.next)
           /\ Merge(current, old, new).enabled = Column(current.enabled, old.enabled, new.enabled)
           /\ Merge(current, old, new).failures = Column(current.failures, old.failures, new.failures)
           /\ Merge(current, old, new).explained = Column(current.explained, old.explained, new.explained)
<1>1. /\ Column(current.cadence, old.cadence, new.cadence) \in Cadence
      /\ Column(current.next, old.next, new.next) \in Nat
      /\ Column(current.enabled, old.enabled, new.enabled) \in BOOLEAN
      /\ Column(current.failures, old.failures, new.failures) \in Nat
      /\ Column(current.explained, old.explained, new.explained) \in BOOLEAN
    BY RowFields DEF Column
<1>2. QED
    BY <1>1 DEF Merge, Row

\* Without a stale read, the merged row is what the writer made of it.
LEMMA MergeFresh ==
    ASSUME NEW old \in Row, NEW new \in Row
    PROVE  /\ Fits(new) => Fits(Merge(old, old, new))
           /\ Healthy(new) => Healthy(Merge(old, old, new))
           /\ Merge(old, old, new).next = new.next
BY MergeType DEF Column, Fits, Healthy
-----------------------------------------------------------------------------
(* Sequences.                                                               *)

\* Changing the entries of a sequence leaves a sequence as long as it was.
LEMMA SameLength ==
    ASSUME NEW S, NEW q \in Seq(S), NEW f \in [DOMAIN q -> S]
    PROVE  f \in Seq(S) /\ DOMAIN f = DOMAIN q /\ Len(f) = Len(q)
<1>1. Len(q) \in Nat /\ DOMAIN q = 1 .. Len(q)
    BY LenProperties
<1>2. f \in [1 .. Len(q) -> S]
    BY <1>1
<1>3. f \in Seq(S)
    BY <1>1, <1>2, SeqDef
<1>4. DOMAIN f = DOMAIN q
    OBVIOUS
<1>5. Len(f) = Len(q)
    BY <1>1, <1>2, <1>3
<1>6. QED
    BY <1>3, <1>4, <1>5

LEMMA BatchType ==
    ASSUME ConstantsOK, NEW b \in Batches
    PROVE  /\ b \in Seq(Schedules)
           /\ DOMAIN b = 1 .. Len(b) /\ Len(b) \in Nat
           /\ \A i \in DOMAIN b : b[i] \in Schedules /\ b[i] \in ToSet(b)
           /\ \A i, j \in DOMAIN b : b[i] = b[j] => i = j
           /\ ToSet(b) = {b[i] : i \in DOMAIN b}
<1>1. Cardinality(Schedules) \in Nat
    BY FS_CardinalityType DEF ConstantsOK
<1>2. PICK m \in 0 .. Cardinality(Schedules) : b \in [1 .. m -> Schedules]
    BY <1>1 DEF Batches, BoundedSeq, SeqOf
<1>3. b \in Seq(Schedules)
    BY <1>1, <1>2, SeqDef
<1>4. Len(b) \in Nat /\ DOMAIN b = 1 .. Len(b)
    BY <1>3, LenProperties
<1>5. QED
    BY <1>2, <1>3, <1>4 DEF Batches, IsInjective, ToSet

\* The first entry of a list, and what remains.
LEMMA HeadOfPending ==
    ASSUME NEW S, NEW p \in Seq(S), p # <<>>
    PROVE  /\ 1 \in DOMAIN p /\ Head(p) = p[1] /\ Head(p) \in S
           /\ Tail(p) \in Seq(S)
           /\ \A k \in DOMAIN p : k = 1 \/ k - 1 \in DOMAIN Tail(p)
           /\ \A k \in DOMAIN Tail(p) : k + 1 \in DOMAIN p /\ Tail(p)[k] = p[k + 1]
<1>1. Len(p) \in Nat \ {0} /\ DOMAIN p = 1 .. Len(p)
    BY EmptySeq, LenProperties
<1>2. /\ Tail(p) \in Seq(S) /\ Len(Tail(p)) = Len(p) - 1
      /\ \A i \in 1 .. Len(Tail(p)) : Tail(p)[i] = p[i + 1]
    BY HeadTailProperties
<1>3. DOMAIN Tail(p) = 1 .. Len(p) - 1
    BY <1>2, LenProperties
<1>4. Head(p) = p[1] /\ Head(p) \in S
    BY <1>1, HeadTailProperties
<1>5. QED
    BY <1>1, <1>2, <1>3, <1>4
-----------------------------------------------------------------------------
(* The table of scans, step by step: rows are appended, and keep what they are *)
(* about.                                                                     *)

KeptScan(new, old) ==
    /\ new.of = old.of /\ new.window = old.window
    /\ old.published => new.published
    /\ old.lost => new.lost
    /\ new.status = "queued" => old.status = "queued"

ScansKept ==
    /\ scans' \in Seq(Scan)
    /\ DOMAIN scans \subseteq DOMAIN scans'
    /\ \A i \in DOMAIN scans : KeptScan(scans'[i], scans[i])

LEMMA SameScans ==
    ASSUME scans \in Seq(Scan), NEW f, scans' = f, DOMAIN f = DOMAIN scans,
           \A i \in DOMAIN scans : f[i] \in Scan /\ KeptScan(f[i], scans[i]),
           f = [i \in DOMAIN f |-> f[i]]
    PROVE  ScansKept /\ DOMAIN scans' = DOMAIN scans
<1>1. f \in [DOMAIN scans -> Scan]
    OBVIOUS
<1>2. f \in Seq(Scan)
    BY <1>1, SameLength
<1>3. QED
    BY <1>2 DEF ScansKept

LEMMA ScanFields ==
    ASSUME scans \in Seq(Scan), NEW i \in DOMAIN scans
    PROVE  /\ scans[i] \in Scan /\ scans[i].of \in Schedules
           /\ scans[i].window \in Nat \cup {Manual} /\ scans[i].window \in Int
           /\ scans[i].status \in {"queued", "over"}
           /\ scans[i].published \in BOOLEAN /\ scans[i].lost \in BOOLEAN
<1>1. scans[i] \in Scan
    BY LenProperties, ElementOfSeq
<1>2. QED
    BY <1>1 DEF Scan, Manual

LEMMA AnswerKeeps ==
    ASSUME scans \in Seq(Scan), NEW k, NEW accepted \in BOOLEAN, Answer(k, accepted)
    PROVE  /\ ScansKept /\ DOMAIN scans' = DOMAIN scans
           /\ accepted /\ k \in DOMAIN scans => scans'[k].published
           /\ \A i \in DOMAIN scans : scans'[i].status = scans[i].status /\ scans'[i].lost = scans[i].lost
<1>1. CASE ~accepted /\ UNCHANGED scans
    <2>1. \A i \in DOMAIN scans : KeptScan(scans'[i], scans[i])
        BY <1>1 DEF KeptScan
    <2>2. QED
        BY <1>1, <2>1 DEF ScansKept
<1>2. CASE scans' = [scans EXCEPT ![k].published = TRUE]
    <2> DEFINE f == [scans EXCEPT ![k].published = TRUE]
    <2>1. \A i \in DOMAIN scans : f[i] = IF i = k THEN [scans[i] EXCEPT !.published = TRUE] ELSE scans[i]
        OBVIOUS
    <2>2. \A i \in DOMAIN scans : /\ f[i] \in Scan /\ KeptScan(f[i], scans[i])
                                  /\ i = k => f[i].published
                                  /\ f[i].status = scans[i].status /\ f[i].lost = scans[i].lost
        BY <2>1, ScanFields DEF Scan, KeptScan
    <2>3. DOMAIN f = DOMAIN scans /\ f = [i \in DOMAIN f |-> f[i]]
        BY LenProperties
    <2>4. scans' = f
        BY <1>2
    <2> HIDE DEF f
    <2>5. QED
        BY <2>2, <2>3, <2>4, SameScans
<1>3. QED
    BY <1>1, <1>2 DEF Answer

LEMMA FailKeeps ==
    ASSUME scans \in Seq(Scan), NEW k, scans' = Fail(k)
    PROVE  /\ ScansKept /\ DOMAIN scans' = DOMAIN scans
           /\ \A i \in DOMAIN scans : scans'[i] = IF i = k THEN [scans[i] EXCEPT !.status = "over"] ELSE scans[i]
           /\ k \in DOMAIN scans => scans'[k].status = "over"
<1> DEFINE f == [scans EXCEPT ![k].status = "over"]
<1>1. \A i \in DOMAIN scans : f[i] = IF i = k THEN [scans[i] EXCEPT !.status = "over"] ELSE scans[i]
    OBVIOUS
<1>2. \A i \in DOMAIN scans : /\ f[i] \in Scan /\ KeptScan(f[i], scans[i])
                              /\ i = k => f[i].status = "over"
    BY <1>1, ScanFields DEF Scan, KeptScan
<1>3. DOMAIN f = DOMAIN scans /\ f = [i \in DOMAIN f |-> f[i]]
    BY LenProperties
<1>4. scans' = f
    BY DEF Fail
<1> HIDE DEF f
<1>5. QED
    BY <1>1, <1>2, <1>3, <1>4, SameScans

LEMMA LoseKeeps ==
    ASSUME scans \in Seq(Scan), NEW ids, Lose(ids)
    PROVE  /\ ScansKept /\ DOMAIN scans' = DOMAIN scans
           /\ \A i \in DOMAIN scans : /\ scans'[i].status = scans[i].status
                                      /\ scans'[i].published = scans[i].published
                                      /\ i \in ids => scans'[i].lost
                                      /\ i \notin ids => scans'[i] = scans[i]
<1> DEFINE f == [i \in DOMAIN scans |-> IF i \in ids THEN [scans[i] EXCEPT !.lost = TRUE] ELSE scans[i]]
<1>1. \A i \in DOMAIN scans : f[i] = IF i \in ids THEN [scans[i] EXCEPT !.lost = TRUE] ELSE scans[i]
    OBVIOUS
<1>2. \A i \in DOMAIN scans : /\ f[i] \in Scan /\ KeptScan(f[i], scans[i])
                              /\ f[i].status = scans[i].status
                              /\ f[i].published = scans[i].published
                              /\ i \in ids => f[i].lost
                              /\ i \notin ids => f[i] = scans[i]
    BY <1>1, ScanFields DEF Scan, KeptScan
<1>3. DOMAIN f = DOMAIN scans /\ f = [i \in DOMAIN f |-> f[i]]
    OBVIOUS
<1>4. scans' = f
    BY DEF Lose
<1> HIDE DEF f
<1>5. QED
    BY <1>2, <1>3, <1>4, SameScans

LEMMA AppendKeeps ==
    ASSUME scans \in Seq(Scan), NEW s \in Schedules, scans' = Append(scans, NewScan(s, Manual))
    PROVE  /\ ScansKept
           /\ Len(scans) + 1 \in DOMAIN scans'
           /\ \A i \in DOMAIN scans : scans'[i] = scans[i]
           /\ \A i \in DOMAIN scans' \ DOMAIN scans : i = Len(scans) + 1 /\ scans'[i] = NewScan(s, Manual)
<1>1. NewScan(s, Manual) \in Scan
    BY DEF NewScan, Scan
<1>2. Len(scans) \in Nat /\ DOMAIN scans = 1 .. Len(scans)
    BY LenProperties
<1> HIDE DEF Scan, NewScan
<1>3. /\ scans' \in Seq(Scan) /\ Len(scans') = Len(scans) + 1
      /\ \A i \in 1 .. Len(scans) : scans'[i] = scans[i]
      /\ scans'[Len(scans) + 1] = NewScan(s, Manual)
    BY <1>1
<1>4. DOMAIN scans' = 1 .. Len(scans) + 1
    BY <1>3, LenProperties
<1>5. QED
    BY <1>2, <1>3, <1>4 DEF ScansKept, KeptScan

\* The scans a tick inserts.
LEMMA InsertKeeps ==
    ASSUME ConstantsOK, TypeOK, NEW queued \in Batches, scans' = scans \o NewScans(queued),
           \A i \in DOMAIN queued : schedules[queued[i]].next \in Nat
    PROVE  /\ ScansKept
           /\ \A i \in DOMAIN scans : scans'[i] = scans[i]
           /\ \A k \in DOMAIN queued : Len(scans) + k \in DOMAIN scans' \ DOMAIN scans
           /\ \A i \in DOMAIN scans' \ DOMAIN scans :
                 \E k \in DOMAIN queued :
                    i = Len(scans) + k /\ scans'[i] = NewScan(queued[k], schedules[queued[k]].next)
<1> DEFINE added == NewScans(queued)
<1>0. scans \in Seq(Scan)
    BY DEF TypeOK
<1>1. DOMAIN queued = 1 .. Len(queued) /\ Len(queued) \in Nat /\ \A i \in DOMAIN queued : queued[i] \in Schedules
    BY BatchType
<1>2. \A i \in DOMAIN queued : NewScan(queued[i], schedules[queued[i]].next) \in Scan
    BY <1>1 DEF NewScan, Scan
<1>3. /\ added \in [1 .. Len(queued) -> Scan] /\ DOMAIN added = 1 .. Len(queued)
      /\ \A i \in DOMAIN queued : added[i] = NewScan(queued[i], schedules[queued[i]].next)
    BY <1>1, <1>2 DEF NewScans
<1>4. added \in Seq(Scan)
    BY <1>1, <1>3, SeqDef
<1> HIDE DEF added, Scan, NewScan
<1>5. Len(added) = Len(queued)
    BY <1>1, <1>3, <1>4, LenProperties
<1>6. scans' = scans \o added
    BY DEF added
<1>7. Len(scans) \in Nat /\ DOMAIN scans = 1 .. Len(scans)
    BY <1>0, LenProperties
<1>8. /\ scans' \in Seq(Scan) /\ Len(scans') = Len(scans) + Len(queued)
      /\ \A i \in 1 .. Len(scans) + Len(queued) :
            scans'[i] = IF i <= Len(scans) THEN scans[i] ELSE added[i - Len(scans)]
    <2>1. /\ scans \o added \in Seq(Scan)
          /\ Len(scans \o added) = Len(scans) + Len(added)
          /\ \A i \in 1 .. Len(scans) + Len(added) :
                (scans \o added)[i] = IF i <= Len(scans) THEN scans[i] ELSE added[i - Len(scans)]
        BY <1>0, <1>4, ConcatProperties, Zenon
    <2>2. QED
        BY <1>5, <1>6, <2>1
<1>9. DOMAIN scans' = 1 .. Len(scans) + Len(queued)
    BY <1>8, LenProperties
<1>10. ScansKept /\ \A i \in DOMAIN scans : scans'[i] = scans[i]
    BY <1>1, <1>7, <1>8, <1>9 DEF ScansKept, KeptScan
<1>11. \A k \in DOMAIN queued : Len(scans) + k \in DOMAIN scans' \ DOMAIN scans
    BY <1>1, <1>7, <1>9
<1>12. ASSUME NEW i \in DOMAIN scans' \ DOMAIN scans
       PROVE  \E k \in DOMAIN queued :
                 i = Len(scans) + k /\ scans'[i] = NewScan(queued[k], schedules[queued[k]].next)
    <2> DEFINE k == i - Len(scans)
    <2>1. k \in DOMAIN queued /\ i = Len(scans) + k /\ ~(i <= Len(scans)) /\ i \in 1 .. Len(scans) + Len(queued)
        BY <1>1, <1>7, <1>9
    <2>2. scans'[i] = added[k]
        BY <1>8, <2>1
    <2>3. QED
        BY <1>3, <2>1, <2>2
<1>13. QED
    BY <1>10, <1>11, <1>12
-----------------------------------------------------------------------------
(* The inductive invariant.                                                 *)

InTransaction == {"locked", "decided"}
InPhaseTwo    == {"publishing", "answered", "recording"}

\* The rows a dispatcher has locked.
Batch(d) == IF dispatcher[d].pc \in InTransaction THEN ToSet(dispatcher[d].batch) ELSE {}

\* A row is locked by one dispatcher, and is due until that one commits.
BatchesOK ==
    /\ \A c, d \in Dispatchers : c # d => Batch(c) \cap Batch(d) = {}
    /\ \A d \in Dispatchers : dispatcher[d].pc \in InTransaction => dispatcher[d].moment <= now
    /\ \A d \in Dispatchers : \A s \in Batch(d) :
          Present(s) /\ schedules[s].next <= dispatcher[d].moment

\* What is to be published is a list of scans; an accepted one was published.
PublishingOK ==
    \A d \in Dispatchers : dispatcher[d].pc \in InPhaseTwo =>
       LET pending == dispatcher[d].pending IN
       /\ pending # <<>>
       /\ \A k \in DOMAIN pending : pending[k].scan \in DOMAIN scans
       /\ ~DAt(d, "publishing") /\ dispatcher[d].accepted => scans[Head(pending).scan].published

RunsOK ==
    \A h \in Handlers : handler[h].pc \in {"inserted", "refused"} => handler[h].scan \in DOMAIN scans

\* A row about to be inserted, and what an edit makes of the row it loaded.
NewRowsOK ==
    \A h \in Handlers : HAt(h, "creating") => Fits(handler[h].row) /\ Healthy(handler[h].row)

EditOK(e) ==
    /\ Fits(e.new)
    /\ e.new.enabled => \/ ~e.new.explained /\ e.new.failures = 0
                        \/ /\ e.old.enabled
                           /\ e.new.explained = e.old.explained /\ e.new.failures = e.old.failures
    /\ 1 .. e.seen \subseteq DOMAIN scans
    /\ \A i \in 1 .. e.seen : scans[i].of = e.schedule => scans[i].window < e.new.next

EditsOK == \A h \in Handlers : HAt(h, "editing") => EditOK(handler[h])

RowsOK == ~stale => \A s \in Schedules : Present(s) => Fits(schedules[s]) /\ Healthy(schedules[s])

\* A window that was fired has arrived, and lies before the next one.
WindowsOK ==
    \A i \in DOMAIN scans :
       /\ scans[i].window <= now
       /\ schedules[scans[i].of] # Unborn
       /\ ~stale /\ Present(scans[i].of) => scans[i].window < schedules[scans[i].of].next

IInv ==
    /\ TypeOK /\ BatchesOK /\ PublishingOK /\ RunsOK /\ NewRowsOK /\ EditsOK
    /\ RowsOK /\ WindowsOK /\ OncePerWindow /\ QueuedHasPublisher
-----------------------------------------------------------------------------
(* Processes.                                                               *)

LEMMA ClockType == ASSUME ConstantsOK, TypeOK PROVE now \in Nat
BY DEF ConstantsOK, TypeOK

LEMMA DispatcherFields ==
    ASSUME TypeOK, NEW d \in Dispatchers
    PROVE  /\ dispatcher[d] \in Dispatcher
           /\ dispatcher[d].pc \in InTransaction => dispatcher[d].batch \in Batches /\ dispatcher[d].moment \in Nat
           /\ DAt(d, "decided") => dispatcher[d].scope \subseteq Domains /\ dispatcher[d].active \in Nat
           /\ dispatcher[d].pc \in InPhaseTwo => dispatcher[d].pending \in Pending
           /\ dispatcher[d].pc \in {"answered", "recording"} => dispatcher[d].accepted \in BOOLEAN
           /\ DAt(d, "recording") => dispatcher[d].old \in Row \cup {Gone}
<1>1. dispatcher[d] \in Dispatcher
    BY DEF TypeOK
<1> HIDE DEF Batches, Pending, Row
<1>2. QED
    BY <1>1 DEF Dispatcher, Idle, InTransaction, InPhaseTwo, DAt

LEMMA HandlerFields ==
    ASSUME TypeOK, NEW h \in Handlers
    PROVE  /\ HAt(h, "creating") => handler[h].row \in Row
           /\ HAt(h, "editing") => /\ handler[h].schedule \in Schedules
                                   /\ handler[h].old \in Row /\ handler[h].new \in Row
                                   /\ handler[h].seen \in Nat
           /\ handler[h].pc \in {"counted", "inserted"} => handler[h].schedule \in Schedules
           /\ handler[h].pc \in {"inserted", "refused"} => handler[h].scan \in Nat
           /\ HAt(h, "revoking") => handler[h].domain \in Domains /\ handler[h].rows \in [Schedules -> Row \cup {Unborn}]
<1>1. handler[h] \in Handler
    BY DEF TypeOK
<1> HIDE DEF Row, Unborn
<1>2. QED
    BY <1>1 DEF Handler, Idle, HAt

LEMMA DispatcherMoved ==
    ASSUME TypeOK, NEW d \in Dispatchers, NEW next, DGoto(d, next)
    PROVE  /\ next \in Dispatcher => dispatcher' \in [Dispatchers -> Dispatcher]
           /\ dispatcher'[d] = next
           /\ \A c \in Dispatchers \ {d} : dispatcher'[c] = dispatcher[c]
BY DEF TypeOK, DGoto

LEMMA HandlerMoved ==
    ASSUME TypeOK, NEW h \in Handlers, NEW next, HGoto(h, next)
    PROVE  /\ next \in Handler => handler' \in [Handlers -> Handler]
           /\ handler'[h] = next
           /\ \A g \in Handlers \ {h} : handler'[g] = handler[g]
BY DEF TypeOK, HGoto

\* The schedule a dispatcher is about to record is a schedule.
LEMMA HeadType ==
    ASSUME IInv, NEW d \in Dispatchers, dispatcher[d].pc \in InPhaseTwo
    PROVE  LET p == dispatcher[d].pending IN
           /\ p # <<>> /\ p \in Pending
           /\ Head(p).schedule \in Schedules
           /\ Head(p).scan \in DOMAIN scans
           /\ Head(p) = p[1] /\ 1 \in DOMAIN p
           /\ Tail(p) \in Pending
           /\ \A k \in DOMAIN p : k = 1 \/ \E j \in DOMAIN Tail(p) : Tail(p)[j] = p[k]
           /\ \A j \in DOMAIN Tail(p) : \E k \in DOMAIN p : Tail(p)[j] = p[k]
<1> DEFINE p == dispatcher[d].pending
           S == [schedule: Schedules, scan: Nat]
<1>1. p \in Seq(S)
    BY DispatcherFields DEF Pending, IInv
<1>2. p # <<>> /\ \A k \in DOMAIN p : p[k].scan \in DOMAIN scans
    BY DEF PublishingOK, IInv
<1> HIDE DEF p
<1>3. /\ 1 \in DOMAIN p /\ Head(p) = p[1] /\ Head(p) \in S
      /\ Tail(p) \in Seq(S)
      /\ \A k \in DOMAIN p : k = 1 \/ k - 1 \in DOMAIN Tail(p)
      /\ \A k \in DOMAIN Tail(p) : k + 1 \in DOMAIN p /\ Tail(p)[k] = p[k + 1]
    BY <1>1, <1>2, HeadOfPending
<1>4. \A k \in DOMAIN p : k \in Nat
    BY <1>1, LenProperties
<1>5. \A k \in DOMAIN p : k = 1 \/ \E j \in DOMAIN Tail(p) : Tail(p)[j] = p[k]
    BY <1>3, <1>4
<1>6. Head(p).schedule \in Schedules
    BY <1>3
<1> HIDE DEF S
<1>7. p \in Pending /\ Tail(p) \in Pending
    BY <1>1, <1>3 DEF S, Pending
<1>8. Head(p).scan \in DOMAIN scans
    BY <1>2, <1>3
<1>9. \A j \in DOMAIN Tail(p) : \E k \in DOMAIN p : Tail(p)[j] = p[k]
    BY <1>3
<1>10. QED
    BY <1>2, <1>3, <1>5, <1>6, <1>7, <1>8, <1>9 DEF p

LEMMA ActiveCountType ==
    ASSUME scans \in Seq(Scan)
    PROVE  ActiveCount \in Nat /\ IsFiniteSet({i \in DOMAIN scans : scans[i].status = "queued"})
<1>1. DOMAIN scans = 1 .. Len(scans) /\ Len(scans) \in Nat
    BY LenProperties
<1>2. IsFiniteSet(1 .. Len(scans))
    BY <1>1, FS_Interval
<1>3. IsFiniteSet({i \in DOMAIN scans : scans[i].status = "queued"})
    BY <1>1, <1>2, FS_Subset
<1>4. QED
    BY <1>3, FS_CardinalityType DEF ActiveCount

LEMMA PublishingType ==
    ASSUME NEW p \in Pending
    PROVE  Publishing(p) \in Dispatcher
<1> HIDE DEF Pending
<1>1. QED
    BY DEF Publishing, Dispatcher

LEMMA ToPublishType ==
    ASSUME ConstantsOK, TypeOK, NEW queued \in Batches
    PROVE  ToPublish(queued) \in Pending /\ DOMAIN ToPublish(queued) = DOMAIN queued
<1> DEFINE S == [schedule: Schedules, scan: Nat]
           f == ToPublish(queued)
<1>1. queued \in Seq(Schedules) /\ DOMAIN queued = 1 .. Len(queued) /\ Len(queued) \in Nat
      /\ \A i \in DOMAIN queued : queued[i] \in Schedules
    BY BatchType
<1>2. Len(scans) \in Nat
    BY LenProperties DEF TypeOK
<1>3. f \in [1 .. Len(queued) -> S] /\ DOMAIN f = DOMAIN queued
    BY <1>1, <1>2 DEF ToPublish
<1> HIDE DEF S, f
<1>4. f \in Seq(S)
    BY <1>1, <1>3, SeqDef
<1>5. QED
    BY <1>3, <1>4 DEF S, f, Pending
-----------------------------------------------------------------------------
(* Types.                                                                   *)

LEMMA DispatcherStep ==
    ASSUME ConstantsOK, IInv, Next
    PROVE  dispatcher' \in [Dispatchers -> Dispatcher]
<1> USE DEF IInv
<1>1. CASE UNCHANGED dispatcher
    BY <1>1 DEF TypeOK
<1>2. ASSUME NEW d \in Dispatchers, NEW next \in Dispatcher, DGoto(d, next)
      PROVE  dispatcher' \in [Dispatchers -> Dispatcher]
    BY <1>2, DispatcherMoved
<1>3. ASSUME NEW d \in Dispatchers, TickLock(d) PROVE dispatcher' \in [Dispatchers -> Dispatcher]
    <2>1. PICK b \in Batches : DGoto(d, [pc |-> "locked", moment |-> now, batch |-> b])
        BY <1>3 DEF TickLock
    <2> HIDE DEF Batches
    <2>2. [pc |-> "locked", moment |-> now, batch |-> b] \in Dispatcher
        BY ClockType DEF Dispatcher
    <2>3. QED
        BY <1>2, <2>1, <2>2
<1>4. ASSUME NEW d \in Dispatchers, TickRead(d) PROVE dispatcher' \in [Dispatchers -> Dispatcher]
    <2> DEFINE next == [pc |-> "decided", moment |-> dispatcher[d].moment, batch |-> dispatcher[d].batch,
                        scope |-> authority, active |-> ActiveCount]
    <2>1. dispatcher[d].batch \in Batches /\ dispatcher[d].moment \in Nat
        BY <1>4, DispatcherFields DEF TickRead, DAt, InTransaction
    <2>2. ActiveCount \in Nat /\ authority \subseteq Domains
        BY ActiveCountType DEF TypeOK
    <2> HIDE DEF Batches, ActiveCount
    <2>3. next \in Dispatcher
        BY <2>1, <2>2 DEF Dispatcher
    <2>4. DGoto(d, next)
        BY <1>4 DEF TickRead
    <2>5. QED
        BY <1>2, <2>3, <2>4
<1>5. ASSUME NEW d \in Dispatchers, TickCommit(d) PROVE dispatcher' \in [Dispatchers -> Dispatcher]
    <2>1. PICK queued \in Batches : DGoto(d, Publishing(ToPublish(queued)))
        BY <1>5 DEF TickCommit
    <2>2. Publishing(ToPublish(queued)) \in Dispatcher
        BY ToPublishType, PublishingType
    <2>3. QED
        BY <1>2, <2>1, <2>2
<1>6. ASSUME NEW d \in Dispatchers, Publish(d) PROVE dispatcher' \in [Dispatchers -> Dispatcher]
    <2>1. PICK accepted \in BOOLEAN :
            DGoto(d, [pc |-> "answered", pending |-> dispatcher[d].pending, accepted |-> accepted])
        BY <1>6 DEF Publish
    <2>2. dispatcher[d].pending \in Pending
        BY <1>6, HeadType DEF Publish, DAt, InPhaseTwo
    <2> HIDE DEF Pending
    <2>3. [pc |-> "answered", pending |-> dispatcher[d].pending, accepted |-> accepted] \in Dispatcher
        BY <2>2 DEF Dispatcher
    <2>4. QED
        BY <1>2, <2>1, <2>3
<1>7. ASSUME NEW d \in Dispatchers, RecordLoad(d) PROVE dispatcher' \in [Dispatchers -> Dispatcher]
    <2> DEFINE s == Head(dispatcher[d].pending).schedule
               old == IF Present(s) THEN schedules[s] ELSE Gone
               next == [pc |-> "recording", pending |-> dispatcher[d].pending,
                        accepted |-> dispatcher[d].accepted, old |-> old]
    <2>1. dispatcher[d].pending \in Pending /\ s \in Schedules
        BY <1>7, HeadType DEF RecordLoad, DAt, InPhaseTwo
    <2>2. dispatcher[d].accepted \in BOOLEAN
        BY <1>7, DispatcherFields DEF RecordLoad, DAt
    <2>3. old \in Row \cup {Gone}
        BY <2>1 DEF TypeOK, Present, Unborn, Gone
    <2>4. DGoto(d, next)
        BY <1>7 DEF RecordLoad
    <2> HIDE DEF Pending, Row, old, s
    <2>5. next \in Dispatcher
        BY <2>1, <2>2, <2>3 DEF Dispatcher
    <2>6. QED
        BY <1>2, <2>4, <2>5
<1>8. ASSUME NEW d \in Dispatchers, RecordCommit(d) PROVE dispatcher' \in [Dispatchers -> Dispatcher]
    <2>1. DGoto(d, Publishing(Tail(dispatcher[d].pending)))
        BY <1>8 DEF RecordCommit
    <2>2. Tail(dispatcher[d].pending) \in Pending
        BY <1>8, HeadType DEF RecordCommit, DAt, InPhaseTwo
    <2>3. QED
        BY <1>2, <2>1, <2>2, PublishingType
<1>9. ASSUME NEW d \in Dispatchers, RecordRaises(d) \/ DispatcherDies(d)
      PROVE  dispatcher' \in [Dispatchers -> Dispatcher]
    <2>1. DGoto(d, Idle) /\ Idle \in Dispatcher
        BY <1>9 DEF RecordRaises, DispatcherDies, Dispatcher
    <2>2. QED
        BY <1>2, <2>1
<1>10. ASSUME NEW h \in Handlers, Request(h) \/ HandlerDies(h)
       PROVE  UNCHANGED dispatcher
    BY <1>10 DEF Request, HandlerDies, CreateCheck, CreateCommit, RunCheck, EditLoad, EditCommit,
        RunCommit, RunRefreshRaises, RunPublish, RunFails, RevokeLoad, RevokeCommit
<1>11. QED
    BY <1>1, <1>3, <1>4, <1>5, <1>6, <1>7, <1>8, <1>9, <1>10
       DEF Next, Tick, PhaseTwo, Delete, AuthorityChanges, ScanEnds, Clock

LEMMA HandlerStep ==
    ASSUME ConstantsOK, IInv, Next
    PROVE  handler' \in [Handlers -> Handler]
<1> USE DEF IInv
<1>1. CASE UNCHANGED handler
    BY <1>1 DEF TypeOK
<1>2. ASSUME NEW h \in Handlers, NEW next \in Handler, HGoto(h, next)
      PROVE  handler' \in [Handlers -> Handler]
    BY <1>2, HandlerMoved
<1>3. ASSUME NEW h \in Handlers, HGoto(h, Idle)
      PROVE  handler' \in [Handlers -> Handler]
    BY <1>2, <1>3 DEF Handler
<1>4. ASSUME NEW h \in Handlers, NEW domain \in Domains, NEW c \in Cadences, CreateCheck(h, domain, c)
      PROVE  handler' \in [Handlers -> Handler]
    <2>1. Created(domain, c) \in Row
        BY ClockType, CreatedType DEF ConstantsOK
    <2>2. HGoto(h, [pc |-> "creating", row |-> Created(domain, c)])
        BY <1>4 DEF CreateCheck
    <2> HIDE DEF Row, Created
    <2>3. [pc |-> "creating", row |-> Created(domain, c)] \in Handler
        BY <2>1 DEF Handler
    <2>4. QED
        BY <1>2, <2>2, <2>3
<1>5. ASSUME NEW h \in Handlers, NEW s \in Schedules, NEW c \in Cadences, NEW enabled \in BOOLEAN,
             EditLoad(h, s, c, enabled)
      PROVE  handler' \in [Handlers -> Handler]
    <2> DEFINE new == Edited(schedules[s], c, enabled)
               next == [pc |-> "editing", schedule |-> s, old |-> schedules[s], new |-> new, seen |-> Len(scans)]
    <2>1. schedules[s] \in Row
        BY <1>5 DEF EditLoad, Present, TypeOK, Unborn, Gone
    <2>2. new \in Row
        BY <2>1, ClockType, EditedType DEF ConstantsOK
    <2>3. Len(scans) \in Nat
        BY LenProperties DEF TypeOK
    <2>4. HGoto(h, next)
        BY <1>5 DEF EditLoad
    <2> HIDE DEF new, Row
    <2>5. next \in Handler
        BY <2>1, <2>2, <2>3 DEF Handler
    <2>6. QED
        BY <1>2, <2>4, <2>5
<1>6. ASSUME NEW h \in Handlers, NEW s \in Schedules, RunCheck(h, s)
      PROVE  handler' \in [Handlers -> Handler]
    <2>1. HGoto(h, [pc |-> "counted", schedule |-> s]) /\ [pc |-> "counted", schedule |-> s] \in Handler
        BY <1>6 DEF RunCheck, Handler
    <2>2. QED
        BY <1>2, <2>1
<1>7. ASSUME NEW h \in Handlers, RunCommit(h) PROVE handler' \in [Handlers -> Handler]
    <2> DEFINE next == [pc |-> "inserted", schedule |-> handler[h].schedule, scan |-> Len(scans) + 1]
    <2>1. handler[h].schedule \in Schedules
        BY <1>7, HandlerFields DEF RunCommit, HAt
    <2>2. Len(scans) + 1 \in Nat
        BY LenProperties DEF TypeOK
    <2>3. next \in Handler
        BY <2>1, <2>2 DEF Handler
    <2>4. HGoto(h, next) \/ HGoto(h, Idle)
        BY <1>7 DEF RunCommit
    <2>5. QED
        BY <1>2, <1>3, <2>3, <2>4
<1>8. ASSUME NEW h \in Handlers, RunPublish(h) PROVE handler' \in [Handlers -> Handler]
    <2>1. handler[h].scan \in Nat
        BY <1>8, HandlerFields DEF RunPublish, HAt
    <2>2. [pc |-> "refused", scan |-> handler[h].scan] \in Handler
        BY <2>1 DEF Handler
    <2>3. HGoto(h, Idle) \/ HGoto(h, [pc |-> "refused", scan |-> handler[h].scan])
        BY <1>8 DEF RunPublish
    <2>4. QED
        BY <1>2, <1>3, <2>2, <2>3
<1>9. ASSUME NEW h \in Handlers, NEW domain \in Domains, RevokeLoad(h, domain)
      PROVE  handler' \in [Handlers -> Handler]
    <2> DEFINE loaded == [s \in Schedules |->
                            IF Present(s) /\ schedules[s].enabled /\ schedules[s].target = domain
                            THEN schedules[s] ELSE Unborn]
               next == [pc |-> "revoking", domain |-> domain, rows |-> loaded]
    <2>1. \A s \in Schedules : Present(s) => schedules[s] \in Row
        BY DEF Present, TypeOK, Unborn, Gone
    <2>2. loaded \in [Schedules -> Row \cup {Unborn}]
        BY <2>1
    <2>3. HGoto(h, next)
        BY <1>9 DEF RevokeLoad
    <2> HIDE DEF loaded, Row, Unborn
    <2>4. next \in Handler
        BY <2>2 DEF Handler
    <2>5. QED
        BY <1>2, <2>3, <2>4
<1>10. ASSUME NEW h \in Handlers,
              \/ \E s \in Schedules : CreateCommit(h, s)
              \/ EditCommit(h) \/ RunRefreshRaises(h) \/ RunFails(h) \/ RevokeCommit(h) \/ HandlerDies(h)
       PROVE  handler' \in [Handlers -> Handler]
    BY <1>3, <1>10 DEF CreateCommit, EditCommit, RunRefreshRaises, RunFails, RevokeCommit, HandlerDies
<1>11. ASSUME NEW d \in Dispatchers, Tick(d) \/ PhaseTwo(d) \/ DispatcherDies(d)
       PROVE  UNCHANGED handler
    BY <1>11 DEF Tick, PhaseTwo, DispatcherDies, TickLock, TickRead, TickCommit, Publish, RecordLoad,
        RecordCommit, RecordRaises
<1>12. QED
    BY <1>1, <1>4, <1>5, <1>6, <1>7, <1>8, <1>9, <1>10, <1>11
       DEF Next, Request, Delete, AuthorityChanges, ScanEnds, Clock

\* The clock, the list and the counters.
LEMMA RestStep ==
    ASSUME ConstantsOK, IInv, Next
    PROVE  /\ now' \in Moments /\ now <= now'
           /\ authority' \subseteq Domains
           /\ faults' \in 0 .. MaxFaults /\ requests' \in 0 .. MaxRequests
           /\ stale' \in BOOLEAN /\ (stale => stale')
<1>1. TypeOK /\ now \in Nat
    BY ClockType DEF IInv
<1>2. \A kind : Fault(kind) \/ NoFault => faults' \in 0 .. MaxFaults
    BY <1>1 DEF Fault, NoFault, TypeOK, ConstantsOK
<1>3. Requested \/ UNCHANGED requests => requests' \in 0 .. MaxRequests
    BY <1>1 DEF Requested, TypeOK, ConstantsOK
<1>4. \A condition : Notice(condition) => (stale => stale')
    BY DEF Notice
<1>5. ASSUME NEW condition, condition \in BOOLEAN, Notice(condition) PROVE stale' \in BOOLEAN
    BY <1>1, <1>5 DEF Notice, TypeOK
<1>6. now' = now \/ Clock
    BY DEF Next, Tick, PhaseTwo, Request, TickLock, TickRead, TickCommit, Publish, RecordLoad,
        RecordCommit, RecordRaises, DispatcherDies, CreateCheck, CreateCommit, RunCheck, EditLoad,
        EditCommit, RunCommit, RunRefreshRaises, RunPublish, RunFails, RevokeLoad, RevokeCommit,
        HandlerDies, Delete, AuthorityChanges, ScanEnds
<1>7. now' \in Moments /\ now <= now'
    <2>1. CASE now' = now
        BY <1>1, <2>1 DEF TypeOK
    <2>2. CASE Clock
        BY <1>1, <2>2 DEF Clock, ConstantsOK
    <2>3. QED
        BY <1>6, <2>1, <2>2
<1>8. authority' \subseteq Domains
    <2>1. CASE UNCHANGED authority
        BY <1>1, <2>1 DEF TypeOK
    <2>2. CASE (\E domain \in Domains : AuthorityChanges(domain)) \/ \E h \in Handlers : RevokeCommit(h)
        BY <1>1, <2>2 DEF AuthorityChanges, RevokeCommit, TypeOK
    <2>3. QED
        BY <2>1, <2>2 DEF Next, Tick, PhaseTwo, Request, TickLock, TickRead, TickCommit, Publish, RecordLoad,
            RecordCommit, RecordRaises, DispatcherDies, CreateCheck, CreateCommit, RunCheck, EditLoad,
            EditCommit, RunCommit, RunRefreshRaises, RunPublish, RunFails, RevokeLoad,
            HandlerDies, Delete, ScanEnds, Clock
<1>9. faults' \in 0 .. MaxFaults
    <2>1. CASE UNCHANGED faults
        BY <1>2, <2>1 DEF NoFault
    <2>2. ASSUME NEW k, NEW accepted, Answer(k, accepted) PROVE faults' \in 0 .. MaxFaults
        BY <1>2, <2>2 DEF Answer
    <2>3. ASSUME NEW d \in Dispatchers, Publish(d) \/ DispatcherDies(d) PROVE faults' \in 0 .. MaxFaults
        BY <1>2, <2>2, <2>3 DEF Publish, DispatcherDies
    <2>4. ASSUME NEW h \in Handlers, RunPublish(h) \/ HandlerDies(h) PROVE faults' \in 0 .. MaxFaults
        BY <1>2, <2>2, <2>4 DEF RunPublish, HandlerDies
    <2>5. QED
        BY <2>1, <2>3, <2>4 DEF Next, Tick, PhaseTwo, Request, TickLock, TickRead, TickCommit, RecordLoad,
            RecordCommit, RecordRaises, CreateCheck, CreateCommit, RunCheck, EditLoad,
            EditCommit, RunCommit, RunRefreshRaises, RunFails, RevokeLoad, RevokeCommit,
            Delete, AuthorityChanges, ScanEnds, Clock
<1>10. Requested \/ UNCHANGED requests
    BY DEF Next, Tick, PhaseTwo, Request, TickLock, TickRead, TickCommit, Publish, RecordLoad,
        RecordCommit, RecordRaises, DispatcherDies, CreateCheck, CreateCommit, RunCheck, EditLoad,
        EditCommit, RunCommit, RunRefreshRaises, RunPublish, RunFails, RevokeLoad, RevokeCommit,
        HandlerDies, Delete, AuthorityChanges, ScanEnds, Clock
<1>11. stale' \in BOOLEAN /\ (stale => stale')
    <2>1. CASE UNCHANGED stale
        BY <1>1, <2>1 DEF TypeOK
    <2>2. ASSUME NEW d \in Dispatchers, RecordCommit(d) PROVE stale' \in BOOLEAN /\ (stale => stale')
        BY <2>1, <2>2, <1>4, <1>5 DEF RecordCommit
    <2>3. ASSUME NEW h \in Handlers, EditCommit(h) PROVE stale' \in BOOLEAN /\ (stale => stale')
        BY <2>3, <1>1 DEF EditCommit, Notice, TypeOK
    <2>4. ASSUME NEW h \in Handlers, RevokeCommit(h) PROVE stale' \in BOOLEAN /\ (stale => stale')
        BY <2>4, <1>1 DEF RevokeCommit, Notice, TypeOK
    <2>5. QED
        BY <2>1, <2>2, <2>3, <2>4 DEF Next, Tick, PhaseTwo, Request, TickLock, TickRead, TickCommit, Publish,
            RecordLoad, RecordRaises, DispatcherDies, CreateCheck, CreateCommit, RunCheck, EditLoad,
            RunCommit, RunRefreshRaises, RunPublish, RunFails, RevokeLoad,
            HandlerDies, Delete, AuthorityChanges, ScanEnds, Clock
<1>12. QED
    BY <1>3, <1>7, <1>8, <1>9, <1>10, <1>11
-----------------------------------------------------------------------------
(* The rows of the schedules, step by step.                                 *)

LockedIffBatch == \A s \in Schedules : Locked(s) <=> \E d \in Dispatchers : s \in Batch(d)

LEMMA LocksAreBatches == LockedIffBatch
BY DEF LockedIffBatch, Locked, Batch, InTransaction

\* What can become of a row.
Unchanged(s) == schedules'[s] = schedules[s]
IsRemoved(s) == ~Locked(s) /\ schedules[s] # Unborn /\ schedules'[s] = Gone
IsCreated(s) ==
    /\ schedules[s] = Unborn
    /\ \E h \in Handlers : HAt(h, "creating") /\ schedules'[s] = handler[h].row
IsAdvanced(s, d) ==
    /\ TickCommit(d) /\ s \in Batch(d)
    /\ Present(s) /\ schedules'[s] \in Row
    /\ schedules'[s].next > dispatcher[d].moment
    /\ Fits(schedules'[s])
    /\ Healthy(schedules[s]) => Healthy(schedules'[s])
IsWritten(s) ==
    /\ ~Locked(s) /\ Present(s) /\ schedules'[s] \in Row
    /\ ~stale' /\ Fits(schedules[s]) /\ Healthy(schedules[s])
          => Fits(schedules'[s]) /\ Healthy(schedules'[s])
    /\ \/ schedules'[s].next = schedules[s].next
       \/ \E h \in Handlers :
            /\ HAt(h, "editing") /\ handler[h].schedule = s
            /\ ~stale' => /\ schedules'[s].next = handler[h].new.next
                          /\ \A i \in DOMAIN scans : scans[i].of = s => i <= handler[h].seen

RowStep(s) ==
    \/ Unchanged(s) \/ IsRemoved(s) \/ IsCreated(s) \/ IsWritten(s)
    \/ \E d \in Dispatchers : IsAdvanced(s, d)

LEMMA PresentRow ==
    ASSUME TypeOK, NEW s \in Schedules
    PROVE  /\ Present(s) <=> schedules[s] \in Row
           /\ schedules[s] \in Row \cup {Unborn, Gone}
BY RowFields DEF TypeOK, Present, Unborn, Gone, Row

\* One row is merged with what a writer made of the row it had loaded.
LEMMA OneWritten ==
    ASSUME TypeOK, NEW s \in Schedules, Present(s), ~Locked(s), NEW old \in Row, NEW new \in Row,
           schedules' = [schedules EXCEPT ![s] = Merge(schedules[s], old, new)],
           new.next = old.next,
           ~stale' => schedules[s] = old,
           Fits(old) /\ Healthy(old) => Fits(new) /\ Healthy(new)
    PROVE  IsWritten(s) /\ \A z \in Schedules \ {s} : Unchanged(z)
<1>1. schedules[s] \in Row
    BY PresentRow
<1>2. schedules'[s] = Merge(schedules[s], old, new) /\ \A z \in Schedules \ {s} : schedules'[z] = schedules[z]
    BY DEF TypeOK
<1>3. Merge(schedules[s], old, new) \in Row
    BY <1>1, MergeType
<1>4. Merge(schedules[s], old, new).next = schedules[s].next
    BY <1>1, MergeType DEF Column
<1>5. ~stale' /\ Fits(schedules[s]) /\ Healthy(schedules[s]) => Fits(schedules'[s]) /\ Healthy(schedules'[s])
    BY <1>2, MergeFresh
<1>6. QED
    BY <1>2, <1>3, <1>4, <1>5 DEF IsWritten, Unchanged

LEMMA RecordWrites ==
    ASSUME ConstantsOK, IInv, NEW d \in Dispatchers, RecordCommit(d), NEW s \in Schedules
    PROVE  RowStep(s)
<1> DEFINE t == dispatcher[d]
           z == Head(t.pending).schedule
           new == Recorded(t.old, t.accepted)
<1>1. CASE ~Writes(t)
    BY <1>1 DEF RecordCommit, RowStep, Unchanged
<1>2. CASE Writes(t)
    <2>1. z \in Schedules
        BY HeadType DEF RecordCommit, DAt, InPhaseTwo
    <2>2. t.old \in Row /\ t.accepted \in BOOLEAN
        BY <1>2, DispatcherFields DEF RecordCommit, DAt, Writes, IInv
    <2>3. /\ Present(z) /\ ~Locked(z)
          /\ schedules' = [schedules EXCEPT ![z] = Merge(schedules[z], t.old, new)]
          /\ Notice(schedules[z] # t.old)
        BY <1>2 DEF RecordCommit
    <2>4. /\ new \in Row /\ new.next = t.old.next /\ new.cadence = t.old.cadence
          /\ Healthy(t.old) => Healthy(new)
        BY <2>2, RecordedType
    <2>5. ~stale' => schedules[z] = t.old
        BY <2>3 DEF Notice
    <2>6. Fits(t.old) /\ Healthy(t.old) => Fits(new) /\ Healthy(new)
        BY <2>4 DEF Fits
    <2> HIDE DEF z, new, t
    <2>7. IsWritten(z) /\ \A y \in Schedules \ {z} : Unchanged(y)
        BY <2>1, <2>2, <2>3, <2>4, <2>5, <2>6, OneWritten DEF IInv
    <2>8. QED
        BY <2>7 DEF RowStep
<1>3. QED
    BY <1>1, <1>2

LEMMA EditWrites ==
    ASSUME ConstantsOK, IInv, NEW h \in Handlers, EditCommit(h), NEW s \in Schedules
    PROVE  RowStep(s)
<1> DEFINE e == handler[h]
           z == e.schedule
<1>0. /\ HAt(h, "editing") /\ z \in Schedules /\ e.old \in Row /\ e.new \in Row /\ e.seen \in Nat
      /\ EditOK(e)
    BY HandlerFields DEF EditCommit, EditsOK, IInv
<1>1. CASE ~Present(z) \/ s # z
    BY <1>0, <1>1 DEF EditCommit, RowStep, Unchanged, IInv, TypeOK
<1>2. CASE Present(z) /\ s = z
    <2>1. /\ ~Locked(z)
          /\ schedules'[z] = Merge(schedules[z], e.old, e.new)
          /\ Notice(schedules[z] # e.old \/ \E i \in DOMAIN scans : e.seen < i /\ scans[i].of = z)
        BY <1>0, <1>2 DEF EditCommit, IInv, TypeOK
    <2>2. schedules[z] \in Row
        BY <1>0, <1>2, PresentRow DEF IInv
    <2>3. Merge(schedules[z], e.old, e.new) \in Row
        BY <1>0, <2>2, MergeType
    <2>4. ~stale' => schedules[z] = e.old
        BY <2>1 DEF Notice
    <2>5. ~stale' => \A i \in DOMAIN scans : scans[i].of = z => i <= e.seen
        <3>1. \A i \in DOMAIN scans : i \in Nat
            BY LenProperties DEF IInv, TypeOK
        <3>2. ~stale' => ~\E i \in DOMAIN scans : e.seen < i /\ scans[i].of = z
            BY <2>1, Zenon DEF Notice
        <3> HIDE DEF e, z
        <3>3. QED
            BY <1>0, <3>1, <3>2
    <2>6. Healthy(e.old) => Healthy(e.new)
        BY <1>0 DEF EditOK, Healthy, ConstantsOK
    <2>7. Fits(e.new)
        BY <1>0 DEF EditOK
    <2>8. ~stale' /\ Healthy(schedules[z]) => Fits(schedules'[z]) /\ Healthy(schedules'[z])
        BY <1>0, <2>1, <2>4, <2>6, <2>7, MergeFresh
    <2>9. ~stale' => schedules'[z].next = e.new.next
        BY <1>0, <2>1, <2>4, MergeFresh
    <2>10. IsWritten(z)
        BY <1>0, <1>2, <2>1, <2>3, <2>5, <2>8, <2>9 DEF IsWritten
    <2>11. QED
        BY <1>2, <2>10 DEF RowStep
<1>3. QED
    BY <1>1, <1>2

LEMMA RevokeWrites ==
    ASSUME ConstantsOK, IInv, NEW h \in Handlers, RevokeCommit(h), NEW s \in Schedules
    PROVE  RowStep(s)
<1> DEFINE loaded == handler[h].rows
           victims == {z \in Schedules : loaded[z] # Unborn}
<1>0. loaded \in [Schedules -> Row \cup {Unborn}]
    BY HandlerFields DEF RevokeCommit, IInv
<1>1. CASE schedules' = schedules
    BY <1>1 DEF RowStep, Unchanged
<1>2. CASE /\ \A z \in victims : Present(z)
           /\ schedules' = [z \in Schedules |-> IF z \in victims
                              THEN Merge(schedules[z], loaded[z], Disabled(loaded[z])) ELSE schedules[z]]
    <2>1. CASE s \notin victims
        BY <1>2, <2>1 DEF RowStep, Unchanged
    <2>2. CASE s \in victims
        <3>1. schedules[s] \in Row /\ loaded[s] \in Row
            BY <1>0, <1>2, <2>2, PresentRow DEF IInv
        <3>2. ~Locked(s) /\ (~stale' => schedules[s] = loaded[s])
            BY <2>2 DEF RevokeCommit, Notice
        <3>3. schedules'[s] = Merge(schedules[s], loaded[s], Disabled(loaded[s]))
            BY <1>2, <2>2
        <3>4. /\ Disabled(loaded[s]) \in Row
              /\ Disabled(loaded[s]).next = loaded[s].next /\ Disabled(loaded[s]).cadence = loaded[s].cadence
              /\ Healthy(Disabled(loaded[s]))
            BY <3>1, DisabledType
        <3>5. schedules'[s] \in Row /\ schedules'[s].next = schedules[s].next
            BY <3>1, <3>3, <3>4, MergeType DEF Column
        <3>6. ~stale' /\ Fits(schedules[s]) => Fits(schedules'[s]) /\ Healthy(schedules'[s])
            <4>1. Fits(loaded[s]) => Fits(Disabled(loaded[s]))
                BY <3>4 DEF Fits
            <4>2. QED
                BY <3>1, <3>2, <3>3, <3>4, <4>1, MergeFresh
        <3>7. QED
            BY <1>2, <2>2, <3>2, <3>5, <3>6 DEF RowStep, IsWritten
    <2>3. QED
        BY <2>1, <2>2
<1>3. QED
    BY <1>1, <1>2 DEF RevokeCommit

LEMMA TickWrites ==
    ASSUME ConstantsOK, IInv, NEW d \in Dispatchers, TickCommit(d), NEW s \in Schedules
    PROVE  IF s \in Batch(d) THEN IsAdvanced(s, d) ELSE Unchanged(s)
<1> DEFINE t == dispatcher[d]
<1>1. DAt(d, "decided") /\ t.moment \in Nat /\ Batch(d) = ToSet(t.batch)
    BY DispatcherFields DEF TickCommit, DAt, InTransaction, Batch, IInv
<1>2. CASE s \notin ToSet(t.batch)
    BY <1>1, <1>2 DEF TickCommit, Unchanged
<1>3. CASE s \in ToSet(t.batch)
    <2>1. Present(s) /\ schedules[s] \in Row
        BY <1>1, <1>3, PresentRow DEF BatchesOK, IInv
    <2>2. /\ Advanced(schedules[s], t.moment) \in Row
          /\ Advanced(schedules[s], t.moment).next > t.moment
          /\ Fits(Advanced(schedules[s], t.moment))
          /\ Healthy(schedules[s]) => Healthy(Advanced(schedules[s], t.moment))
        BY <1>1, <2>1, AdvancedType
    <2>3. \/ schedules'[s] = Advanced(schedules[s], t.moment)
          \/ schedules'[s] = Disabled(Advanced(schedules[s], t.moment))
        BY <1>3 DEF TickCommit
    <2> DEFINE row == Advanced(schedules[s], t.moment)
    <2> HIDE DEF row
    <2>4. /\ Disabled(row) \in Row /\ Disabled(row).next > t.moment
          /\ Fits(Disabled(row)) /\ Healthy(Disabled(row))
        BY <2>2, DisabledType DEF row, Fits
    <2>5. IsAdvanced(s, d)
        BY <1>1, <1>3, <2>1, <2>2, <2>3, <2>4 DEF IsAdvanced, row
    <2>6. QED
        BY <1>1, <1>3, <2>5
<1>4. QED
    BY <1>2, <1>3

LEMMA RowsStep ==
    ASSUME ConstantsOK, IInv, Next, NEW s \in Schedules
    PROVE  RowStep(s)
<1>1. CASE UNCHANGED schedules
    BY <1>1 DEF RowStep, Unchanged
<1>2. ASSUME NEW z \in Schedules, Delete(z) PROVE RowStep(s)
    BY <1>2 DEF Delete, RowStep, Unchanged, IsRemoved, Present, Unborn, IInv, TypeOK
<1>3. ASSUME NEW h \in Handlers, NEW z \in Schedules, CreateCommit(h, z) PROVE RowStep(s)
    BY <1>3 DEF CreateCommit, RowStep, Unchanged, IsCreated, IInv, TypeOK
<1>4. ASSUME NEW d \in Dispatchers, TickCommit(d) PROVE RowStep(s)
    BY <1>4, TickWrites DEF RowStep
<1>5. QED
    BY <1>1, <1>2, <1>3, <1>4, RecordWrites, EditWrites, RevokeWrites
       DEF Next, Tick, PhaseTwo, Request, TickLock, TickRead, Publish, RecordLoad,
        RecordRaises, DispatcherDies, CreateCheck, RunCheck, EditLoad,
        RunCommit, RunRefreshRaises, RunPublish, RunFails, RevokeLoad,
        HandlerDies, AuthorityChanges, ScanEnds, Clock

LEMMA SchedulesType ==
    ASSUME ConstantsOK, IInv, Next
    PROVE  /\ schedules' \in [Schedules -> Row \cup {Unborn, Gone}]
           /\ \A s \in Schedules : schedules[s] # Unborn => schedules'[s] # Unborn
<1>1. ASSUME NEW s \in Schedules
      PROVE  schedules'[s] \in Row \cup {Unborn, Gone} /\ (schedules[s] # Unborn => schedules'[s] # Unborn)
    <2>1. RowStep(s)
        BY RowsStep
    <2>2. \A h \in Handlers : HAt(h, "creating") => handler[h].row \in Row
        BY HandlerFields DEF IInv
    <2>3. \A row \in Row : row # Unborn
        BY RowFields
    <2>4. QED
        BY <2>1, <2>2, <2>3, PresentRow DEF RowStep, Unchanged, IsRemoved, IsCreated, IsWritten,
            IsAdvanced, IInv, Unborn, Gone
<1>2. DOMAIN schedules' = Schedules /\ schedules' = [s \in Schedules |-> schedules'[s]]
    BY DEF Next, Tick, PhaseTwo, Request, TickLock, TickRead, TickCommit, Publish, RecordLoad, RecordCommit,
        RecordRaises, DispatcherDies, CreateCheck, CreateCommit, RunCheck, EditLoad, EditCommit,
        RunCommit, RunRefreshRaises, RunPublish, RunFails, RevokeLoad, RevokeCommit,
        HandlerDies, Delete, AuthorityChanges, ScanEnds, Clock, IInv, TypeOK
<1>3. QED
    BY <1>1, <1>2
-----------------------------------------------------------------------------
(* What can become of a process and of the table of scans.                  *)

\* A dispatcher is moved by its own actions, and so is a handler.
LEMMA DispatcherMoves ==
    ASSUME TypeOK, Next, NEW d \in Dispatchers
    PROVE  dispatcher'[d] = dispatcher[d] \/ Tick(d) \/ PhaseTwo(d) \/ DispatcherDies(d)
<1>1. ASSUME NEW c \in Dispatchers, c # d, Tick(c) \/ PhaseTwo(c) \/ DispatcherDies(c)
      PROVE  dispatcher'[d] = dispatcher[d]
    BY <1>1, DispatcherMoved DEF Tick, PhaseTwo, DispatcherDies, TickLock, TickRead, TickCommit, Publish,
        RecordLoad, RecordCommit, RecordRaises
<1>2. ASSUME NEW h \in Handlers, Request(h) \/ HandlerDies(h)
      PROVE  UNCHANGED dispatcher
    BY <1>2 DEF Request, HandlerDies, CreateCheck, CreateCommit, RunCheck, EditLoad, EditCommit,
        RunCommit, RunRefreshRaises, RunPublish, RunFails, RevokeLoad, RevokeCommit
<1>3. QED
    BY <1>1, <1>2 DEF Next, Delete, AuthorityChanges, ScanEnds, Clock

LEMMA HandlerMoves ==
    ASSUME TypeOK, Next, NEW h \in Handlers
    PROVE  handler'[h] = handler[h] \/ Request(h) \/ HandlerDies(h)
<1>1. ASSUME NEW g \in Handlers, g # h, Request(g) \/ HandlerDies(g)
      PROVE  handler'[h] = handler[h]
    BY <1>1, HandlerMoved DEF Request, HandlerDies, CreateCheck, CreateCommit, RunCheck, EditLoad, EditCommit,
        RunCommit, RunRefreshRaises, RunPublish, RunFails, RevokeLoad, RevokeCommit
<1>2. ASSUME NEW d \in Dispatchers, Tick(d) \/ PhaseTwo(d) \/ DispatcherDies(d)
      PROVE  UNCHANGED handler
    BY <1>2 DEF Tick, PhaseTwo, DispatcherDies, TickLock, TickRead, TickCommit, Publish, RecordLoad,
        RecordCommit, RecordRaises
<1>3. QED
    BY <1>1, <1>2 DEF Next, Delete, AuthorityChanges, ScanEnds, Clock

\* Where each action takes its process.
LEMMA PublishingIs ==
    ASSUME NEW p
    PROVE  \/ p = <<>> /\ Publishing(p) = Idle
           \/ p # <<>> /\ Publishing(p).pc = "publishing" /\ Publishing(p).pending = p
BY DEF Publishing

LEMMA TickCommitGoes ==
    ASSUME TypeOK, NEW d \in Dispatchers, TickCommit(d)
    PROVE  /\ dispatcher'[d] = Idle \/ dispatcher'[d].pc = "publishing"
           /\ dispatcher'[d].pc \notin InTransaction
<1>1. PICK queued \in Batches : DGoto(d, Publishing(ToPublish(queued)))
    BY DEF TickCommit
<1>2. dispatcher'[d] = Publishing(ToPublish(queued))
    BY <1>1, DispatcherMoved
<1>3. QED
    BY <1>2, PublishingIs DEF Idle, InTransaction

LEMMA DispatcherGoes ==
    ASSUME TypeOK, NEW d \in Dispatchers, Tick(d) \/ PhaseTwo(d) \/ DispatcherDies(d)
    PROVE  \/ TickLock(d) /\ dispatcher'[d].pc = "locked"
           \/ TickRead(d) /\ dispatcher'[d].pc = "decided"
              /\ dispatcher'[d].moment = dispatcher[d].moment /\ dispatcher'[d].batch = dispatcher[d].batch
           \/ dispatcher'[d] = Idle
           \/ TickCommit(d) /\ dispatcher'[d].pc = "publishing"
           \/ Publish(d) /\ dispatcher'[d].pc = "answered" /\ dispatcher'[d].pending = dispatcher[d].pending
           \/ RecordLoad(d) /\ dispatcher'[d].pc = "recording"
              /\ dispatcher'[d].pending = dispatcher[d].pending /\ dispatcher'[d].accepted = dispatcher[d].accepted
           \/ RecordCommit(d) /\ dispatcher'[d].pc = "publishing"
              /\ dispatcher'[d].pending = Tail(dispatcher[d].pending) /\ Tail(dispatcher[d].pending) # <<>>
<1>1. ASSUME TickRead(d)
      PROVE  /\ dispatcher'[d].pc = "decided"
             /\ dispatcher'[d].moment = dispatcher[d].moment /\ dispatcher'[d].batch = dispatcher[d].batch
    BY <1>1, DispatcherMoved DEF TickRead
<1>2. ASSUME Publish(d) PROVE dispatcher'[d].pc = "answered" /\ dispatcher'[d].pending = dispatcher[d].pending
    BY <1>2, DispatcherMoved DEF Publish
<1>3. ASSUME RecordLoad(d)
      PROVE  /\ dispatcher'[d].pc = "recording" /\ dispatcher'[d].pending = dispatcher[d].pending
             /\ dispatcher'[d].accepted = dispatcher[d].accepted
    BY <1>3, DispatcherMoved DEF RecordLoad
<1>4. ASSUME RecordCommit(d)
      PROVE  \/ dispatcher'[d] = Idle
             \/ /\ dispatcher'[d].pc = "publishing" /\ Tail(dispatcher[d].pending) # <<>>
                /\ dispatcher'[d].pending = Tail(dispatcher[d].pending)
    <2>1. dispatcher'[d] = Publishing(Tail(dispatcher[d].pending))
        BY <1>4, DispatcherMoved DEF RecordCommit
    <2>2. QED
        BY <2>1, PublishingIs
<1>5. ASSUME RecordRaises(d) \/ DispatcherDies(d) PROVE dispatcher'[d] = Idle
    BY <1>5, DispatcherMoved DEF RecordRaises, DispatcherDies
<1>6. ASSUME TickLock(d) PROVE dispatcher'[d].pc = "locked"
    <2>1. PICK b \in Batches : DGoto(d, [pc |-> "locked", moment |-> now, batch |-> b])
        BY <1>6 DEF TickLock
    <2>2. QED
        BY <2>1, DispatcherMoved
<1>7. QED
    BY <1>1, <1>2, <1>3, <1>4, <1>5, <1>6, TickCommitGoes DEF Tick, PhaseTwo

LEMMA HandlerGoes ==
    ASSUME TypeOK, NEW h \in Handlers, Request(h) \/ HandlerDies(h)
    PROVE  \/ handler'[h] = Idle
           \/ (\E domain \in Domains, c \in Cadences : CreateCheck(h, domain, c)) /\ handler'[h].pc = "creating"
           \/ /\ \E s \in Schedules, c \in Cadences, enabled \in BOOLEAN : EditLoad(h, s, c, enabled)
              /\ handler'[h].pc = "editing"
           \/ handler'[h].pc \in {"counted", "revoking"}
           \/ RunCommit(h) /\ handler'[h].pc = "inserted"
           \/ RunPublish(h) /\ handler'[h].pc = "refused" /\ handler'[h].scan = handler[h].scan
<1>1. ASSUME NEW domain \in Domains, NEW c \in Cadences, CreateCheck(h, domain, c)
      PROVE  handler'[h].pc = "creating"
    BY <1>1, HandlerMoved DEF CreateCheck
<1>2. ASSUME NEW s \in Schedules, NEW c \in Cadences, NEW enabled \in BOOLEAN, EditLoad(h, s, c, enabled)
      PROVE  handler'[h].pc = "editing"
    BY <1>2, HandlerMoved DEF EditLoad
<1>3. ASSUME NEW s \in Schedules, RunCheck(h, s) PROVE handler'[h].pc = "counted"
    BY <1>3, HandlerMoved DEF RunCheck
<1>4. ASSUME NEW domain \in Domains, RevokeLoad(h, domain) PROVE handler'[h].pc = "revoking"
    BY <1>4, HandlerMoved DEF RevokeLoad
<1>5. ASSUME RunCommit(h) PROVE handler'[h] = Idle \/ handler'[h].pc = "inserted"
    BY <1>5, HandlerMoved DEF RunCommit
<1>6. ASSUME RunPublish(h)
      PROVE  \/ handler'[h] = Idle
             \/ handler'[h].pc = "refused" /\ handler'[h].scan = handler[h].scan
    <2>1. PICK accepted \in BOOLEAN :
             HGoto(h, IF accepted THEN Idle ELSE [pc |-> "refused", scan |-> handler[h].scan])
        BY <1>6 DEF RunPublish
    <2>2. CASE accepted
        <3>1. HGoto(h, Idle)
            BY <2>1, <2>2
        <3>2. handler'[h] = Idle
            BY <3>1, HandlerMoved
        <3>3. QED
            BY <3>2
    <2>3. CASE ~accepted
        <3>1. handler'[h] = [pc |-> "refused", scan |-> handler[h].scan]
            BY <2>1, <2>3, HandlerMoved
        <3>2. QED
            BY <3>1
    <2>4. QED
        BY <2>2, <2>3
<1>7. ASSUME HGoto(h, Idle) PROVE handler'[h] = Idle
    BY <1>7, HandlerMoved
<1>8. QED
    BY <1>1, <1>2, <1>3, <1>4, <1>5, <1>6, <1>7
       DEF Request, HandlerDies, CreateCommit, EditCommit, RunRefreshRaises, RunFails, RevokeCommit

\* A scan is added by a manual run, or by a tick for the window of a schedule it advances.
IsNew(i) ==
    LET s == scans'[i].of IN
    /\ s \in Schedules /\ Present(s)
    /\ \/ scans'[i].window = Manual
       \/ \E d \in Dispatchers : IsAdvanced(s, d) /\ scans'[i].window = schedules[s].next

\* Every scan that is added has its publisher.
HasPublisher(i) ==
    \/ \E d \in Dispatchers : i \in Unpublished(d)
    \/ \E h \in Handlers : handler[h].pc \in {"inserted", "refused"} /\ handler[h].scan = i

ScanStep ==
    /\ ScansKept
    /\ \A i \in DOMAIN scans' \ DOMAIN scans : IsNew(i) /\ HasPublisher(i)'
    /\ \A i, j \in DOMAIN scans' \ DOMAIN scans : i # j => scans'[i].of # scans'[j].of

\* The rows for which a tick queues scans are rows it advances.
LEMMA QueuedRows ==
    ASSUME ConstantsOK, IInv, NEW d \in Dispatchers, TickCommit(d), NEW queued \in Batches,
           Allowed(queued, dispatcher[d].batch, dispatcher[d].scope, dispatcher[d].active),
           NEW k \in DOMAIN queued
    PROVE  /\ queued[k] \in Schedules /\ Present(queued[k]) /\ schedules[queued[k]].next \in Nat
           /\ IsAdvanced(queued[k], d)
<1> DEFINE s == queued[k]
<1>1. s \in Schedules /\ s \in ToSet(queued)
    BY BatchType
<1>2. s \in ToSet(dispatcher[d].batch)
    BY <1>1 DEF Allowed
<1>3. s \in Batch(d)
    BY <1>2 DEF TickCommit, DAt, Batch, InTransaction
<1> HIDE DEF s
<1>4. Present(s) /\ schedules[s].next \in Nat
    BY <1>1, <1>3, PresentRow, RowFields DEF BatchesOK, IInv
<1>5. IsAdvanced(s, d)
    BY <1>1, <1>3, TickWrites
<1>6. QED
    BY <1>1, <1>4, <1>5 DEF s

LEMMA TickInserts ==
    ASSUME ConstantsOK, IInv, NEW d \in Dispatchers, TickCommit(d)
    PROVE  ScanStep
<1>0. TypeOK /\ scans \in Seq(Scan)
    BY DEF IInv, TypeOK
<1>1. PICK queued \in Batches :
         /\ Allowed(queued, dispatcher[d].batch, dispatcher[d].scope, dispatcher[d].active)
         /\ scans' = scans \o NewScans(queued)
         /\ DGoto(d, Publishing(ToPublish(queued)))
    BY DEF TickCommit
<1>2. \A k \in DOMAIN queued : /\ queued[k] \in Schedules /\ Present(queued[k])
                                /\ schedules[queued[k]].next \in Nat /\ IsAdvanced(queued[k], d)
    BY <1>1, QueuedRows
<1>3. /\ ScansKept
      /\ \A i \in DOMAIN scans' \ DOMAIN scans :
            \E k \in DOMAIN queued :
               i = Len(scans) + k /\ scans'[i] = NewScan(queued[k], schedules[queued[k]].next)
    BY <1>0, <1>1, <1>2, InsertKeeps
<1>4. ASSUME NEW k \in DOMAIN queued PROVE Len(scans) + k \in Unpublished(d)'
    <2> DEFINE list == ToPublish(queued)
    <2>1. DOMAIN list = DOMAIN queued /\ list[k].scan = Len(scans) + k
        BY DEF ToPublish
    <2>2. list # <<>>
        BY <2>1
    <2>3. dispatcher'[d] = [pc |-> "publishing", pending |-> list]
        BY <1>0, <1>1, <2>2, DispatcherMoved DEF Publishing
    <2> HIDE DEF list
    <2>4. QED
        BY <2>1, <2>3 DEF Unpublished
<1>5. ASSUME NEW i \in DOMAIN scans' \ DOMAIN scans PROVE IsNew(i) /\ HasPublisher(i)'
    <2>1. PICK k \in DOMAIN queued : i = Len(scans) + k /\ scans'[i] = NewScan(queued[k], schedules[queued[k]].next)
        BY <1>3
    <2>2. scans'[i].of = queued[k] /\ scans'[i].window = schedules[queued[k]].next
        BY <2>1 DEF NewScan
    <2>3. QED
        BY <1>2, <1>4, <2>1, <2>2 DEF IsNew, HasPublisher
<1>6. ASSUME NEW i \in DOMAIN scans' \ DOMAIN scans, NEW j \in DOMAIN scans' \ DOMAIN scans,
             scans'[i].of = scans'[j].of
      PROVE  i = j
    <2>1. PICK k \in DOMAIN queued : i = Len(scans) + k /\ scans'[i].of = queued[k]
        BY <1>3 DEF NewScan
    <2>2. PICK m \in DOMAIN queued : j = Len(scans) + m /\ scans'[j].of = queued[m]
        BY <1>3 DEF NewScan
    <2>3. k = m
        BY <1>6, <2>1, <2>2, BatchType
    <2>4. QED
        BY <2>1, <2>2, <2>3
<1>7. QED
    BY <1>3, <1>5, <1>6 DEF ScanStep

LEMMA RunInserts ==
    ASSUME ConstantsOK, IInv, NEW h \in Handlers, RunCommit(h)
    PROVE  ScanStep
<1> DEFINE s == handler[h].schedule
<1>0. TypeOK /\ scans \in Seq(Scan) /\ s \in Schedules
    BY HandlerFields DEF IInv, TypeOK, RunCommit, HAt
<1>1. CASE Present(s)
    <2>1. /\ scans' = Append(scans, NewScan(s, Manual))
          /\ HGoto(h, [pc |-> "inserted", schedule |-> s, scan |-> Len(scans) + 1])
        BY <1>1 DEF RunCommit
    <2>2. /\ ScansKept
          /\ \A i \in DOMAIN scans' \ DOMAIN scans : i = Len(scans) + 1 /\ scans'[i] = NewScan(s, Manual)
        BY <1>0, <2>1, AppendKeeps
    <2>3. handler'[h].pc = "inserted" /\ handler'[h].scan = Len(scans) + 1
        BY <1>0, <2>1, HandlerMoved
    <2>4. \A i \in DOMAIN scans' \ DOMAIN scans : IsNew(i) /\ HasPublisher(i)'
        BY <1>0, <1>1, <2>2, <2>3 DEF IsNew, HasPublisher, NewScan
    <2>5. QED
        BY <2>2, <2>4 DEF ScanStep
<1>2. CASE ~Present(s)
    BY <1>0, <1>2 DEF RunCommit, ScanStep, ScansKept, KeptScan
<1>3. QED
    BY <1>1, <1>2

LEMMA ScansStep ==
    ASSUME ConstantsOK, IInv, Next
    PROVE  ScanStep
<1>0. TypeOK /\ scans \in Seq(Scan)
    BY DEF IInv, TypeOK
<1>1. ASSUME ScansKept, DOMAIN scans' = DOMAIN scans PROVE ScanStep
    BY <1>1 DEF ScanStep
<1>2. CASE UNCHANGED scans
    BY <1>0, <1>2 DEF ScanStep, ScansKept, KeptScan
<1>3. ASSUME NEW k, NEW accepted \in BOOLEAN, Answer(k, accepted) PROVE ScanStep
    BY <1>0, <1>1, <1>3, AnswerKeeps
<1>4. ASSUME NEW k, scans' = Fail(k) PROVE ScanStep
    BY <1>0, <1>1, <1>4, FailKeeps
<1>5. ASSUME NEW ids, Lose(ids) PROVE ScanStep
    BY <1>0, <1>1, <1>5, LoseKeeps
<1>6. ASSUME NEW d \in Dispatchers, PhaseTwo(d) \/ DispatcherDies(d) PROVE ScanStep
    BY <1>2, <1>3, <1>4, <1>5, <1>6 DEF PhaseTwo, DispatcherDies, Publish, RecordLoad, RecordCommit, RecordRaises
<1>7. ASSUME NEW d \in Dispatchers, Tick(d) PROVE ScanStep
    BY <1>2, <1>7, TickInserts DEF Tick, TickLock, TickRead
<1>8. ASSUME NEW h \in Handlers, Request(h) \/ HandlerDies(h) PROVE ScanStep
    BY <1>2, <1>3, <1>4, <1>5, <1>8, RunInserts
       DEF Request, HandlerDies, CreateCheck, CreateCommit, RunCheck, EditLoad, EditCommit,
        RunRefreshRaises, RunPublish, RunFails, RevokeLoad, RevokeCommit
<1>9. ASSUME NEW i \in DOMAIN scans, ScanEnds(i) PROVE ScanStep
    BY <1>4, <1>9 DEF ScanEnds, Fail
<1>10. QED
    BY <1>2, <1>6, <1>7, <1>8, <1>9 DEF Next, Delete, AuthorityChanges, Clock
-----------------------------------------------------------------------------
(* The invariant, part by part.                                             *)

\* The instant at which a schedule runs next is a number.
LEMMA NextsAfter ==
    ASSUME ConstantsOK, IInv, Next, NEW s \in Schedules, schedules'[s].state = "present"
    PROVE  schedules'[s] \in Row /\ schedules'[s].next \in Nat
<1>1. schedules'[s] \in Row \cup {Unborn, Gone}
    BY SchedulesType
<1>2. schedules'[s] \in Row
    BY <1>1 DEF Unborn, Gone
<1>3. QED
    BY <1>2, RowFields

LEMMA WindowsStep ==
    ASSUME ConstantsOK, IInv, Next
    PROVE  WindowsOK'
<1>0. /\ TypeOK /\ scans \in Seq(Scan) /\ now \in Nat /\ now' \in Nat /\ now <= now'
      /\ (stale => stale') /\ stale \in BOOLEAN /\ stale' \in BOOLEAN
    BY ClockType, RestStep DEF IInv, TypeOK, ConstantsOK
<1>1. ScanStep
    BY ScansStep
<1>2. ASSUME NEW i \in DOMAIN scans
      PROVE  /\ scans'[i].window <= now'
             /\ schedules'[scans'[i].of] # Unborn
             /\ ~stale' /\ schedules'[scans'[i].of].state = "present" => scans'[i].window < schedules'[scans'[i].of].next
    <2> DEFINE s == scans[i].of
               w == scans[i].window
    <2>1. scans'[i].of = s /\ scans'[i].window = w /\ s \in Schedules /\ w \in Int
        BY <1>0, <1>1, ScanFields DEF ScanStep, ScansKept, KeptScan
    <2>2. w <= now /\ schedules[s] # Unborn /\ (~stale /\ Present(s) => w < schedules[s].next)
        BY DEF IInv, WindowsOK
    <2> HIDE DEF s, w
    <2>3. schedules'[s] # Unborn
        BY <2>1, <2>2, SchedulesType
    <2>4. ASSUME ~stale', schedules'[s].state = "present" PROVE w < schedules'[s].next
        <3>1. RowStep(s) /\ schedules'[s].next \in Nat
            BY <2>1, <2>4, RowsStep, NextsAfter
        <3>2. CASE Unchanged(s)
            BY <1>0, <2>2, <2>4, <3>2 DEF Unchanged, Present
        <3>3. CASE IsRemoved(s) \/ IsCreated(s)
            BY <2>2, <2>4, <3>3 DEF IsRemoved, IsCreated, Gone
        <3>4. ASSUME NEW d \in Dispatchers, IsAdvanced(s, d) PROVE w < schedules'[s].next
            <4>1. /\ dispatcher[d].moment \in Nat
                  /\ schedules[s].next <= dispatcher[d].moment /\ schedules'[s].next > dispatcher[d].moment
                BY <1>0, <3>4, DispatcherFields
                   DEF IsAdvanced, TickCommit, DAt, InTransaction, IInv, BatchesOK
            <4>2. w < schedules[s].next /\ schedules[s].next \in Nat
                BY <1>0, <2>1, <2>2, <2>4, <3>4, PresentRow, RowFields DEF IsAdvanced
            <4>3. QED
                BY <2>1, <3>1, <4>1, <4>2
        <3>5. CASE IsWritten(s)
            <4>1. CASE schedules'[s].next = schedules[s].next
                BY <1>0, <2>2, <2>4, <3>5, <4>1 DEF IsWritten
            <4>2. ASSUME NEW h \in Handlers, HAt(h, "editing"), handler[h].schedule = s,
                         schedules'[s].next = handler[h].new.next,
                         \A k \in DOMAIN scans : scans[k].of = s => k <= handler[h].seen
                  PROVE  w < schedules'[s].next
                <5>1. EditOK(handler[h]) /\ handler[h].seen \in Nat
                    BY <1>0, <4>2, HandlerFields DEF IInv, EditsOK
                <5>2. i \in 1 .. handler[h].seen
                    BY <1>0, <4>2, <5>1, LenProperties DEF s
                <5>3. QED
                    BY <4>2, <5>1, <5>2 DEF EditOK, s, w
            <4>3. QED
                BY <2>4, <3>5, <4>1, <4>2 DEF IsWritten
        <3>6. QED
            BY <3>1, <3>2, <3>3, <3>4, <3>5 DEF RowStep
    <2>5. QED
        BY <1>0, <2>1, <2>2, <2>3, <2>4
<1>3. ASSUME NEW i \in DOMAIN scans' \ DOMAIN scans
      PROVE  /\ scans'[i].window <= now'
             /\ schedules'[scans'[i].of] # Unborn
             /\ ~stale' /\ schedules'[scans'[i].of].state = "present" => scans'[i].window < schedules'[scans'[i].of].next
    <2> DEFINE s == scans'[i].of
               w == scans'[i].window
    <2>1. /\ s \in Schedules /\ Present(s)
          /\ w = Manual \/ \E d \in Dispatchers : IsAdvanced(s, d) /\ w = schedules[s].next
        BY <1>1 DEF ScanStep, IsNew
    <2> HIDE DEF s, w
    <2>2. schedules'[s] # Unborn
        BY <2>1, SchedulesType DEF Present, Unborn
    <2>3. CASE w = Manual
        BY <1>0, <2>1, <2>2, <2>3, NextsAfter DEF Manual, s, w
    <2>4. ASSUME NEW d \in Dispatchers, IsAdvanced(s, d), w = schedules[s].next
          PROVE  w <= now' /\ (schedules'[s].state = "present" => w < schedules'[s].next)
        <3>1. /\ dispatcher[d].moment \in Nat /\ dispatcher[d].moment <= now
              /\ schedules[s].next <= dispatcher[d].moment /\ schedules'[s].next > dispatcher[d].moment
            BY <1>0, <2>4, DispatcherFields
               DEF IsAdvanced, TickCommit, DAt, InTransaction, IInv, BatchesOK
        <3>2. schedules[s].next \in Nat
            BY <1>0, <2>1, PresentRow, RowFields
        <3>3. schedules'[s].state = "present" => schedules'[s].next \in Nat
            BY <2>1, NextsAfter
        <3>4. QED
            BY <1>0, <2>4, <3>1, <3>2, <3>3
    <2>5. QED
        BY <2>1, <2>2, <2>3, <2>4 DEF s, w
<1>4. QED
    BY <1>2, <1>3 DEF WindowsOK, Present

LEMMA OnceStep ==
    ASSUME ConstantsOK, IInv, Next
    PROVE  OncePerWindow'
<1>0. /\ TypeOK /\ scans \in Seq(Scan) /\ (stale => stale')
    BY RestStep DEF IInv, TypeOK
<1>1. ScanStep
    BY ScansStep
<1>2. \A i \in DOMAIN scans : scans'[i].of = scans[i].of /\ scans'[i].window = scans[i].window
    BY <1>1 DEF ScanStep, ScansKept, KeptScan
<1>3. ASSUME ~stale', NEW i \in DOMAIN scans, NEW j \in DOMAIN scans' \ DOMAIN scans,
             scans'[i].of = scans'[j].of, scans'[i].window = scans'[j].window
      PROVE  scans'[j].window = Manual
    <2>1. /\ Present(scans'[j].of) /\ scans'[j].of \in Schedules
          /\ scans'[j].window = Manual \/ scans'[j].window = schedules[scans'[j].of].next
        BY <1>1 DEF ScanStep, IsNew
    <2>2. scans[i].window < schedules[scans'[j].of].next
        BY <1>0, <1>2, <1>3, <2>1 DEF IInv, WindowsOK
    <2>3. scans[i].window \in Int
        BY <1>0, ScanFields
    <2>4. schedules[scans'[j].of].next \in Nat
        BY <1>0, <2>1, PresentRow, RowFields
    <2>5. QED
        BY <1>2, <1>3, <2>1, <2>2, <2>3, <2>4
<1>4. ASSUME ~stale', NEW i \in DOMAIN scans', NEW j \in DOMAIN scans', i # j,
             scans'[i].of = scans'[j].of, scans'[i].window = scans'[j].window
      PROVE  scans'[i].window = Manual
    <2>1. CASE i \in DOMAIN scans /\ j \in DOMAIN scans
        BY <1>0, <1>2, <1>4, <2>1 DEF IInv, OncePerWindow
    <2>2. CASE i \in DOMAIN scans /\ j \notin DOMAIN scans
        BY <1>3, <1>4, <2>2
    <2>3. CASE i \notin DOMAIN scans /\ j \in DOMAIN scans
        BY <1>3, <1>4, <2>3
    <2>4. CASE i \notin DOMAIN scans /\ j \notin DOMAIN scans
        BY <1>1, <1>4, <2>4 DEF ScanStep
    <2>5. QED
        BY <2>1, <2>2, <2>3, <2>4
<1>5. QED
    BY <1>4 DEF OncePerWindow

LEMMA RowsOKStep ==
    ASSUME ConstantsOK, IInv, Next
    PROVE  RowsOK'
<1>1. stale => stale'
    BY RestStep
<1>2. ASSUME ~stale', NEW s \in Schedules, Present(s)'
      PROVE  Fits(schedules'[s]) /\ Healthy(schedules'[s])
    <2>1. RowStep(s)
        BY RowsStep
    <2>2. Present(s) => Fits(schedules[s]) /\ Healthy(schedules[s])
        BY <1>1, <1>2 DEF IInv, RowsOK
    <2>3. \A h \in Handlers : HAt(h, "creating") => Fits(handler[h].row) /\ Healthy(handler[h].row)
        BY DEF IInv, NewRowsOK
    <2> HIDE DEF Fits, Healthy
    <2>4. QED
        BY <1>2, <2>1, <2>2, <2>3 DEF RowStep, Unchanged, IsRemoved, IsCreated, IsAdvanced, IsWritten, Present, Gone
<1>3. QED
    BY <1>2 DEF RowsOK, Fits, Healthy

LEMMA NewRowsStep ==
    ASSUME ConstantsOK, IInv, Next
    PROVE  NewRowsOK'
<1>1. ASSUME NEW h \in Handlers, HAt(h, "creating")'
      PROVE  Fits(handler'[h].row) /\ Healthy(handler'[h].row)
    <2>1. CASE handler'[h] = handler[h]
        BY <1>1, <2>1 DEF IInv, NewRowsOK, HAt
    <2>2. ASSUME NEW domain \in Domains, NEW c \in Cadences, CreateCheck(h, domain, c)
          PROVE  Fits(handler'[h].row) /\ Healthy(handler'[h].row)
        <3>1. Fits(Created(domain, c)) /\ Healthy(Created(domain, c))
            BY ClockType, CreatedType DEF IInv, ConstantsOK
        <3>2. handler'[h] = [pc |-> "creating", row |-> Created(domain, c)]
            BY <2>2, HandlerMoved DEF CreateCheck, IInv
        <3>3. QED
            BY <3>1, <3>2
    <2>3. CASE Request(h) \/ HandlerDies(h)
        BY <1>1, <2>2, <2>3, HandlerGoes DEF IInv, HAt, Idle
    <2>4. QED
        BY <2>1, <2>3, HandlerMoves DEF IInv
<1>2. QED
    BY <1>1 DEF NewRowsOK, Fits, Healthy

LEMMA EditsStep ==
    ASSUME ConstantsOK, IInv, Next
    PROVE  EditsOK'
<1>0. TypeOK /\ scans \in Seq(Scan) /\ now \in Nat
    BY ClockType DEF IInv, TypeOK
<1>1. ASSUME NEW h \in Handlers, HAt(h, "editing")' PROVE EditOK(handler[h])'
    <2>1. CASE handler'[h] = handler[h]
        <3> DEFINE e == handler[h]
        <3>1. EditOK(e) /\ e.seen \in Nat
            BY <1>0, <1>1, <2>1, HandlerFields DEF IInv, EditsOK, HAt
        <3>2. /\ DOMAIN scans \subseteq DOMAIN scans'
              /\ \A i \in DOMAIN scans : scans'[i].of = scans[i].of /\ scans'[i].window = scans[i].window
            BY ScansStep DEF ScanStep, ScansKept, KeptScan
        <3> HIDE DEF e
        <3>3. /\ 1 .. e.seen \subseteq DOMAIN scans'
              /\ \A i \in 1 .. e.seen : scans'[i].of = e.schedule => scans'[i].window < e.new.next
            BY <3>1, <3>2 DEF EditOK
        <3>4. handler'[h] = e
            BY <2>1 DEF e
        <3>5. QED
            BY <3>1, <3>3, <3>4 DEF EditOK, Fits
    <2>2. ASSUME NEW s \in Schedules, NEW c \in Cadences, NEW enabled \in BOOLEAN, EditLoad(h, s, c, enabled)
          PROVE  EditOK(handler[h])'
        <3> DEFINE new == Edited(schedules[s], c, enabled)
                   e == [pc |-> "editing", schedule |-> s, old |-> schedules[s], new |-> new, seen |-> Len(scans)]
        <3>1. schedules[s] \in Row
            BY <1>0, <2>2, PresentRow DEF EditLoad
        <3>2. /\ new.next > now /\ new.next \in Nat /\ Fits(new)
              /\ new.enabled => \/ ~new.explained /\ new.failures = 0
                                \/ /\ schedules[s].enabled
                                   /\ new.explained = schedules[s].explained
                                   /\ new.failures = schedules[s].failures
            <4>1. c \in Cadence
                BY DEF ConstantsOK
            <4>2. new \in Row
                BY <1>0, <3>1, <4>1, EditedType
            <4>3. new.next \in Nat
                BY <4>2, RowFields
            <4>4. QED
                BY <1>0, <3>1, <4>1, <4>3, EditedType
        <3>3. handler'[h] = e /\ scans' = scans
            BY <1>0, <2>2, HandlerMoved DEF EditLoad
        <3> HIDE DEF new
        <3>4. /\ e.new = new /\ e.old = schedules[s] /\ e.schedule = s /\ e.seen = Len(scans)
            OBVIOUS
        <3> HIDE DEF e
        <3>5. 1 .. e.seen = DOMAIN scans
            BY <1>0, <3>4, LenProperties
        <3>6. \A i \in DOMAIN scans : scans[i].window < new.next
            <4>1. \A i \in DOMAIN scans : scans[i].window <= now /\ scans[i].window \in Int
                BY <1>0, ScanFields DEF IInv, WindowsOK
            <4>2. QED
                BY <1>0, <3>2, <4>1
        <3>7. QED
            BY <3>2, <3>3, <3>4, <3>5, <3>6 DEF EditOK, Fits
    <2>3. CASE Request(h) \/ HandlerDies(h)
        BY <1>0, <1>1, <2>2, <2>3, HandlerGoes DEF HAt, Idle
    <2>4. QED
        BY <1>0, <2>1, <2>3, HandlerMoves
<1>2. QED
    BY <1>1 DEF EditsOK

LEMMA RunsStep ==
    ASSUME ConstantsOK, IInv, Next
    PROVE  RunsOK'
<1>0. TypeOK /\ scans \in Seq(Scan) /\ DOMAIN scans \subseteq DOMAIN scans'
    BY ScansStep DEF IInv, TypeOK, ScanStep, ScansKept
<1>1. ASSUME NEW h \in Handlers, handler'[h].pc \in {"inserted", "refused"}
      PROVE  handler'[h].scan \in DOMAIN scans'
    <2>1. CASE handler'[h] = handler[h]
        BY <1>0, <1>1, <2>1 DEF IInv, RunsOK
    <2>2. CASE RunCommit(h)
        <3>1. /\ scans' = Append(scans, NewScan(handler[h].schedule, Manual))
              /\ handler'[h].scan = Len(scans) + 1
            BY <1>0, <1>1, <2>2, HandlerMoved DEF RunCommit, Idle
        <3>2. handler[h].schedule \in Schedules
            BY <1>0, <2>2, HandlerFields DEF RunCommit, HAt
        <3>3. QED
            BY <1>0, <3>1, <3>2, AppendKeeps
    <2>3. CASE RunPublish(h)
        <3>1. handler[h].scan \in DOMAIN scans
            BY <2>3 DEF RunPublish, HAt, IInv, RunsOK
        <3>2. handler'[h].scan = handler[h].scan
            BY <1>0, <1>1, <2>3, HandlerMoved DEF RunPublish, Idle
        <3>3. QED
            BY <1>0, <3>1, <3>2
    <2>4. CASE Request(h) \/ HandlerDies(h)
        BY <1>0, <1>1, <2>2, <2>3, <2>4, HandlerGoes DEF Idle
    <2>5. QED
        BY <1>0, <2>1, <2>4, HandlerMoves
<1>2. QED
    BY <1>1 DEF RunsOK

LEMMA BatchesStep ==
    ASSUME ConstantsOK, IInv, Next
    PROVE  BatchesOK'
<1>0. TypeOK /\ now \in Nat /\ now' \in Nat /\ now <= now'
    BY ClockType, RestStep DEF IInv, ConstantsOK
<1>1. ASSUME NEW d \in Dispatchers, ~TickLock(d), dispatcher'[d].pc \in InTransaction
      PROVE  /\ dispatcher[d].pc \in InTransaction /\ ~TickCommit(d)
             /\ dispatcher'[d].moment = dispatcher[d].moment
             /\ dispatcher'[d].batch = dispatcher[d].batch
    <2>1. CASE dispatcher'[d] = dispatcher[d]
        BY <1>0, <1>1, <2>1, TickCommitGoes
    <2>2. CASE Tick(d) \/ PhaseTwo(d) \/ DispatcherDies(d)
        <3>1. TickRead(d) => dispatcher[d].pc \in InTransaction
            BY DEF TickRead, DAt, InTransaction
        <3>2. QED
            BY <1>0, <1>1, <2>2, <3>1, TickCommitGoes, DispatcherGoes DEF Idle, InTransaction
    <2>3. QED
        BY <1>0, <2>1, <2>2, DispatcherMoves
<1>2. ASSUME NEW d \in Dispatchers, ~TickLock(d)
      PROVE  Batch(d)' \subseteq Batch(d) /\ (TickCommit(d) => Batch(d)' = {})
    BY <1>1, <1>2 DEF Batch
\* A row that was locked and still is has not changed.
<1>3. ASSUME NEW d \in Dispatchers, NEW s \in Batch(d), s \in Schedules, s \in Batch(d)', ~TickLock(d)
      PROVE  schedules'[s] = schedules[s]
    <2>1. RowStep(s) /\ Locked(s) /\ Present(s)
        BY <1>0, <1>3, RowsStep, LocksAreBatches DEF LockedIffBatch, IInv, BatchesOK
    <2>2. ASSUME NEW c \in Dispatchers, IsAdvanced(s, c) PROVE FALSE
        <3>1. c = d
            BY <1>3, <2>2 DEF IsAdvanced, IInv, BatchesOK
        <3>2. QED
            BY <1>2, <1>3, <2>2, <3>1 DEF IsAdvanced
    <2>3. QED
        BY <2>1, <2>2 DEF RowStep, Unchanged, IsRemoved, IsCreated, IsWritten, Present, Unborn
<1>4. \A d \in Dispatchers : Batch(d) \subseteq Schedules
    <2>1. \A b \in Batches : ToSet(b) \subseteq Schedules
        BY BatchType
    <2>2. QED
        BY <1>0, <2>1, DispatcherFields DEF Batch
<1>5. CASE \A d \in Dispatchers : ~TickLock(d)
    <2>1. \A c, d \in Dispatchers : c # d => (Batch(c) \cap Batch(d) = {})'
        BY <1>2, <1>5 DEF IInv, BatchesOK
    <2>2. \A d \in Dispatchers : dispatcher'[d].pc \in InTransaction => dispatcher'[d].moment <= now'
        BY <1>0, <1>1, <1>5, DispatcherFields DEF IInv, BatchesOK
    <2>3. ASSUME NEW d \in Dispatchers, NEW s \in Batch(d)'
          PROVE  schedules'[s].state = "present" /\ schedules'[s].next <= dispatcher'[d].moment
        <3>1. s \in Batch(d) /\ s \in Schedules
            BY <1>2, <1>4, <1>5, <2>3
        <3>2. schedules'[s] = schedules[s]
            BY <1>3, <1>5, <2>3, <3>1
        <3>3. dispatcher'[d].moment = dispatcher[d].moment
            BY <1>1, <1>5, <2>3 DEF Batch
        <3>4. QED
            BY <3>1, <3>2, <3>3 DEF IInv, BatchesOK, Present
    <2>4. QED
        BY <2>1, <2>2, <2>3 DEF BatchesOK, Present
<1>6. ASSUME NEW d \in Dispatchers, TickLock(d) PROVE BatchesOK'
    <2>1. PICK b \in Batches : OldestDue(b) /\ DGoto(d, [pc |-> "locked", moment |-> now, batch |-> b])
        BY <1>6 DEF TickLock
    <2>2. /\ dispatcher'[d] = [pc |-> "locked", moment |-> now, batch |-> b]
          /\ \A c \in Dispatchers \ {d} : dispatcher'[c] = dispatcher[c]
          /\ schedules' = schedules /\ now' = now
        BY <1>0, <1>6, <2>1, DispatcherMoved DEF TickLock
    <2>3. Batch(d)' = ToSet(b) /\ \A c \in Dispatchers \ {d} : Batch(c)' = Batch(c)
        BY <2>2 DEF Batch, InTransaction
    <2>4. \A s \in ToSet(b) : /\ Present(s) /\ schedules[s].next <= now
                              /\ \A c \in Dispatchers : s \notin Batch(c)
        BY <2>1, LocksAreBatches DEF OldestDue, Due, LockedIffBatch
    <2>5. \A c \in Dispatchers : c # d => ToSet(b) \cap Batch(c) = {}
        BY <2>4
    <2>6. \A c, e \in Dispatchers : c # e => (Batch(c) \cap Batch(e) = {})'
        BY <2>3, <2>5 DEF IInv, BatchesOK
    <2>7. \A c \in Dispatchers : dispatcher'[c].pc \in InTransaction => dispatcher'[c].moment <= now'
        BY <1>0, <2>2 DEF IInv, BatchesOK
    <2>8. \A c \in Dispatchers : \A s \in Batch(c)' :
             schedules'[s].state = "present" /\ schedules'[s].next <= dispatcher'[c].moment
        BY <2>2, <2>3, <2>4 DEF IInv, BatchesOK, Present
    <2>9. QED
        BY <2>6, <2>7, <2>8 DEF BatchesOK, Present
<1>7. QED
    BY <1>5, <1>6

LEMMA PublishingStep ==
    ASSUME ConstantsOK, IInv, Next
    PROVE  PublishingOK'
<1>0. /\ TypeOK /\ scans \in Seq(Scan) /\ ScansKept /\ DOMAIN scans \subseteq DOMAIN scans'
    BY ScansStep DEF IInv, TypeOK, ScanStep, ScansKept
<1> DEFINE Good(d) ==
        LET pending == dispatcher'[d].pending IN
        /\ pending # <<>>
        /\ \A k \in DOMAIN pending : pending[k].scan \in DOMAIN scans'
        /\ dispatcher'[d].pc # "publishing" /\ dispatcher'[d].accepted => scans'[Head(pending).scan].published
<1>1. ASSUME NEW d \in Dispatchers, dispatcher'[d].pc \in InPhaseTwo PROVE Good(d)
    <2> DEFINE p == dispatcher[d].pending
    <2>1. ASSUME dispatcher[d].pc \in InPhaseTwo
          PROVE  /\ p # <<>> /\ \A k \in DOMAIN p : p[k].scan \in DOMAIN scans'
                 /\ Head(p).scan \in DOMAIN scans
                 /\ scans[Head(p).scan].published => scans'[Head(p).scan].published
        <3>1. /\ p # <<>> /\ (\A k \in DOMAIN p : p[k].scan \in DOMAIN scans)
              /\ Head(p).scan \in DOMAIN scans
            BY <2>1, HeadType DEF IInv, PublishingOK
        <3>2. QED
            BY <1>0, <3>1 DEF ScansKept, KeptScan
    <2>2. CASE dispatcher'[d] = dispatcher[d]
        BY <1>1, <2>1, <2>2 DEF IInv, PublishingOK, DAt
    <2>3. CASE TickCommit(d) /\ dispatcher'[d].pc = "publishing"
        <3>1. PICK queued \in Batches :
                 /\ Allowed(queued, dispatcher[d].batch, dispatcher[d].scope, dispatcher[d].active)
                 /\ scans' = scans \o NewScans(queued)
                 /\ DGoto(d, Publishing(ToPublish(queued)))
            BY <2>3 DEF TickCommit
        <3> DEFINE list == ToPublish(queued)
        <3>2. dispatcher'[d] = Publishing(list)
            BY <1>0, <3>1, DispatcherMoved
        <3>3. /\ DOMAIN list = DOMAIN queued
              /\ \A k \in DOMAIN queued : list[k].scan = Len(scans) + k
            BY DEF ToPublish
        <3>4. \A k \in DOMAIN queued : schedules[queued[k]].next \in Nat
            BY <2>3, <3>1, QueuedRows
        <3>5. \A k \in DOMAIN queued : Len(scans) + k \in DOMAIN scans'
            BY <1>0, <3>1, <3>4, InsertKeeps
        <3> HIDE DEF list
        <3>6. list # <<>> /\ dispatcher'[d].pending = list
            BY <2>3, <3>2, PublishingIs DEF Idle
        <3>7. QED
            BY <2>3, <3>3, <3>5, <3>6
    <2>4. CASE Publish(d) /\ dispatcher'[d].pc = "answered" /\ dispatcher'[d].pending = p
        <3>1. dispatcher[d].pc \in InPhaseTwo
            BY <2>4 DEF Publish, DAt, InPhaseTwo
        <3>2. PICK accepted \in BOOLEAN :
                 /\ Answer(Head(p).scan, accepted)
                 /\ DGoto(d, [pc |-> "answered", pending |-> p, accepted |-> accepted])
            BY <2>4 DEF Publish
        <3>3. dispatcher'[d].accepted = accepted
            BY <1>0, <3>2, DispatcherMoved
        <3>4. accepted => scans'[Head(p).scan].published
            BY <1>0, <2>1, <3>1, <3>2, AnswerKeeps
        <3> HIDE DEF p
        <3>5. QED
            BY <2>1, <2>4, <3>1, <3>3, <3>4
    <2>5. CASE RecordLoad(d) /\ dispatcher'[d].pc = "recording"
                 /\ dispatcher'[d].pending = p /\ dispatcher'[d].accepted = dispatcher[d].accepted
        <3>1. DAt(d, "answered") /\ dispatcher[d].pc \in InPhaseTwo /\ ~DAt(d, "publishing")
            BY <2>5 DEF RecordLoad, DAt, InPhaseTwo
        <3>2. dispatcher[d].accepted => scans[Head(p).scan].published
            BY <3>1 DEF IInv, PublishingOK
        <3> HIDE DEF p
        <3>3. QED
            BY <2>1, <2>5, <3>1, <3>2
    <2>6. CASE RecordCommit(d) /\ dispatcher'[d].pc = "publishing" /\ dispatcher'[d].pending = Tail(p) /\ Tail(p) # <<>>
        <3>1. dispatcher[d].pc \in InPhaseTwo
            BY <2>6 DEF RecordCommit, DAt, InPhaseTwo
        <3>2. \A j \in DOMAIN Tail(p) : \E k \in DOMAIN p : Tail(p)[j] = p[k]
            BY <3>1, HeadType
        <3> HIDE DEF p
        <3>3. QED
            BY <2>1, <2>6, <3>1, <3>2
    <2>7. ~(dispatcher'[d] = Idle)
        BY <1>1 DEF Idle, InPhaseTwo
    <2>8. ~(dispatcher'[d].pc = "decided")
        BY <1>1 DEF InPhaseTwo
    <2>9. ~(dispatcher'[d].pc = "locked")
        BY <1>1 DEF InPhaseTwo
    <2> HIDE DEF Good, p
    <2>10. QED
        BY <1>0, <2>2, <2>3, <2>4, <2>5, <2>6, <2>7, <2>8, <2>9, DispatcherMoves, DispatcherGoes DEF p
<1>2. QED
    BY <1>1 DEF PublishingOK, DAt

\* A dispatcher passes a scan on, publishes it, writes it off, or loses it.
LEMMA DispatcherKeeps ==
    ASSUME ConstantsOK, IInv, Next, NEW d \in Dispatchers, NEW i \in DOMAIN scans, i \in Unpublished(d),
           scans'[i].status = "queued", ~scans'[i].published, ~scans'[i].lost
    PROVE  i \in Unpublished(d)'
<1> DEFINE p == dispatcher[d].pending
<1>0. /\ TypeOK /\ scans \in Seq(Scan) /\ ScansKept
      /\ dispatcher[d].pc \in InPhaseTwo
      /\ \E k \in DOMAIN p : p[k].scan = i
    BY ScansStep DEF IInv, TypeOK, ScanStep, Unpublished, InPhaseTwo
<1>1. CASE dispatcher'[d] = dispatcher[d]
    BY <1>1 DEF Unpublished
<1>2. ~Tick(d)
    BY <1>0 DEF Tick, TickLock, TickRead, TickCommit, DAt, InPhaseTwo
<1>3. ~(RecordRaises(d) \/ DispatcherDies(d))
    <2>1. RecordRaises(d) \/ DispatcherDies(d) => Lose(Unpublished(d))
        BY DEF RecordRaises, DispatcherDies
    <2>2. QED
        BY <1>0, <2>1, LoseKeeps
<1>4. ASSUME dispatcher'[d].pc \in InPhaseTwo, dispatcher'[d].pending = p PROVE i \in Unpublished(d)'
    BY <1>0, <1>4 DEF Unpublished, InPhaseTwo
<1>5. CASE RecordCommit(d)
    <2>1. dispatcher[d].accepted \in BOOLEAN /\ DAt(d, "recording") /\ ~DAt(d, "publishing")
        BY <1>0, <1>5, DispatcherFields DEF RecordCommit, DAt
    <2>2. i # Head(p).scan
        <3>1. CASE dispatcher[d].accepted
            <4>1. scans[Head(p).scan].published
                BY <1>0, <2>1, <3>1 DEF IInv, PublishingOK
            <4>2. QED
                BY <1>0, <4>1 DEF ScansKept, KeptScan
        <3>2. CASE ~dispatcher[d].accepted
            <4>1. scans' = Fail(Head(p).scan)
                BY <1>5, <3>2 DEF RecordCommit
            <4>2. QED
                BY <1>0, <4>1, FailKeeps
        <3>3. QED
            BY <2>1, <3>1, <3>2
    <2>3. PICK j \in DOMAIN Tail(p) : Tail(p)[j].scan = i
        <3>1. /\ Head(p) = p[1]
              /\ \A k \in DOMAIN p : k = 1 \/ \E j \in DOMAIN Tail(p) : Tail(p)[j] = p[k]
            BY <1>0, HeadType
        <3> HIDE DEF p
        <3>2. QED
            BY <1>0, <2>2, <3>1
    <2> DEFINE q == Tail(p)
    <2>4. dispatcher'[d] = Publishing(q)
        BY <1>0, <1>5, DispatcherMoved DEF RecordCommit
    <2>5. q # <<>>
        BY <2>3
    <2> HIDE DEF p, q
    <2>6. dispatcher'[d].pc = "publishing" /\ dispatcher'[d].pending = q
        BY <2>4, <2>5, PublishingIs
    <2>7. QED
        BY <2>3, <2>6 DEF Unpublished, q
<1>6. CASE Publish(d) \/ RecordLoad(d)
    <2>1. CASE Publish(d)
        <3>1. dispatcher'[d].pc = "answered" /\ dispatcher'[d].pending = p
            BY <1>0, <2>1, DispatcherMoved DEF Publish
        <3>2. QED
            BY <1>4, <3>1 DEF InPhaseTwo
    <2>2. CASE RecordLoad(d)
        <3>1. dispatcher'[d].pc = "recording" /\ dispatcher'[d].pending = p
            BY <1>0, <2>2, DispatcherMoved DEF RecordLoad
        <3>2. QED
            BY <1>4, <3>1 DEF InPhaseTwo
    <2>3. QED
        BY <1>6, <2>1, <2>2
<1>7. QED
    BY <1>0, <1>1, <1>2, <1>3, <1>5, <1>6, DispatcherMoves DEF PhaseTwo

\* So does a handler.
LEMMA HandlerKeeps ==
    ASSUME ConstantsOK, IInv, Next, NEW h \in Handlers, NEW i \in DOMAIN scans,
           handler[h].pc \in {"inserted", "refused"}, handler[h].scan = i,
           scans'[i].status = "queued", ~scans'[i].published, ~scans'[i].lost
    PROVE  handler'[h].pc \in {"inserted", "refused"} /\ handler'[h].scan = i
<1>0. TypeOK /\ scans \in Seq(Scan)
    BY DEF IInv, TypeOK
<1>1. CASE RunPublish(h)
    <2>1. PICK accepted \in BOOLEAN :
             /\ Answer(i, accepted)
             /\ HGoto(h, IF accepted THEN Idle ELSE [pc |-> "refused", scan |-> i])
        BY <1>1 DEF RunPublish
    <2>2. ~accepted
        BY <1>0, <2>1, AnswerKeeps
    <2>3. handler'[h] = [pc |-> "refused", scan |-> i]
        BY <1>0, <2>1, <2>2, HandlerMoved
    <2>4. QED
        BY <2>3
<1>2. ~RunFails(h)
    BY <1>0, FailKeeps DEF RunFails
<1>3. ~(RunRefreshRaises(h) \/ HandlerDies(h))
    <2>1. RunRefreshRaises(h) \/ HandlerDies(h) => \E ids : i \in ids /\ Lose(ids)
        BY DEF RunRefreshRaises, HandlerDies
    <2>2. QED
        BY <1>0, <2>1, LoseKeeps
<1>4. CASE handler'[h] = handler[h]
    BY <1>4
<1>5. QED
    BY <1>0, <1>1, <1>2, <1>3, <1>4, HandlerMoves
       DEF Request, HAt, CreateCheck, CreateCommit, RunCheck, EditLoad, EditCommit, RunCommit,
        RevokeLoad, RevokeCommit

LEMMA PublisherStep ==
    ASSUME ConstantsOK, IInv, Next
    PROVE  QueuedHasPublisher'
<1>1. ScanStep
    BY ScansStep
<1>2. ASSUME NEW i \in DOMAIN scans', scans'[i].status = "queued", ~scans'[i].published, ~scans'[i].lost
      PROVE  HasPublisher(i)'
    <2>1. CASE i \notin DOMAIN scans
        BY <1>1, <2>1 DEF ScanStep
    <2>2. CASE i \in DOMAIN scans
        <3>1. scans[i].status = "queued" /\ ~scans[i].published /\ ~scans[i].lost
            BY <1>1, <1>2, <2>2 DEF ScanStep, ScansKept, KeptScan
        <3>2. HasPublisher(i)
            BY <2>2, <3>1 DEF IInv, QueuedHasPublisher, HasPublisher
        <3>3. ASSUME NEW d \in Dispatchers, i \in Unpublished(d) PROVE HasPublisher(i)'
            BY <1>2, <2>2, <3>3, DispatcherKeeps DEF HasPublisher
        <3>4. ASSUME NEW h \in Handlers, handler[h].pc \in {"inserted", "refused"}, handler[h].scan = i
              PROVE  HasPublisher(i)'
            BY <1>2, <2>2, <3>4, HandlerKeeps DEF HasPublisher
        <3>5. QED
            BY <3>2, <3>3, <3>4 DEF HasPublisher
    <2>3. QED
        BY <2>1, <2>2
<1>3. QED
    BY <1>2 DEF QueuedHasPublisher, HasPublisher
-----------------------------------------------------------------------------
(* The theorems.                                                            *)

LEMMA InitOK ==
    ASSUME ConstantsOK, Init
    PROVE  IInv
<1>0. now \in Moments /\ now \in Nat
    BY DEF Init, ConstantsOK
<1>1. \A t \in Domains, c \in Cadences :
         /\ Created(t, c) \in Row /\ Fits(Created(t, c)) /\ Healthy(Created(t, c))
    BY <1>0, CreatedType DEF ConstantsOK
<1>2. \A s \in Schedules : /\ schedules[s] = Unborn \/ schedules[s] \in Row
                           /\ Present(s) => Fits(schedules[s]) /\ Healthy(schedules[s])
    <2> HIDE DEF Fits, Healthy, Row
    <2>1. \A s \in Schedules :
             \/ schedules[s] = Unborn
             \/ schedules[s] \in Row /\ Fits(schedules[s]) /\ Healthy(schedules[s])
        BY <1>1 DEF Init
    <2>2. QED
        BY <2>1 DEF Present, Unborn
<1>3. TypeOK
    <2>1. schedules \in [Schedules -> Row \cup {Unborn, Gone}]
        BY <1>2 DEF Init
    <2>2. scans \in Seq(Scan)
        BY DEF Init
    <2>3. dispatcher \in [Dispatchers -> Dispatcher] /\ handler \in [Handlers -> Handler]
        BY DEF Init, Dispatcher, Handler
    <2>4. faults \in 0 .. MaxFaults /\ requests \in 0 .. MaxRequests
        BY DEF Init, ConstantsOK
    <2>5. authority \subseteq Domains /\ stale \in BOOLEAN
        <3>1. authority \in SUBSET Domains /\ stale = FALSE
            BY DEF Init
        <3>2. QED
            BY <3>1
    <2>6. QED
        BY <1>0, <2>1, <2>2, <2>3, <2>4, <2>5 DEF TypeOK
<1>4. DOMAIN scans = {}
    BY DEF Init
<1>5. /\ \A d \in Dispatchers : dispatcher[d] = Idle
      /\ \A h \in Handlers : handler[h] = Idle
    BY DEF Init
<1>6. BatchesOK /\ PublishingOK /\ RunsOK /\ NewRowsOK /\ EditsOK
    BY <1>5 DEF BatchesOK, PublishingOK, RunsOK, NewRowsOK, EditsOK, Batch, InTransaction, InPhaseTwo,
        Idle, HAt
<1>7. RowsOK /\ WindowsOK /\ OncePerWindow /\ QueuedHasPublisher
    BY <1>2, <1>4 DEF RowsOK, WindowsOK, OncePerWindow, QueuedHasPublisher
<1>8. QED
    BY <1>3, <1>6, <1>7 DEF IInv

LEMMA StepOK ==
    ASSUME ConstantsOK, IInv, [Next]_vars
    PROVE  IInv'
<1>1. CASE Next
    <2>1. scans' \in Seq(Scan)
        BY <1>1, ScansStep DEF ScanStep, ScansKept
    <2>2. TypeOK'
        BY <1>1, <2>1, DispatcherStep, HandlerStep, RestStep, SchedulesType DEF TypeOK
    <2>3. QED
        BY <1>1, <2>2, BatchesStep, PublishingStep, RunsStep, NewRowsStep, EditsStep, RowsOKStep,
           WindowsStep, OnceStep, PublisherStep DEF IInv
<1>2. CASE UNCHANGED vars
    <2> USE <1>2 DEF vars, IInv
    <2>1. TypeOK'
        BY DEF TypeOK
    <2>2. BatchesOK' /\ PublishingOK' /\ RunsOK'
        BY DEF BatchesOK, PublishingOK, RunsOK, Batch, Present, DAt
    <2>3. NewRowsOK' /\ EditsOK'
        BY DEF NewRowsOK, EditsOK, EditOK, Fits, Healthy, HAt
    <2>4. RowsOK' /\ WindowsOK' /\ OncePerWindow'
        BY DEF RowsOK, WindowsOK, OncePerWindow, Present, Fits, Healthy
    <2>5. QueuedHasPublisher'
        BY DEF QueuedHasPublisher, Unpublished
    <2>6. QED
        BY <2>1, <2>2, <2>3, <2>4, <2>5
<1>3. QED
    BY <1>1, <1>2

LEMMA Inductive == Spec => []IInv
<1>1. ConstantsOK
    BY ConstantsOK
<1>2. QED
    BY <1>1, InitOK, StepOK, PTL DEF Spec

\* Every variable keeps its type: in particular next_run_at is always an instant,
\* and a batch never holds a schedule twice.
THEOREM SchedulerTypes == Spec => []TypeOK
<1>1. IInv => TypeOK
    BY DEF IInv
<1>2. QED
    BY <1>1, Inductive, PTL

\* However many dispatchers, handlers and sweeps overlap, a window of a schedule is
\* fired at most once, as long as no UPDATE wrote from a row that had changed since
\* it was loaded (dispatch_due_scans: FOR UPDATE SKIP LOCKED, and the advance in
\* the transaction that inserts the scan).
THEOREM WindowFiredOnce == Spec => []OncePerWindow
<1>1. IInv => OncePerWindow
    BY DEF IInv
<1>2. QED
    BY <1>1, Inductive, PTL

\* A committed scan that no message carries has a process that will publish it or
\* write it off, unless that process died or raised (_publish, run_schedule_now).
THEOREM QueuedScanHasPublisher == Spec => []QueuedHasPublisher
<1>1. IInv => QueuedHasPublisher
    BY DEF IInv
<1>2. QED
    BY <1>1, Inductive, PTL

\* A schedule that is on has no reason to be off and is below the failure limit,
\* whichever of the dispatcher, update_schedule and the sweep wrote last.
THEOREM EnabledScheduleIsHealthy == Spec => []EnabledIsHealthy
<1>1. IInv => EnabledIsHealthy
    BY DEF IInv, RowsOK, EnabledIsHealthy, Healthy
<1>2. QED
    BY <1>1, Inductive, PTL

\* next_run_at is an instant of the cadence stored beside it, although the columns
\* of one row are written by different processes.
THEOREM NextRunFitsCadence == Spec => []NextFitsCadence
<1>1. IInv => NextFitsCadence
    BY DEF IInv, RowsOK, NextFitsCadence, Fits
<1>2. QED
    BY <1>1, Inductive, PTL
-----------------------------------------------------------------------------
(* The limit on concurrent scans.                                           *)

\* A tick queues no more scans than there is room for.
LEMMA QueuedFitRoom ==
    ASSUME ConstantsOK, NEW queued \in Batches, NEW batch \in Batches, NEW scope, NEW active \in Nat,
           Allowed(queued, batch, scope, active)
    PROVE  Len(queued) \in Nat /\ Len(queued) <= Room(active) /\ Room(active) \in Nat
<1> DEFINE eligible == {s \in ToSet(batch) : schedules[s].target \in scope}
<1>1. Room(active) \in Nat
    BY DEF Room, ConstantsOK
<1>2. eligible \subseteq Schedules
    BY BatchType
<1>3. Cardinality(eligible) \in Nat
    BY <1>2, FS_Subset, FS_CardinalityType DEF ConstantsOK
<1>4. Len(queued) = IF Cardinality(eligible) < Room(active) THEN Cardinality(eligible) ELSE Room(active)
    BY DEF Allowed
<1> HIDE DEF eligible
<1>5. QED
    BY <1>1, <1>3, <1>4

\* The active scans after a tick are those before it and the ones it queued.
LEMMA ActiveAfterTick ==
    ASSUME ConstantsOK, TypeOK, NEW queued \in Batches, scans' = scans \o NewScans(queued),
           \A i \in DOMAIN queued : schedules[queued[i]].next \in Nat
    PROVE  ActiveCount' <= ActiveCount + Len(queued) /\ ActiveCount' \in Nat
<1> DEFINE Q == {i \in DOMAIN scans : scans[i].status = "queued"}
           QAfter == {i \in DOMAIN scans' : scans'[i].status = "queued"}
           added == Len(scans) + 1 .. Len(scans) + Len(queued)
<1>1. Len(scans) \in Nat /\ Len(queued) \in Nat /\ DOMAIN queued = 1 .. Len(queued)
    BY LenProperties, BatchType DEF TypeOK
<1>2. QAfter \subseteq Q \cup added
    <2>1. /\ \A i \in DOMAIN scans : scans'[i] = scans[i]
          /\ \A i \in DOMAIN scans' \ DOMAIN scans : \E k \in DOMAIN queued : i = Len(scans) + k
        BY InsertKeeps
    <2>2. \A k \in DOMAIN queued : Len(scans) + k \in added
        BY <1>1
    <2>3. QED
        BY <2>1, <2>2
<1>3. IsFiniteSet(Q) /\ Cardinality(Q) \in Nat
    BY ActiveCountType, FS_CardinalityType DEF TypeOK
<1>4. IsFiniteSet(added) /\ Cardinality(added) = Len(queued)
    <2> DEFINE a == Len(scans) + 1
               b == Len(scans) + Len(queued)
    <2>1. a \in Int /\ b \in Int /\ b - a + 1 = Len(queued) /\ (a > b => Len(queued) = 0)
        BY <1>1
    <2> HIDE DEF a, b
    <2>2. IsFiniteSet(a .. b) /\ Cardinality(a .. b) = IF a > b THEN 0 ELSE b - a + 1
        BY <2>1, FS_Interval
    <2>3. QED
        BY <2>1, <2>2 DEF a, b
<1> HIDE DEF Q, QAfter, added
<1>5. /\ IsFiniteSet(Q \cup added) /\ Cardinality(Q \cap added) \in Nat
      /\ Cardinality(Q \cup added) = Cardinality(Q) + Cardinality(added) - Cardinality(Q \cap added)
    BY <1>3, <1>4, FS_Union, FS_Intersection, FS_CardinalityType
<1>6. IsFiniteSet(QAfter) /\ Cardinality(QAfter) <= Cardinality(Q \cup added) /\ Cardinality(QAfter) \in Nat
    BY <1>2, <1>5, FS_Subset, FS_CardinalityType
<1>7. ActiveCount = Cardinality(Q) /\ ActiveCount' = Cardinality(QAfter)
    BY DEF ActiveCount, Q, QAfter
<1>8. Cardinality(Q \cup added) \in Nat
    BY <1>5, FS_CardinalityType
<1>9. QED
    BY <1>1, <1>3, <1>4, <1>5, <1>6, <1>7, <1>8

LEMMA CapStep ==
    ASSUME ConstantsOK, IInv, [Next]_vars, NEW d \in Dispatchers,
           DAt(d, "decided"), dispatcher'[d] # dispatcher[d], ActiveCount <= dispatcher[d].active
    PROVE  ActiveCount' <= IF ActiveCount < MaxActive THEN MaxActive ELSE ActiveCount
<1>1. TypeOK /\ scans \in Seq(Scan) /\ ActiveCount \in Nat /\ MaxActive \in Nat
    BY ActiveCountType DEF IInv, TypeOK, ConstantsOK
<1>2. dispatcher[d].active \in Nat /\ dispatcher[d].batch \in Batches
    BY <1>1, DispatcherFields DEF DAt, InTransaction
<1>3. TickCommit(d) \/ DispatcherDies(d)
    <2>1. Next
        BY DEF vars
    <2>2. ~TickLock(d) /\ ~TickRead(d) /\ ~PhaseTwo(d)
        BY DEF DAt, TickLock, TickRead, PhaseTwo, Publish, RecordLoad, RecordCommit, RecordRaises
    <2>3. QED
        BY <1>1, <2>1, <2>2, DispatcherMoves DEF Tick
<1>4. CASE DispatcherDies(d)
    <2>1. /\ DOMAIN scans' = DOMAIN scans
          /\ \A i \in DOMAIN scans : scans'[i].status = scans[i].status
        BY <1>1, <1>4, LoseKeeps DEF DispatcherDies
    <2>2. ActiveCount' = ActiveCount
        BY <2>1 DEF ActiveCount
    <2>3. QED
        BY <1>1, <2>2
<1>5. CASE TickCommit(d)
    <2>1. PICK queued \in Batches :
             /\ Allowed(queued, dispatcher[d].batch, dispatcher[d].scope, dispatcher[d].active)
             /\ scans' = scans \o NewScans(queued)
        BY <1>5 DEF TickCommit
    <2>2. \A k \in DOMAIN queued : schedules[queued[k]].next \in Nat
        BY <1>5, <2>1, QueuedRows
    <2>3. ActiveCount' <= ActiveCount + Len(queued) /\ ActiveCount' \in Nat
        BY <1>1, <2>1, <2>2, ActiveAfterTick
    <2>4. Len(queued) \in Nat /\ Len(queued) <= Room(dispatcher[d].active)
        BY <1>2, <2>1, QueuedFitRoom
    <2>5. Room(dispatcher[d].active) =
             IF dispatcher[d].active < MaxActive THEN MaxActive - dispatcher[d].active ELSE 0
        BY DEF Room
    <2>6. QED
        BY <1>1, <1>2, <2>3, <2>4, <2>5
<1>6. QED
    BY <1>3, <1>4, <1>5

\* A tick whose count is not out of date does not take the organisation past its
\* limit: the scans it queues itself are counted (dispatch_due_scans: active += 1).
THEOREM TickKeepsWithinCap == Spec => TickRespectsCap
<1> DEFINE Kept ==
        \A d \in Dispatchers :
           DAt(d, "decided") /\ dispatcher'[d] # dispatcher[d] /\ ActiveCount <= dispatcher[d].active
              => ActiveCount' <= IF ActiveCount < MaxActive THEN MaxActive ELSE ActiveCount
<1>1. ConstantsOK
    BY ConstantsOK
<1>2. IInv /\ [Next]_vars => [Kept]_vars
    BY <1>1, CapStep
<1>3. QED
    BY <1>2, Inductive, PTL DEF Spec, TickRespectsCap
-----------------------------------------------------------------------------
(* The refinement of WindowBook.                                             *)

\* What WindowBook sees of the two tables.
LifeOf == [s \in Schedules |-> IF Present(s) THEN "kept" ELSE schedules[s].state]
NextOf == [s \in Schedules |-> IF Present(s) THEN schedules[s].next ELSE 0]
View(q) == [i \in DOMAIN q |-> [of |-> q[i].of, window |-> q[i].window]]
BookOf == View(scans)
Entries == [of: Schedules, window: Int]

SameWindow(s) ==
    /\ schedules'[s].state = schedules[s].state
    /\ Present(s) => schedules'[s].next = schedules[s].next

SameTable == ScansKept /\ DOMAIN scans' = DOMAIN scans

LEMMA SameBook == ASSUME SameTable PROVE BookOf' = BookOf
BY DEF SameTable, ScansKept, KeptScan, BookOf, View

LEMMA SameWindows ==
    ASSUME \A s \in Schedules : SameWindow(s)
    PROVE  LifeOf' = LifeOf /\ NextOf' = NextOf
BY DEF SameWindow, LifeOf, NextOf, Present

LEMMA NextOfType ==
    ASSUME TypeOK
    PROVE  NextOf \in [Schedules -> Nat] /\ \A s \in Schedules : schedules[s] \in Row => NextOf[s] = schedules[s].next
<1>1. \A s \in Schedules : Present(s) => schedules[s].next \in Nat
    BY PresentRow, RowFields
<1>2. QED
    BY <1>1, PresentRow DEF NextOf

\* The book is a sequence.
LEMMA BookType ==
    ASSUME NEW q \in Seq(Scan)
    PROVE  /\ View(q) \in Seq(Entries) /\ Len(View(q)) = Len(q)
           /\ DOMAIN q = 1 .. Len(q) /\ Len(q) \in Nat
           /\ \A i \in 1 .. Len(q) : View(q)[i] = [of |-> q[i].of, window |-> q[i].window]
<1>1. DOMAIN q = 1 .. Len(q) /\ Len(q) \in Nat
    BY LenProperties
<1>2. \A i \in DOMAIN q : q[i] \in Scan
    BY <1>1, ElementOfSeq
<1>3. \A i \in DOMAIN q : [of |-> q[i].of, window |-> q[i].window] \in Entries
    BY <1>2 DEF Entries, Scan, Manual
<1> HIDE DEF Entries
<1>4. /\ View(q) \in [1 .. Len(q) -> Entries]
      /\ \A i \in 1 .. Len(q) : View(q)[i] = [of |-> q[i].of, window |-> q[i].window]
    BY <1>1, <1>3 DEF View
<1>5. View(q) \in Seq(Entries)
    BY <1>1, <1>4, SeqDef
<1>6. DOMAIN View(q) = 1 .. Len(View(q)) /\ Len(View(q)) \in Nat
    BY <1>5, LenProperties
<1>7. Len(View(q)) = Len(q)
    BY <1>1, <1>4, <1>6
<1>8. QED
    BY <1>1, <1>4, <1>5, <1>7

\* A sequence that begins with one and ends with another is the two joined.
LEMMA JoinedIs ==
    ASSUME NEW S, NEW p \in Seq(S), NEW q \in Seq(S), NEW r \in Seq(S),
           Len(r) = Len(p) + Len(q),
           \A i \in 1 .. Len(p) : r[i] = p[i],
           \A k \in 1 .. Len(q) : r[Len(p) + k] = q[k]
    PROVE  r = p \o q
<1>1. Len(p) \in Nat /\ Len(q) \in Nat
    BY LenProperties
<1>2. /\ p \o q \in Seq(S) /\ Len(p \o q) = Len(p) + Len(q)
      /\ \A i \in 1 .. Len(p) + Len(q) : (p \o q)[i] = IF i <= Len(p) THEN p[i] ELSE q[i - Len(p)]
    BY ConcatProperties, Zenon
<1>3. ASSUME NEW i \in 1 .. Len(p) + Len(q) PROVE r[i] = (p \o q)[i]
    <2>1. CASE i <= Len(p)
        BY <1>1, <1>2, <1>3, <2>1
    <2>2. CASE ~(i <= Len(p))
        <3>1. i - Len(p) \in 1 .. Len(q) /\ Len(p) + (i - Len(p)) = i
            BY <1>1, <2>2
        <3>2. QED
            BY <1>2, <2>2, <3>1
    <2>3. QED
        BY <2>1, <2>2
<1>4. QED
    BY <1>2, <1>3, SeqEqual

\* The steps that change neither when a schedule runs next nor whether it exists.
LEMMA WindowsUnmoved ==
    ASSUME ConstantsOK, IInv, Next
    PROVE  \/ \A s \in Schedules : SameWindow(s)
           \/ \E d \in Dispatchers : TickCommit(d)
           \/ \E h \in Handlers : EditCommit(h) \/ \E s \in Schedules : CreateCommit(h, s)
           \/ \E s \in Schedules : Delete(s)
<1>1. CASE UNCHANGED schedules
    BY <1>1 DEF SameWindow
<1>2. ASSUME NEW d \in Dispatchers, RecordCommit(d), NEW s \in Schedules PROVE SameWindow(s)
    <2> DEFINE t == dispatcher[d]
               z == Head(t.pending).schedule
               new == Recorded(t.old, t.accepted)
    <2>1. CASE ~Writes(t)
        BY <1>2, <2>1 DEF RecordCommit, SameWindow
    <2>2. CASE Writes(t)
        <3>1. z \in Schedules
            BY <1>2, HeadType DEF RecordCommit, DAt, InPhaseTwo
        <3>2. t.old \in Row /\ t.accepted \in BOOLEAN
            BY <1>2, <2>2, DispatcherFields DEF RecordCommit, DAt, Writes, IInv
        <3>3. Present(z) /\ schedules' = [schedules EXCEPT ![z] = Merge(schedules[z], t.old, new)]
            BY <1>2, <2>2 DEF RecordCommit
        <3>4. new \in Row /\ new.next = t.old.next
            BY <3>2, RecordedType
        <3> HIDE DEF z, new, t
        <3>5. schedules[z] \in Row
            BY <3>1, <3>3, PresentRow DEF IInv
        <3>6. /\ Merge(schedules[z], t.old, new) \in Row
              /\ Merge(schedules[z], t.old, new).next = schedules[z].next
            BY <3>2, <3>4, <3>5, MergeType DEF Column
        <3>7. schedules'[z] = Merge(schedules[z], t.old, new) /\ (s # z => schedules'[s] = schedules[s])
            BY <3>1, <3>3 DEF IInv, TypeOK
        <3>8. schedules'[z].state = schedules[z].state
            BY <3>5, <3>6, <3>7 DEF Row
        <3>9. QED
            BY <3>6, <3>7, <3>8 DEF SameWindow
    <2>3. QED
        BY <2>1, <2>2
<1>3. ASSUME NEW h \in Handlers, RevokeCommit(h), NEW s \in Schedules PROVE SameWindow(s)
    <2> DEFINE loaded == handler[h].rows
               victims == {z \in Schedules : loaded[z] # Unborn}
    <2>1. CASE schedules' = schedules
        BY <2>1 DEF SameWindow
    <2>2. CASE /\ \A z \in victims : Present(z)
               /\ schedules' = [z \in Schedules |-> IF z \in victims
                                  THEN Merge(schedules[z], loaded[z], Disabled(loaded[z])) ELSE schedules[z]]
        <3>1. CASE s \notin victims
            BY <2>2, <3>1 DEF SameWindow
        <3>2. CASE s \in victims
            <4>1. loaded \in [Schedules -> Row \cup {Unborn}]
                BY <1>3, HandlerFields DEF RevokeCommit, IInv
            <4>2. schedules[s] \in Row /\ loaded[s] \in Row
                BY <2>2, <3>2, <4>1, PresentRow DEF IInv
            <4>3. Disabled(loaded[s]) \in Row /\ Disabled(loaded[s]).next = loaded[s].next
                BY <4>2, DisabledType
            <4>4. schedules'[s] = Merge(schedules[s], loaded[s], Disabled(loaded[s]))
                BY <2>2, <3>2
            <4>5. schedules'[s] \in Row /\ schedules'[s].next = schedules[s].next
                BY <4>2, <4>3, <4>4, MergeType DEF Column
            <4>6. QED
                BY <4>2, <4>5 DEF SameWindow, Row
        <3>3. QED
            BY <3>1, <3>2
    <2>3. QED
        BY <1>3, <2>1, <2>2 DEF RevokeCommit
<1>4. QED
    BY <1>1, <1>2, <1>3
       DEF Next, Tick, PhaseTwo, Request, TickLock, TickRead, Publish, RecordLoad,
        RecordRaises, DispatcherDies, CreateCheck, RunCheck, EditLoad,
        RunCommit, RunRefreshRaises, RunPublish, RunFails, RevokeLoad,
        HandlerDies, AuthorityChanges, ScanEnds, Clock

\* The steps that enter no scan.
LEMMA TableUnmoved ==
    ASSUME ConstantsOK, IInv, Next
    PROVE  \/ SameTable
           \/ \E d \in Dispatchers : TickCommit(d)
           \/ \E h \in Handlers : RunCommit(h)
<1>0. scans \in Seq(Scan)
    BY DEF IInv, TypeOK
<1>1. ASSUME UNCHANGED scans PROVE SameTable
    BY <1>0, <1>1 DEF SameTable, ScansKept, KeptScan
<1>2. ASSUME NEW k, NEW accepted \in BOOLEAN, Answer(k, accepted) PROVE SameTable
    BY <1>0, <1>2, AnswerKeeps DEF SameTable
<1>3. ASSUME NEW k, scans' = Fail(k) PROVE SameTable
    BY <1>0, <1>3, FailKeeps DEF SameTable
<1>4. ASSUME NEW ids, Lose(ids) PROVE SameTable
    BY <1>0, <1>4, LoseKeeps DEF SameTable
<1>5. ASSUME NEW d \in Dispatchers, PhaseTwo(d) \/ DispatcherDies(d) PROVE SameTable
    BY <1>1, <1>2, <1>3, <1>4, <1>5 DEF PhaseTwo, DispatcherDies, Publish, RecordLoad, RecordCommit, RecordRaises
<1>6. ASSUME NEW d \in Dispatchers, Tick(d) PROVE SameTable \/ TickCommit(d)
    BY <1>1, <1>6 DEF Tick, TickLock, TickRead
<1>7. ASSUME NEW h \in Handlers, Request(h) \/ HandlerDies(h) PROVE SameTable \/ RunCommit(h)
    BY <1>1, <1>2, <1>3, <1>4, <1>7
       DEF Request, HandlerDies, CreateCheck, CreateCommit, RunCheck, EditLoad, EditCommit,
        RunRefreshRaises, RunPublish, RunFails, RevokeLoad, RevokeCommit
<1>8. ASSUME NEW i \in DOMAIN scans, ScanEnds(i) PROVE SameTable
    BY <1>3, <1>8 DEF ScanEnds, Fail
<1>9. QED
    BY <1>1, <1>5, <1>6, <1>7, <1>8 DEF Next, Delete, AuthorityChanges, Clock

\* The commit of a tick: it moves the rows it locked on, and enters a scan for the
\* window of some of them.
LEMMA BookFires ==
    ASSUME ConstantsOK, IInv, NEW d \in Dispatchers, TickCommit(d)
    PROVE  Book!BookNext
<1>1. TypeOK /\ scans \in Seq(Scan) /\ now \in Nat
    BY ClockType DEF IInv, TypeOK
<1>2. UNCHANGED <<now, stale>>
    BY DEF TickCommit
<1>3. PICK batch \in SUBSET Schedules : batch = Batch(d)
    <2>1. dispatcher[d].batch \in Batches
        BY DispatcherFields DEF TickCommit, DAt, InTransaction, IInv
    <2>2. Batch(d) \subseteq Schedules
        BY <2>1, BatchType DEF Batch
    <2>3. QED
        BY <2>2
<1>4. ASSUME NEW s \in batch
      PROVE  /\ schedules[s] \in Row /\ schedules'[s] \in Row
             /\ schedules[s].next \in Nat /\ schedules'[s].next \in Nat
             /\ schedules[s].next <= now /\ schedules'[s].next > schedules[s].next
    <2>1. IsAdvanced(s, d) /\ s \in Schedules
        BY <1>3, TickWrites
    <2>2. schedules[s] \in Row /\ schedules'[s] \in Row
        BY <1>1, <2>1, PresentRow DEF IsAdvanced
    <2>3. /\ dispatcher[d].moment \in Nat /\ dispatcher[d].moment <= now
          /\ schedules[s].next <= dispatcher[d].moment /\ schedules'[s].next > dispatcher[d].moment
        BY <1>3, <2>1, DispatcherFields
           DEF IsAdvanced, TickCommit, DAt, InTransaction, IInv, BatchesOK
    <2>4. schedules[s].next \in Nat /\ schedules'[s].next \in Nat
        BY <2>2, RowFields
    <2>5. QED
        BY <1>1, <2>2, <2>3, <2>4
<1>5. \A s \in Schedules \ batch : schedules'[s] = schedules[s]
    BY <1>3, TickWrites DEF Unchanged
<1>6. /\ LifeOf' = LifeOf
      /\ \A s \in batch : LifeOf[s] = "kept" /\ NextOf[s] = schedules[s].next /\ NextOf'[s] = schedules'[s].next
      /\ \A s \in Schedules \ batch : NextOf'[s] = NextOf[s]
    <2>1. \A s \in batch : schedules[s].state = "present" /\ schedules'[s].state = "present"
        BY <1>4 DEF Row
    <2>2. QED
        BY <1>5, <2>1 DEF LifeOf, NextOf, Present
<1>7. NextOf \in [Schedules -> Nat] /\ NextOf' \in [Schedules -> Nat]
    <2>1. NextOf \in [Schedules -> Nat]
        BY <1>1, NextOfType
    <2>2. \A s \in Schedules : NextOf'[s] \in Nat
        BY <1>4, <1>6, <2>1
    <2>3. QED
        BY <2>1, <2>2 DEF NextOf
<1>8. batch \subseteq Book!Due
    BY <1>4, <1>6 DEF Book!Due, Book!Kept, LifeOf, NextOf
<1>9. PICK queued \in Batches :
         /\ Allowed(queued, dispatcher[d].batch, dispatcher[d].scope, dispatcher[d].active)
         /\ scans' = scans \o NewScans(queued)
    BY DEF TickCommit
<1>10. \A k \in DOMAIN queued : queued[k] \in batch /\ schedules[queued[k]].next \in Nat
    BY <1>3, <1>4, <1>9, QueuedRows DEF IsAdvanced
<1>11. queued \in Book!Orders(batch)
    <2>1. Cardinality(Schedules) \in Nat
        BY FS_CardinalityType DEF ConstantsOK
    <2>2. PICK m \in 0 .. Cardinality(Schedules) : queued \in [1 .. m -> Schedules]
        BY <2>1 DEF Batches, BoundedSeq, SeqOf
    <2>3. queued \in [1 .. m -> batch] /\ \A i, j \in 1 .. m : queued[i] = queued[j] => i = j
        BY <1>10, <2>2, BatchType
    <2>4. QED
        BY <2>3 DEF Book!Orders
<1> DEFINE added == [i \in DOMAIN queued |-> [of |-> queued[i], window |-> NextOf[queued[i]]]]
<1>12. BookOf' = BookOf \o added
    <2>1. DOMAIN queued = 1 .. Len(queued) /\ Len(queued) \in Nat
        BY BatchType
    <2>2. /\ added \in Seq(Entries) /\ Len(added) = Len(queued)
          /\ \A k \in 1 .. Len(queued) : added[k] = [of |-> queued[k], window |-> schedules[queued[k]].next]
        <3>1. \A k \in 1 .. Len(queued) : [of |-> queued[k], window |-> NextOf[queued[k]]] \in Entries
            BY <1>6, <1>10, <2>1 DEF Entries
        <3> HIDE DEF Entries
        <3>2. added \in [1 .. Len(queued) -> Entries]
            BY <2>1, <3>1
        <3>3. added \in Seq(Entries)
            BY <2>1, <3>2, SeqDef
        <3>4. Len(added) = Len(queued)
            BY <2>1, <3>2, <3>3, LenProperties
        <3>5. \A k \in 1 .. Len(queued) : NextOf[queued[k]] = schedules[queued[k]].next
            BY <1>6, <1>10, <2>1
        <3>6. QED
            BY <2>1, <3>3, <3>4, <3>5
    <2> HIDE DEF added
    <2>3. /\ scans' \in Seq(Scan)
          /\ \A i \in DOMAIN scans : scans'[i] = scans[i]
          /\ DOMAIN scans \subseteq DOMAIN scans'
          /\ \A k \in DOMAIN queued : Len(scans) + k \in DOMAIN scans' \ DOMAIN scans
          /\ \A i \in DOMAIN scans' \ DOMAIN scans :
                \E k \in DOMAIN queued :
                   i = Len(scans) + k /\ scans'[i] = NewScan(queued[k], schedules[queued[k]].next)
        BY <1>1, <1>9, <1>10, InsertKeeps DEF ScansKept
    <2>4. /\ BookOf \in Seq(Entries) /\ Len(BookOf) = Len(scans) /\ Len(scans) \in Nat
          /\ DOMAIN scans = 1 .. Len(scans)
          /\ \A i \in 1 .. Len(scans) : BookOf[i] = [of |-> scans[i].of, window |-> scans[i].window]
        BY <1>1, BookType DEF BookOf
    <2>5. /\ BookOf' \in Seq(Entries) /\ Len(BookOf') = Len(scans') /\ Len(scans') \in Nat
          /\ DOMAIN scans' = 1 .. Len(scans')
          /\ \A i \in 1 .. Len(scans') : BookOf'[i] = [of |-> scans'[i].of, window |-> scans'[i].window]
        BY <2>3, BookType DEF BookOf
    <2>6. ASSUME NEW k \in DOMAIN queued
          PROVE  /\ Len(scans) + k \in DOMAIN scans'
                 /\ scans'[Len(scans) + k] = NewScan(queued[k], schedules[queued[k]].next)
        <3>1. Len(scans) + k \in DOMAIN scans' \ DOMAIN scans
            BY <2>3
        <3>2. PICK j \in DOMAIN queued : /\ Len(scans) + k = Len(scans) + j
                                         /\ scans'[Len(scans) + k] = NewScan(queued[j], schedules[queued[j]].next)
            BY <2>3, <3>1
        <3>3. j = k
            BY <2>1, <2>4, <3>2
        <3>4. QED
            BY <3>1, <3>2, <3>3
    <2>7. Len(scans') = Len(scans) + Len(queued)
        <3>1. Len(scans') <= Len(scans) + Len(queued)
            <4>1. CASE Len(scans') <= Len(scans)
                BY <2>1, <2>4, <2>5, <4>1
            <4>2. CASE ~(Len(scans') <= Len(scans))
                <5>1. Len(scans') \in DOMAIN scans' \ DOMAIN scans
                    BY <2>4, <2>5, <4>2
                <5>2. PICK k \in DOMAIN queued : Len(scans') = Len(scans) + k
                    BY <2>3, <5>1
                <5>3. QED
                    BY <2>1, <2>4, <2>5, <5>2
            <4>3. QED
                BY <4>1, <4>2
        <3>2. Len(scans) + Len(queued) <= Len(scans')
            <4>1. CASE Len(queued) = 0
                <5>1. Len(scans) = 0 \/ Len(scans) \in DOMAIN scans'
                    BY <2>3, <2>4
                <5>2. QED
                    BY <2>4, <2>5, <4>1, <5>1
            <4>2. CASE Len(queued) # 0
                <5>1. Len(queued) \in DOMAIN queued
                    BY <2>1, <4>2
                <5>2. Len(scans) + Len(queued) \in 1 .. Len(scans')
                    BY <2>5, <2>6, <5>1
                <5>3. QED
                    BY <2>1, <2>4, <2>5, <5>2
            <4>3. QED
                BY <4>1, <4>2
        <3>3. QED
            BY <2>1, <2>4, <2>5, <3>1, <3>2
    <2>8. \A i \in 1 .. Len(BookOf) : BookOf'[i] = BookOf[i]
        BY <2>3, <2>4, <2>5
    <2>9. ASSUME NEW k \in 1 .. Len(added)
          PROVE  BookOf'[Len(BookOf) + k] = added[k]
        <3>1. k \in DOMAIN queued /\ Len(scans) + k \in 1 .. Len(scans')
            BY <2>1, <2>2, <2>5, <2>6
        <3>2. /\ scans'[Len(scans) + k].of = queued[k]
              /\ scans'[Len(scans) + k].window = schedules[queued[k]].next
            <4>1. scans'[Len(scans) + k] = NewScan(queued[k], schedules[queued[k]].next)
                BY <2>6, <3>1
            <4>2. QED
                BY <4>1 DEF NewScan
        <3>3. BookOf'[Len(scans) + k] = [of |-> queued[k], window |-> schedules[queued[k]].next]
            BY <2>5, <3>1, <3>2
        <3>4. QED
            BY <2>1, <2>2, <2>4, <3>1, <3>3
    <2> HIDE DEF BookOf, Entries
    <2>10. Len(BookOf') = Len(BookOf) + Len(added)
        BY <2>2, <2>4, <2>5, <2>7
    <2>11. QED
        BY <2>2, <2>4, <2>5, <2>8, <2>9, <2>10, JoinedIs
<1>13. Book!Fire(batch)
    <2>1. added = [i \in DOMAIN queued |-> Book!Entry(queued[i], NextOf[queued[i]])]
        BY DEF Book!Entry
    <2> HIDE DEF added
    <2>2. \A s \in Schedules : IF s \in batch THEN NextOf'[s] > NextOf[s] ELSE NextOf'[s] = NextOf[s]
        BY <1>4, <1>6
    <2>3. QED
        BY <1>2, <1>6, <1>7, <1>8, <1>11, <1>12, <2>1, <2>2 DEF Book!Fire, LifeOf, NextOf, BookOf, View
<1>14. QED
    BY <1>13 DEF Book!BookNext

\* A scan that a user asks for.
LEMMA BookRuns ==
    ASSUME ConstantsOK, IInv, NEW h \in Handlers, RunCommit(h), ~SameTable
    PROVE  Book!BookNext
<1> DEFINE s == handler[h].schedule
<1>1. TypeOK /\ scans \in Seq(Scan) /\ s \in Schedules
    BY HandlerFields DEF IInv, TypeOK, RunCommit, HAt
<1>2. CASE ~Present(s)
    BY <1>1, <1>2 DEF RunCommit, SameTable, ScansKept, KeptScan
<1>3. CASE Present(s)
    <2>1. /\ scans' = Append(scans, NewScan(s, Manual))
          /\ UNCHANGED <<now, schedules, stale>>
        BY <1>3 DEF RunCommit
    <2>2. PICK z \in Schedules : z = s
        BY <1>1
    <2>3. BookOf' = Append(BookOf, [of |-> z, window |-> Manual])
        <3> DEFINE e == [of |-> z, window |-> Manual]
        <3>1. NewScan(s, Manual) \in Scan /\ NewScan(s, Manual).of = z /\ NewScan(s, Manual).window = Manual
            BY <1>1, <2>2 DEF NewScan, Scan
        <3>2. e \in Entries
            BY <1>1 DEF Entries, Manual
        <3> HIDE DEF Scan, Entries, NewScan
        <3>3. /\ BookOf \in Seq(Entries) /\ Len(BookOf) = Len(scans) /\ Len(scans) \in Nat
              /\ \A i \in 1 .. Len(scans) : BookOf[i] = [of |-> scans[i].of, window |-> scans[i].window]
            BY <1>1, BookType DEF BookOf
        <3>4. /\ scans' \in Seq(Scan) /\ Len(scans') = Len(scans) + 1
              /\ \A i \in 1 .. Len(scans) : scans'[i] = scans[i]
              /\ scans'[Len(scans) + 1] = NewScan(s, Manual)
            BY <1>1, <2>1, <3>1, <3>3
        <3>5. /\ BookOf' \in Seq(Entries) /\ Len(BookOf') = Len(scans')
              /\ \A i \in 1 .. Len(scans') : BookOf'[i] = [of |-> scans'[i].of, window |-> scans'[i].window]
            BY <3>4, BookType DEF BookOf
        <3>6. /\ \A i \in 1 .. Len(scans) : BookOf'[i] = BookOf[i]
              /\ BookOf'[Len(scans) + 1] = e
            BY <3>1, <3>3, <3>4, <3>5
        <3> HIDE DEF e, BookOf
        <3>7. /\ Append(BookOf, e) \in Seq(Entries) /\ Len(Append(BookOf, e)) = Len(scans) + 1
              /\ \A i \in 1 .. Len(scans) : Append(BookOf, e)[i] = BookOf[i]
              /\ Append(BookOf, e)[Len(scans) + 1] = e
            BY <3>2, <3>3
        <3>8. \A i \in 1 .. Len(scans) + 1 : BookOf'[i] = Append(BookOf, e)[i]
            BY <3>3, <3>6, <3>7
        <3>9. BookOf' = Append(BookOf, e)
            BY <3>3, <3>4, <3>5, <3>7, <3>8, SeqEqual
        <3>10. QED
            BY <3>9 DEF e
    <2>4. LifeOf' = LifeOf /\ NextOf' = NextOf
        BY <2>1 DEF LifeOf, NextOf, Present
    <2>5. z \in Book!Kept
        BY <1>3, <2>2 DEF Book!Kept
    <2>6. Book!RunNow(z)
        BY <2>1, <2>3, <2>4, <2>5 DEF Book!RunNow, Book!Entry, LifeOf, NextOf, BookOf, View
    <2>7. QED
        BY <2>6 DEF Book!BookNext
<1>4. QED
    BY <1>2, <1>3

\* A schedule that is created or deleted.
LEMMA BookBegins ==
    ASSUME ConstantsOK, IInv, NEW h \in Handlers, NEW s \in Schedules, CreateCommit(h, s)
    PROVE  Book!BookNext
<1>1. /\ schedules[s] = Unborn /\ schedules' = [schedules EXCEPT ![s] = handler[h].row]
      /\ UNCHANGED <<now, scans, stale>>
    BY DEF CreateCommit
<1>2. TypeOK /\ handler[h].row \in Row /\ handler[h].row.next \in Nat /\ handler[h].row.state = "present"
    BY HandlerFields, RowFields DEF CreateCommit, IInv, Row
<1>3. schedules'[s] = handler[h].row /\ \A r \in Schedules \ {s} : schedules'[r] = schedules[r]
    BY <1>1, <1>2 DEF TypeOK
<1>4. LifeOf[s] = "unborn" /\ LifeOf' = [LifeOf EXCEPT ![s] = "kept"]
    <2>1. LifeOf[s] = "unborn"
        BY <1>1 DEF LifeOf, Present, Unborn
    <2>2. LifeOf'[s] = "kept" /\ \A r \in Schedules \ {s} : LifeOf'[r] = LifeOf[r]
        BY <1>2, <1>3 DEF LifeOf, Present
    <2>3. QED
        BY <2>1, <2>2 DEF LifeOf
<1>5. NextOf' \in [Schedules -> Nat] /\ \A r \in Schedules \ {s} : NextOf'[r] = NextOf[r]
    <2>1. NextOf \in [Schedules -> Nat]
        BY <1>2, NextOfType
    <2>2. NextOf'[s] = handler[h].row.next /\ \A r \in Schedules \ {s} : NextOf'[r] = NextOf[r]
        BY <1>2, <1>3 DEF NextOf, Present
    <2>3. \A r \in Schedules : NextOf'[r] \in Nat
        BY <1>2, <2>1, <2>2
    <2>4. QED
        BY <2>2, <2>3 DEF NextOf
<1>6. BookOf' = BookOf
    BY <1>1 DEF BookOf
<1>7. Book!Begin(s)
    BY <1>1, <1>4, <1>5, <1>6 DEF Book!Begin, LifeOf, NextOf, BookOf, View
<1>8. QED
    BY <1>7 DEF Book!BookNext

LEMMA BookEnds ==
    ASSUME ConstantsOK, IInv, NEW s \in Schedules, Delete(s)
    PROVE  Book!BookNext
<1>1. /\ Present(s) /\ schedules' = [schedules EXCEPT ![s] = Gone]
      /\ UNCHANGED <<now, scans, stale>>
    BY DEF Delete
<1>2. schedules'[s] = Gone /\ \A r \in Schedules \ {s} : schedules'[r] = schedules[r]
    BY <1>1 DEF IInv, TypeOK
<1>3. LifeOf' = [LifeOf EXCEPT ![s] = "gone"]
    <2>1. LifeOf'[s] = "gone" /\ \A r \in Schedules \ {s} : LifeOf'[r] = LifeOf[r]
        BY <1>2 DEF LifeOf, Present, Gone
    <2>2. QED
        BY <2>1 DEF LifeOf
<1>4. NextOf' = [NextOf EXCEPT ![s] = 0]
    <2>1. NextOf'[s] = 0 /\ \A r \in Schedules \ {s} : NextOf'[r] = NextOf[r]
        BY <1>2 DEF NextOf, Present, Gone
    <2>2. QED
        BY <2>1 DEF NextOf
<1>5. BookOf' = BookOf
    BY <1>1 DEF BookOf
<1>6. s \in Book!Kept
    BY <1>1 DEF Book!Kept
<1>7. Book!End(s)
    BY <1>1, <1>3, <1>4, <1>5, <1>6 DEF Book!End, LifeOf, NextOf, BookOf, View
<1>8. QED
    BY <1>7 DEF Book!BookNext

\* An edit: the instant it computed lies after every window fired before it loaded
\* the row, and unless the row has changed since, there is no other.
LEMMA BookEdits ==
    ASSUME ConstantsOK, IInv, NEW h \in Handlers, EditCommit(h), ~\A s \in Schedules : SameWindow(s)
    PROVE  Book!BookNext
<1> DEFINE e == handler[h]
           z == e.schedule
<1>0. /\ TypeOK /\ scans \in Seq(Scan)
      /\ HAt(h, "editing") /\ z \in Schedules /\ e.old \in Row /\ e.new \in Row /\ e.seen \in Nat
      /\ EditOK(e)
    BY HandlerFields DEF EditCommit, EditsOK, IInv, TypeOK
<1>1. CASE ~Present(z)
    BY <1>1 DEF EditCommit, SameWindow
<1>2. CASE Present(z)
    <2>1. /\ schedules' = [schedules EXCEPT ![z] = Merge(schedules[z], e.old, e.new)]
          /\ Notice(schedules[z] # e.old \/ \E i \in DOMAIN scans : e.seen < i /\ scans[i].of = z)
          /\ UNCHANGED <<now, scans>>
        BY <1>2 DEF EditCommit
    <2>2. schedules[z] \in Row
        BY <1>0, <1>2, PresentRow
    <2>3. /\ schedules'[z] = Merge(schedules[z], e.old, e.new)
          /\ \A r \in Schedules \ {z} : schedules'[r] = schedules[r]
        BY <1>0, <2>1 DEF TypeOK
    <2>4. schedules'[z] \in Row /\ schedules'[z].next \in Nat
        BY <1>0, <2>2, <2>3, MergeType, RowFields
    <2>5. ~stale' => schedules'[z].next = e.new.next
        <3>1. ~stale' => schedules[z] = e.old
            BY <2>1 DEF Notice
        <3>2. QED
            BY <1>0, <2>3, <3>1, MergeFresh
    <2>6. ~stale' => \A i \in DOMAIN scans : scans[i].of = z => scans[i].window < e.new.next
        <3>1. \A i \in DOMAIN scans : i \in Nat /\ 1 <= i
            BY <1>0, LenProperties
        <3>2. ~stale' => ~\E i \in DOMAIN scans : e.seen < i /\ scans[i].of = z
            BY <2>1, Zenon DEF Notice
        <3>3. ~stale' => \A i \in DOMAIN scans : scans[i].of = z => i \in 1 .. e.seen
            <4> HIDE DEF e, z
            <4>1. QED
                BY <1>0, <3>1, <3>2
        <3>4. QED
            BY <1>0, <3>3 DEF EditOK
    <2>7. PICK y \in Schedules : y = z
        BY <1>0
    <2> HIDE DEF e, z
    <2>8. LifeOf' = LifeOf
        <3>1. schedules[z].state = "present" /\ schedules'[z].state = "present"
            BY <2>2, <2>4 DEF Row
        <3>2. QED
            BY <2>3, <3>1 DEF LifeOf, Present
    <2>9. /\ NextOf' \in [Schedules -> Nat] /\ NextOf'[y] = schedules'[z].next
          /\ \A r \in Schedules \ {y} : NextOf'[r] = NextOf[r]
        <3>1. schedules'[z].state = "present"
            BY <2>4 DEF Row
        <3>2. NextOf'[y] = schedules'[z].next /\ \A r \in Schedules \ {y} : NextOf'[r] = NextOf[r]
            BY <2>3, <2>7, <3>1 DEF NextOf, Present
        <3>3. \A r \in Schedules : NextOf'[r] \in Nat
            BY <1>0, <2>4, <2>7, <3>2, NextOfType
        <3>4. QED
            BY <3>2, <3>3 DEF NextOf
    <2>10. BookOf' = BookOf
        BY <2>1 DEF BookOf
    <2>11. stale => stale'
        BY <2>1 DEF Notice
    <2>12. ~stale' => \A i \in DOMAIN BookOf : BookOf[i].of = y => BookOf[i].window < NextOf'[y]
        <3>1. DOMAIN BookOf = DOMAIN scans
              /\ \A i \in DOMAIN scans : BookOf[i].of = scans[i].of /\ BookOf[i].window = scans[i].window
            BY DEF BookOf, View
        <3>2. QED
            BY <2>5, <2>6, <2>7, <2>9, <3>1
    <2>13. y \in Book!Kept
        BY <1>2, <2>7 DEF Book!Kept
    <2>14. Book!Edit(y)
        <3>1. ~stale' => Book!Fresh(y, NextOf'[y])
            BY <2>12 DEF Book!Fresh, BookOf, View
        <3>2. QED
            BY <2>1, <2>8, <2>9, <2>10, <2>11, <2>13, <3>1 DEF Book!Edit, LifeOf, NextOf, BookOf, View
    <2>15. QED
        BY <2>14 DEF Book!BookNext
<1>3. QED
    BY <1>1, <1>2

LEMMA BookStepOK ==
    ASSUME ConstantsOK, IInv, [Next]_vars
    PROVE  [Book!BookNext]_Book!bookVars
<1>1. CASE UNCHANGED vars
    BY <1>1 DEF vars, Book!bookVars, Present
<1>2. CASE Next /\ ~SameTable
    BY <1>2, TableUnmoved, BookFires, BookRuns
<1>3. CASE Next /\ ~\A s \in Schedules : SameWindow(s)
    BY <1>3, WindowsUnmoved, BookFires, BookEdits, BookBegins, BookEnds
<1>4. CASE Next /\ SameTable /\ \A s \in Schedules : SameWindow(s)
    <2>1. LifeOf' = LifeOf /\ NextOf' = NextOf /\ BookOf' = BookOf
        BY <1>4, SameBook, SameWindows
    <2>2. /\ now \in Nat /\ now' \in Nat /\ now <= now'
          /\ stale \in BOOLEAN /\ stale' \in BOOLEAN /\ (stale => stale')
        BY <1>4, ClockType, RestStep DEF IInv, TypeOK, ConstantsOK
    <2>3. CASE UNCHANGED <<now, stale>>
        BY <2>1, <2>3 DEF Book!bookVars, LifeOf, NextOf, BookOf, View
    <2>4. CASE now' = now /\ stale' # stale
        <3>1. stale' = TRUE
            BY <2>2, <2>4
        <3>2. Book!Dispute
            BY <2>1, <2>4, <3>1 DEF Book!Dispute, LifeOf, NextOf, BookOf, View
        <3>3. QED
            BY <3>2 DEF Book!BookNext
    <2>5. CASE now' # now
        <3>1. Clock
            BY <1>4, <2>5 DEF Next, Tick, PhaseTwo, Request, TickLock, TickRead, TickCommit, Publish,
                RecordLoad, RecordCommit, RecordRaises, DispatcherDies, CreateCheck, CreateCommit, RunCheck,
                EditLoad, EditCommit, RunCommit, RunRefreshRaises, RunPublish, RunFails, RevokeLoad,
                RevokeCommit, HandlerDies, Delete, AuthorityChanges, ScanEnds
        <3>2. stale' = stale /\ now < now'
            BY <2>2, <2>5, <3>1 DEF Clock
        <3>3. Book!TimePasses
            BY <2>1, <2>2, <3>2 DEF Book!TimePasses, LifeOf, NextOf, BookOf, View
        <3>4. QED
            BY <3>3 DEF Book!BookNext
    <2>6. QED
        BY <2>3, <2>4, <2>5
<1>5. QED
    BY <1>1, <1>2, <1>3, <1>4

LEMMA BookInitOK == ConstantsOK /\ Init => Book!BookInit
<1> SUFFICES ASSUME ConstantsOK, Init
             PROVE  Book!BookInit
    OBVIOUS
<1>1. TypeOK /\ now \in Nat
    BY InitOK, ClockType DEF IInv
<1>2. LifeOf \in [Schedules -> {"unborn", "kept"}]
    <2>1. \A s \in Schedules : schedules[s] = Unborn \/ Present(s)
        BY DEF Init, Created, Present
    <2>2. QED
        BY <2>1 DEF LifeOf, Present, Unborn
<1>3. NextOf \in [Schedules -> Nat] /\ \A s \in Schedules : LifeOf[s] = "unborn" => NextOf[s] = 0
    BY <1>1, NextOfType DEF LifeOf, NextOf
<1>4. BookOf = <<>>
    BY DEF Init, BookOf, View
<1>5. QED
    BY <1>1, <1>2, <1>3, <1>4 DEF Book!BookInit, Init, LifeOf, NextOf, BookOf, View

\* Whatever dispatchers, users and the sweep do at the same time, the scans that are
\* entered are what WindowBook says: each for a window that has arrived, in the
\* step that moves the schedule on (workers/scheduler.py, phase one).
THEOREM SchedulerIsWindowBook == Spec => ImplementsWindowBook
<1>1. ConstantsOK
    BY ConstantsOK
<1>2. Init => Book!BookInit
    BY <1>1, BookInitOK
<1>3. IInv /\ [Next]_vars => [Book!BookNext]_Book!bookVars
    BY <1>1, BookStepOK
<1>4. QED
    BY <1>2, <1>3, Inductive, PTL DEF Spec, ImplementsWindowBook, Book!BookSpec
=============================================================================
