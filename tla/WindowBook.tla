----------------------------- MODULE WindowBook -----------------------------
(***************************************************************************)
(* What the scheduler promises, without its dispatchers, locks and         *)
(* handlers: a book in which a scan is entered for a window of a schedule  *)
(* only once that window has arrived, and in the same step the schedule    *)
(* moves on to a later one.  A window may be passed over; it is not kept   *)
(* for later.                                                              *)
(*                                                                         *)
(* Scheduler implements this (ImplementsWindowBook).                       *)
(***************************************************************************)
EXTENDS Naturals, Sequences

CONSTANTS
    Schedules,
    MaxBatch,  \* the most scans that are entered in one step
    Manual     \* stands for the window of a scan that a user asked for

VARIABLES
    clock,
    life,      \* of each schedule: unborn, kept or gone
    next,      \* of a schedule that is kept: its window to come, otherwise 0
    book,      \* the scans that were entered, in order
    disputed   \* two writers have edited one schedule at the same time

bookVars == <<clock, life, next, book, disputed>>

Kept == {s \in Schedules : life[s] = "kept"}
Due  == {s \in Kept : next[s] <= clock}

\* w is later than every window that was entered for s.
Fresh(s, w) == \A i \in DOMAIN book : book[i].of = s => book[i].window < w

Entry(s, w) == [of |-> s, window |-> w]

\* The orders in which schedules can be entered, each at most once.
Orders(S) == UNION {{q \in [1 .. k -> S] : \A i, j \in 1 .. k : q[i] = q[j] => i = j} : k \in 0 .. MaxBatch}

BookInit ==
    /\ clock \in Nat
    /\ life \in [Schedules -> {"unborn", "kept"}]
    /\ next \in [Schedules -> Nat] /\ \A s \in Schedules : life[s] = "unborn" => next[s] = 0
    /\ book = <<>>
    /\ disputed = FALSE

\* A schedule is created, and begins without a history.
Begin(s) ==
    /\ life[s] = "unborn"
    /\ life' = [life EXCEPT ![s] = "kept"]
    /\ next' \in [Schedules -> Nat] /\ \A r \in Schedules \ {s} : next'[r] = next[r]
    /\ UNCHANGED <<clock, book, disputed>>

\* It is given another window, one that it has not passed.  Of two edits that
\* overlap the second may write what it likes.
Edit(s) ==
    /\ s \in Kept
    /\ next' \in [Schedules -> Nat] /\ \A r \in Schedules \ {s} : next'[r] = next[r]
    /\ disputed => disputed'
    /\ ~disputed' => Fresh(s, next'[s])
    /\ UNCHANGED <<clock, life, book>>

\* It is deleted, for good.
End(s) ==
    /\ s \in Kept
    /\ life' = [life EXCEPT ![s] = "gone"]
    /\ next' = [next EXCEPT ![s] = 0]
    /\ UNCHANGED <<clock, book, disputed>>

\* Some schedules that are due move on, and for some of them, each once, a scan is
\* entered for the window they leave.
Fire(batch) ==
    /\ batch \subseteq Due
    /\ \E q \in Orders(batch) : book' = book \o [i \in DOMAIN q |-> Entry(q[i], next[q[i]])]
    /\ next' \in [Schedules -> Nat]
    /\ \A s \in Schedules : IF s \in batch THEN next'[s] > next[s] ELSE next'[s] = next[s]
    /\ UNCHANGED <<clock, life, disputed>>

\* A user asks for a scan.
RunNow(s) ==
    /\ s \in Kept
    /\ book' = Append(book, Entry(s, Manual))
    /\ UNCHANGED <<clock, life, next, disputed>>

TimePasses ==
    /\ clock' \in Nat /\ clock < clock'
    /\ UNCHANGED <<life, next, book, disputed>>

\* A write finds the row changed, although it leaves the window alone.
Dispute ==
    /\ disputed' = TRUE
    /\ UNCHANGED <<clock, life, next, book>>

BookNext ==
    \/ \E s \in Schedules : Begin(s) \/ Edit(s) \/ End(s) \/ RunNow(s)
    \/ \E batch \in SUBSET Schedules : Fire(batch)
    \/ TimePasses \/ Dispute

BookSpec == BookInit /\ [][BookNext]_bookVars
=============================================================================
