---------------------------- MODULE Access_proofs ----------------------------
(***************************************************************************)
(* Proofs about who may use the API: Sessions, for any number of rows,     *)
(* password changes and handlers, RateLimit, for any number of callers,    *)
(* any limits and any bound on the mishaps, and TokenClient, for any       *)
(* number of tokens, pages and requests.                                   *)
(*                                                                         *)
(* That a family has one live row rests on the row lock of a refresh: what *)
(* it judged to be live is live when it rotates, because nobody else can   *)
(* revoke a row it has locked.  The rest is what a handler read, and what  *)
(* can have become of it since.  Every step that ends a refresh is then a  *)
(* rotation or a revocation of TokenChain, made at once.                   *)
(*                                                                         *)
(* The two properties of the limiter are inductive once they are stated    *)
(* together with the types.  What each step does to them is arithmetic on  *)
(* the number of callers who are still to check, and on whether somebody   *)
(* who was the first to count is still to set the expiry (CallerStep).     *)
(*                                                                         *)
(* A page presents the token it finds stored.  That this one was not       *)
(* exchanged follows from where an answer can be: with the page that       *)
(* waits for it, known to nobody else, until it replaces the stored pair.  *)
(***************************************************************************)
EXTENDS Sessions, RateLimit, TokenClient, FiniteSetTheorems, WellFoundedInduction, TLAPS

(* Sessions.                                                                 *)

\* Ids are given out in order, and a family is named by a row that has one.
BornOK ==
    /\ \E n \in 0 .. MaxSessions : Born = 1 .. n
    /\ \A s \in Born : sess[s].family \in Born
    /\ reused \subseteq Born

\* What a handler holds are rows that exist.
RowsHeldOK ==
    \A h \in Handlers :
        /\ handler[h].pc \in RefreshPCs => handler[h].row \in Born /\ handler[h].rows \subseteq Born
        /\ HandlerAt(h, "leaving") => handler[h].row \in Born
        /\ handler[h].pc \in {"loaded", "selected"} => handler[h].rows \subseteq Born

\* The lock: a row is locked once, and one that is about to be rotated is live.
LocksOK ==
    /\ \A g, h \in Handlers : g # h => LockedBy(g) \cap LockedBy(h) = {}
    /\ \A h \in Handlers : HandlerAt(h, "rotating") => IsLive(handler[h].row)

\* A revocation has selected every live row of the family, or was overtaken.
RevocationsOK ==
    \A h \in Handlers : HandlerAt(h, "revoking") =>
        LET family == sess[handler[h].row].family IN
        LiveOf(family) \subseteq handler[h].rows \/ family \in overtaken

\* A token of the present version was signed for the present password.
Proves(s) ==
    /\ s.version <= account.version
    /\ s.version = account.version => s.pw = account.password \/ s.late

VersionsOK ==
    ~clash => /\ \A s \in LiveRows : Proves(sess[s])
              /\ \A h \in Handlers : HandlerAt(h, "issuing") => Proves(handler[h])

SessionsInv ==
    /\ SessionsTypeOK /\ BornOK /\ RowsHeldOK /\ LocksOK /\ RevocationsOK /\ VersionsOK
    /\ OneLivePerFamily /\ ReuseEndsFamily
-----------------------------------------------------------------------------
(* Lemmas.                                                                   *)

\* The record of a handler follows from where it is.
LEMMA HandlerIs ==
    ASSUME SessionsTypeOK, NEW h \in Handlers
    PROVE  /\ handler[h].pc \in LoginPCs => handler[h] \in LoginRecord
           /\ handler[h].pc \in RefreshPCs => handler[h] \in RefreshRecord
           /\ handler[h].pc = "leaving" => handler[h] \in LogoutRecord
           /\ handler[h].pc \in {"loaded", "selected"} => handler[h] \in AccountRecord
<1>1. handler[h] \in LoginRecord \cup RefreshRecord \cup LogoutRecord \cup AccountRecord \cup {Free}
    BY DEF SessionsTypeOK
<1>2. QED
    BY <1>1 DEF LoginRecord, RefreshRecord, LogoutRecord, AccountRecord, Free, LoginPCs, RefreshPCs

\* A move of one handler.
LEMMA HandlerMoved ==
    ASSUME SessionsTypeOK, NEW h \in Handlers,
           NEW next \in LoginRecord \cup RefreshRecord \cup LogoutRecord \cup AccountRecord \cup {Free},
           BecomesHandler(h, next)
    PROVE  /\ handler' \in [Handlers -> LoginRecord \cup RefreshRecord \cup LogoutRecord
                                         \cup AccountRecord \cup {Free}]
           /\ handler'[h] = next
           /\ \A g \in Handlers \ {h} : handler'[g] = handler[g]
BY DEF SessionsTypeOK, BecomesHandler

\* The next id is that of the first row that has not been inserted.
LEMMA FreshIsUnborn ==
    ASSUME SessionConstants, BornOK
    PROVE  /\ FreshId \in Nat \ {0}
           /\ Born = 1 .. FreshId - 1
           /\ FreshId \notin Born
<1>1. PICK n \in 0 .. MaxSessions : Born = 1 .. n
    BY DEF BornOK
<1>2. n \in Nat
    BY DEF SessionConstants
<1>3. Cardinality(Born) = n
    BY <1>1, <1>2, FS_Interval
<1>4. QED
    BY <1>1, <1>2, <1>3 DEF FreshId

\* A step that makes no row and no row live again.
Shrinks ==
    /\ sess' \in [Ids -> SessionRow]
    /\ \A s \in Ids :
        /\ sess'[s].family = sess[s].family
        /\ sess'[s].state = "unborn" <=> sess[s].state = "unborn"
        /\ sess'[s].state = "live" =>
              /\ sess[s].state = "live"
              /\ sess'[s].version = sess[s].version
              /\ sess'[s].pw = sess[s].pw /\ sess'[s].late = sess[s].late

LEMMA RevokedShrinks ==
    ASSUME SessionConstants, SessionsTypeOK, NEW rows \in SUBSET Born, sess' = Revoked(rows)
    PROVE  Shrinks /\ \A s \in Ids : IF s \in rows THEN sess'[s].state = "revoked"
                                                   ELSE sess'[s] = sess[s]
<1>1. ASSUME NEW s \in Ids
      PROVE  /\ sess[s] \in SessionRow
             /\ [sess[s] EXCEPT !.state = "revoked", !.pw = 0, !.late = FALSE] \in SessionRow
    BY DEF SessionsTypeOK, SessionRow
<1>2. ASSUME NEW s \in rows
      PROVE  /\ s \in Ids /\ sess[s].state # "unborn"
             /\ sess'[s] = [sess[s] EXCEPT !.state = "revoked", !.pw = 0, !.late = FALSE]
             /\ sess'[s].state = "revoked" /\ sess'[s].family = sess[s].family
    BY <1>1 DEF Revoked, Born, SessionRow
<1>3. \A s \in Ids \ rows : sess'[s] = sess[s]
    BY DEF Revoked
<1>4. sess' \in [Ids -> SessionRow]
    <2>1. sess' = [s \in Ids |-> sess'[s]]
        BY DEF Revoked
    <2>2. \A s \in Ids : sess'[s] \in SessionRow
        BY <1>1, <1>2, <1>3
    <2>3. QED
        BY <2>1, <2>2
<1>5. QED
    BY <1>2, <1>3, <1>4 DEF Shrinks

LEMMA ShrinksOK ==
    ASSUME Shrinks
    PROVE  Born' = Born /\ LiveRows' \subseteq LiveRows
           /\ \A family : \A s \in LiveRows' : s \in LiveOf(family)' => s \in LiveOf(family)
BY DEF Shrinks, Born, LiveRows, LiveOf, IsLive

\* The parts of the invariant that are about the table alone.
LEMMA TableShrinks ==
    ASSUME SessionsInv, Shrinks, reused' = reused, overtaken \subseteq overtaken'
    PROVE  BornOK' /\ OneLivePerFamily' /\ ReuseEndsFamily'
<1>1. Born' = Born /\ LiveRows' \subseteq LiveRows
    BY ShrinksOK
<1>2. \A s \in Ids : sess'[s].family = sess[s].family
    BY DEF Shrinks
<1>3. BornOK'
    BY <1>1, <1>2 DEF SessionsInv, BornOK, Born
<1>4. OneLivePerFamily'
    BY <1>1, <1>2 DEF SessionsInv, OneLivePerFamily, LiveRows
<1>5. ReuseEndsFamily'
    BY <1>1, <1>2 DEF SessionsInv, ReuseEndsFamily, LiveOf, LiveRows
<1>6. QED
    BY <1>3, <1>4, <1>5
-----------------------------------------------------------------------------
LEMMA SessionsInitOK == SessionConstants /\ SessionsInit => SessionsInv
<1> SUFFICES ASSUME SessionConstants, SessionsInit
             PROVE  SessionsInv
    OBVIOUS
<1>1. NoSession \in SessionRow
    BY DEF SessionConstants, NoSession, SessionRow
<1>2. /\ sess \in [Ids -> SessionRow]
      /\ \A s \in Ids : sess[s].state = "unborn"
    BY <1>1 DEF SessionsInit, NoSession
<1>3. SessionsTypeOK
    BY <1>2 DEF SessionsInit, SessionsTypeOK
<1>4. Born = {} /\ LiveRows = {}
    BY <1>2 DEF Born, LiveRows, IsLive
<1>5. BornOK
    <2>1. 0 \in 0 .. MaxSessions /\ 1 .. 0 = {}
        BY DEF SessionConstants
    <2>2. QED
        BY <1>4, <2>1 DEF BornOK, SessionsInit
<1>6. \A h \in Handlers : handler[h].pc = "free"
    BY DEF SessionsInit, Free
<1>7. RowsHeldOK /\ LocksOK /\ RevocationsOK /\ VersionsOK
    BY <1>4, <1>6 DEF RowsHeldOK, LocksOK, RevocationsOK, VersionsOK, HandlerAt, LockedBy, RefreshPCs
<1>8. OneLivePerFamily /\ ReuseEndsFamily
    BY <1>4 DEF OneLivePerFamily, ReuseEndsFamily, LiveOf
<1>9. QED
    BY <1>3, <1>5, <1>7, <1>8 DEF SessionsInv
-----------------------------------------------------------------------------
(* Steps that only read the tables.                                          *)

AnyHandler == LoginRecord \cup RefreshRecord \cup LogoutRecord \cup AccountRecord \cup {Free}

\* What a handler may hold next.
MayHold(h, next) ==
    /\ next.pc \in RefreshPCs =>
          /\ next.row \in Born /\ next.rows \subseteq Born
          /\ \A g \in Handlers \ {h} : next.row \notin LockedBy(g)
    /\ next.pc = "leaving" => next.row \in Born
    /\ next.pc \in {"loaded", "selected"} => next.rows \subseteq Born
    /\ next.pc = "rotating" => IsLive(next.row)
    /\ next.pc = "revoking" => LiveOf(sess[next.row].family) \subseteq next.rows
    /\ next.pc = "issuing" /\ ~clash => Proves(next)

LEMMA ReadsOK ==
    ASSUME SessionsInv, NEW h \in Handlers, NEW next \in AnyHandler, BecomesHandler(h, next), MayHold(h, next),
           UNCHANGED <<account, sess, reused, overtaken, clash>>
    PROVE  SessionsInv'
<1> USE DEF SessionsInv
<1>1. /\ handler' \in [Handlers -> AnyHandler] /\ handler'[h] = next
      /\ \A g \in Handlers \ {h} : handler'[g] = handler[g]
    BY HandlerMoved DEF AnyHandler
<1>2. Born' = Born /\ LiveRows' = LiveRows /\ \A s \in Ids : IsLive(s)' <=> IsLive(s)
    BY DEF Born, LiveRows, IsLive
<1>3. SessionsTypeOK'
    BY <1>1 DEF SessionsTypeOK, AnyHandler
<1>4. BornOK' /\ OneLivePerFamily' /\ ReuseEndsFamily'
    BY <1>2 DEF BornOK, OneLivePerFamily, ReuseEndsFamily, LiveOf
<1>5. RowsHeldOK'
    BY <1>1, <1>2 DEF RowsHeldOK, MayHold, HandlerAt
<1>6. LocksOK'
    <2>1. /\ \A g \in Handlers \ {h} : LockedBy(g)' = LockedBy(g)
          /\ \A g \in Handlers \ {h} : LockedBy(h)' \cap LockedBy(g) = {}
        BY <1>1 DEF LockedBy, MayHold
    <2>2. \A g \in Handlers : HandlerAt(g, "rotating")' => IsLive(handler'[g].row)
        BY <1>1 DEF LocksOK, MayHold, HandlerAt
    <2>3. \A g \in Handlers : HandlerAt(g, "rotating")' => IsLive(handler[g].row)'
        BY <2>2 DEF IsLive
    <2>4. QED
        BY <2>1, <2>3 DEF LocksOK
<1>7. RevocationsOK'
    BY <1>1, <1>2 DEF RevocationsOK, MayHold, HandlerAt, LiveOf
<1>8. VersionsOK'
    BY <1>1, <1>2 DEF VersionsOK, MayHold, HandlerAt, Proves
<1>9. QED
    BY <1>3, <1>4, <1>5, <1>6, <1>7, <1>8

LEMMA LoginReadsOK ==
    ASSUME SessionConstants, SessionsInv, NEW h \in Handlers, LoginVerify(h) \/ LoginReload(h)
    PROVE  SessionsInv'
<1> USE DEF SessionsInv
<1>1. account.version \in Nat /\ account.password \in Nat
    BY DEF SessionsTypeOK
<1>2. CASE LoginVerify(h)
    <2> DEFINE next == [pc |-> "verified", pw |-> account.password, version |-> 0, late |-> FALSE]
    <2>1. next \in AnyHandler
        BY <1>1 DEF AnyHandler, LoginRecord, LoginPCs
    <2>2. MayHold(h, next)
        BY DEF MayHold, RefreshPCs
    <2>3. BecomesHandler(h, next) /\ UNCHANGED <<account, sess, reused, overtaken, clash>>
        BY <1>2 DEF LoginVerify
    <2> HIDE DEF next
    <2>4. QED
        BY <2>1, <2>2, <2>3, ReadsOK
<1>3. CASE LoginReload(h)
    <2> DEFINE next == [handler[h] EXCEPT !.pc = "issuing", !.version = account.version,
                                          !.late = handler[h].pw # account.password]
    <2>1. handler[h] \in LoginRecord
        BY <1>3, HandlerIs DEF LoginReload, HandlerAt, LoginPCs
    <2>2. /\ next \in LoginRecord /\ next.pc = "issuing" /\ next.version = account.version
          /\ next.late = (next.pw # account.password)
        BY <1>1, <2>1 DEF LoginRecord, LoginPCs
    <2>3. BecomesHandler(h, next) /\ UNCHANGED <<account, sess, reused, overtaken, clash>>
        BY <1>3 DEF LoginReload
    <2> HIDE DEF next
    <2>4. Proves(next)
        <3>1. next.version <= account.version
            BY <1>1, <2>2
        <3>2. next.pw = account.password \/ next.late
            BY <2>2, Zenon
        <3>3. QED
            BY <3>1, <3>2 DEF Proves
    <2>5. MayHold(h, next)
        BY <2>2, <2>4 DEF MayHold, RefreshPCs
    <2>6. QED
        BY <2>2, <2>3, <2>5, ReadsOK DEF AnyHandler
<1>4. QED
    BY <1>2, <1>3

\* What a judgement makes of the handler that holds the lock.
LEMMA JudgeIs ==
    ASSUME SessionConstants, SessionsInv, NEW h \in Handlers, RefreshJudge(h)
    PROVE  \E next \in RefreshRecord :
              /\ BecomesHandler(h, next)
              /\ next.row = handler[h].row /\ next.rows \in SUBSET Born
              /\ next.pc \in {"rotating", "revoking", "expiring"}
              /\ next.pc = "revoking" => next.rows = LiveOf(sess[next.row].family)
              /\ next.pc = "rotating" => IsLive(next.row)
<1> USE DEF SessionsInv
<1> DEFINE s == handler[h].row
           rejected == ~account.active \/ account.version # sess[s].version
<1>1. handler[h] \in RefreshRecord /\ s \in Born /\ s \in Ids
    BY HandlerIs DEF RefreshJudge, HandlerAt, RefreshPCs, RowsHeldOK, Born
<1>2. PICK verdict \in {"rotating", "revoking", "expiring"}, reuse \in BOOLEAN, rows \in SUBSET Born :
          /\ Judged(h, verdict, reuse, rows)
          /\ verdict = "revoking" => rows = LiveOf(sess[s].family)
          /\ verdict = "rotating" => IsLive(s)
    <2>1. LiveOf(sess[s].family) \in SUBSET Born /\ {s} \in SUBSET Born
        BY <1>1 DEF LiveOf, LiveRows, IsLive, Born
    <2>2. CASE rejected
        <3>1. Judged(h, "revoking", FALSE, LiveOf(sess[s].family))
            BY <2>2 DEF RefreshJudge
        <3>2. QED
            BY <2>1, <3>1
    <2>3. CASE ~rejected /\ ~IsLive(s)
        <3>1. Judged(h, "revoking", TRUE, LiveOf(sess[s].family))
            BY <2>3 DEF RefreshJudge
        <3>2. QED
            BY <2>1, <3>1
    <2>4. CASE ~rejected /\ IsLive(s) /\ sess[s].expired
        <3>1. Judged(h, "expiring", FALSE, {s})
            BY <2>4 DEF RefreshJudge
        <3>2. QED
            BY <2>1, <3>1
    <2>5. CASE ~rejected /\ IsLive(s) /\ ~sess[s].expired
        <3>1. Judged(h, "rotating", FALSE, {s})
            BY <2>5 DEF RefreshJudge
        <3>2. QED
            BY <2>1, <2>5, <3>1
    <2>6. QED
        BY <2>2, <2>3, <2>4, <2>5
<1> DEFINE next == [handler[h] EXCEPT !.pc = verdict, !.reuse = reuse, !.rows = rows]
<1>3. next \in RefreshRecord /\ next.pc = verdict /\ next.row = s /\ next.rows = rows
    BY <1>1, <1>2 DEF RefreshRecord, RefreshPCs, Born
<1>4. BecomesHandler(h, next)
    BY <1>2 DEF Judged
<1> HIDE DEF next
<1>5. QED
    BY <1>2, <1>3, <1>4

LEMMA RefreshReadsOK ==
    ASSUME SessionConstants, SessionsInv, NEW h \in Handlers,
           (\E s \in Ids : RefreshLock(h, s)) \/ RefreshJudge(h)
    PROVE  SessionsInv'
<1> USE DEF SessionsInv
<1>1. CASE \E s \in Ids : RefreshLock(h, s)
    <2>1. PICK s \in Ids : RefreshLock(h, s)
        BY <1>1
    <2>2. /\ OpenRefresh(s) \in RefreshRecord
          /\ OpenRefresh(s).pc = "locked" /\ OpenRefresh(s).row = s /\ OpenRefresh(s).rows = {}
        BY DEF OpenRefresh, RefreshRecord, RefreshPCs
    <2>3. s \in Born /\ \A g \in Handlers \ {h} : s \notin LockedBy(g)
        BY <2>1 DEF RefreshLock, Unlocked
    <2>4. MayHold(h, OpenRefresh(s))
        BY <2>2, <2>3 DEF MayHold, RefreshPCs
    <2>5. BecomesHandler(h, OpenRefresh(s)) /\ UNCHANGED <<account, sess, reused, overtaken, clash>>
        BY <2>1 DEF RefreshLock
    <2>6. QED
        BY <2>2, <2>4, <2>5, ReadsOK DEF AnyHandler
<1>2. CASE RefreshJudge(h)
    <2>1. HandlerAt(h, "locked") /\ UNCHANGED <<account, sess, reused, overtaken, clash>>
        BY <1>2 DEF RefreshJudge
    <2>2. handler[h].row \in Born /\ \A g \in Handlers \ {h} : handler[h].row \notin LockedBy(g)
        BY <2>1 DEF LocksOK, LockedBy, HandlerAt, RefreshPCs, RowsHeldOK
    <2>3. PICK next \in RefreshRecord :
              /\ BecomesHandler(h, next)
              /\ next.row = handler[h].row /\ next.rows \in SUBSET Born
              /\ next.pc \in {"rotating", "revoking", "expiring"}
              /\ next.pc = "revoking" => next.rows = LiveOf(sess[next.row].family)
              /\ next.pc = "rotating" => IsLive(next.row)
        BY <1>2, JudgeIs
    <2>4. MayHold(h, next)
        BY <2>2, <2>3 DEF MayHold, RefreshPCs
    <2>5. QED
        BY <2>1, <2>3, <2>4, ReadsOK DEF AnyHandler
<1>3. QED
    BY <1>1, <1>2

LEMMA OtherReadsOK ==
    ASSUME SessionConstants, SessionsInv, NEW h \in Handlers,
           \/ \E s \in Ids : LogoutLoad(h, s)
           \/ \E act \in {"password", "deactivate"} : AccountLoad(h, act)
           \/ AccountSelect(h)
    PROVE  SessionsInv'
<1> USE DEF SessionsInv
<1>1. ASSUME NEW s \in Ids, LogoutLoad(h, s)
      PROVE  SessionsInv'
    <2> DEFINE next == [pc |-> "leaving", row |-> s]
    <2>1. next \in LogoutRecord /\ next.pc = "leaving" /\ next.row = s
        BY DEF LogoutRecord
    <2>2. s \in Born
        BY <1>1 DEF LogoutLoad, IsLive, Born
    <2>3. BecomesHandler(h, next) /\ UNCHANGED <<account, sess, reused, overtaken, clash>>
        BY <1>1 DEF LogoutLoad
    <2> HIDE DEF next
    <2>4. MayHold(h, next)
        BY <2>1, <2>2 DEF MayHold, RefreshPCs
    <2>5. QED
        BY <2>1, <2>3, <2>4, ReadsOK DEF AnyHandler
<1>2. ASSUME NEW act \in {"password", "deactivate"}, AccountLoad(h, act)
      PROVE  SessionsInv'
    <2> DEFINE next == [pc |-> "loaded", act |-> act, version |-> account.version, rows |-> {}]
    <2>1. next \in AccountRecord /\ next.pc = "loaded" /\ next.rows = {}
        BY DEF AccountRecord, SessionsTypeOK
    <2>2. BecomesHandler(h, next) /\ UNCHANGED <<account, sess, reused, overtaken, clash>>
        BY <1>2 DEF AccountLoad
    <2> HIDE DEF next
    <2>3. MayHold(h, next)
        BY <2>1 DEF MayHold, RefreshPCs
    <2>4. QED
        BY <2>1, <2>2, <2>3, ReadsOK DEF AnyHandler
<1>3. CASE AccountSelect(h)
    <2> DEFINE next == [handler[h] EXCEPT !.pc = "selected", !.rows = LiveRows]
    <2>1. handler[h] \in AccountRecord
        BY <1>3, HandlerIs DEF AccountSelect, HandlerAt
    <2>2. LiveRows \subseteq Born /\ LiveRows \subseteq Ids
        BY DEF LiveRows, IsLive, Born
    <2>3. next \in AccountRecord /\ next.pc = "selected" /\ next.rows = LiveRows
        BY <2>1, <2>2 DEF AccountRecord
    <2>4. BecomesHandler(h, next) /\ UNCHANGED <<account, sess, reused, overtaken, clash>>
        BY <1>3 DEF AccountSelect
    <2> HIDE DEF next
    <2>5. MayHold(h, next)
        BY <2>2, <2>3 DEF MayHold, RefreshPCs
    <2>6. QED
        BY <2>3, <2>4, <2>5, ReadsOK DEF AnyHandler
<1>4. QED
    BY <1>1, <1>2, <1>3
-----------------------------------------------------------------------------
(* Steps that revoke rows.                                                   *)

\* A transaction that revokes rows nobody else has locked, and ends.
LEMMA RevokesOK ==
    ASSUME SessionConstants, SessionsInv, NEW h \in Handlers, NEW rows \in SUBSET Born,
           sess' = Revoked(rows), Unlocked(h, rows), BecomesHandler(h, Free), overtaken \subseteq overtaken'
    PROVE  /\ sess' \in [Ids -> SessionRow]
           /\ handler' \in [Handlers -> AnyHandler]
           /\ Shrinks
           /\ \A s \in LiveRows' : s \in LiveRows \ rows /\ sess'[s] = sess[s]
           /\ handler'[h] = Free /\ \A g \in Handlers \ {h} : handler'[g] = handler[g]
           /\ RowsHeldOK' /\ LocksOK' /\ RevocationsOK'
<1> USE DEF SessionsInv
<1>1. Shrinks /\ \A s \in Ids : IF s \in rows THEN sess'[s].state = "revoked"
                                              ELSE sess'[s] = sess[s]
    BY RevokedShrinks
<1>2. Born' = Born
    BY <1>1, ShrinksOK
<1>3. /\ handler' \in [Handlers -> AnyHandler] /\ handler'[h] = Free
      /\ \A g \in Handlers \ {h} : handler'[g] = handler[g]
    BY HandlerMoved DEF AnyHandler
<1>4. Free.pc = "free"
    BY DEF Free
<1>5. \A s \in LiveRows' : s \in LiveRows \ rows /\ sess'[s] = sess[s]
    BY <1>1 DEF LiveRows, IsLive
<1>6. RowsHeldOK'
    BY <1>2, <1>3, <1>4 DEF RowsHeldOK, HandlerAt, RefreshPCs
<1>7. LocksOK'
    <2>1. \A g \in Handlers \ {h} : LockedBy(g)' = LockedBy(g)
        BY <1>3 DEF LockedBy
    <2>2. LockedBy(h)' = {}
        BY <1>3, <1>4 DEF LockedBy, RefreshPCs
    <2>3. ASSUME NEW g \in Handlers, HandlerAt(g, "rotating")'
          PROVE  IsLive(handler[g].row)'
        <3>1. g # h /\ HandlerAt(g, "rotating")
            BY <1>3, <1>4, <2>3 DEF HandlerAt
        <3>2. IsLive(handler[g].row) /\ handler[g].row \in Ids
            BY <3>1 DEF LocksOK, RowsHeldOK, HandlerAt, RefreshPCs, Born
        <3>3. handler[g].row \notin rows
            BY <3>1 DEF Unlocked, LockedBy, HandlerAt, RefreshPCs
        <3>4. QED
            BY <1>1, <1>3, <3>1, <3>2, <3>3 DEF IsLive
    <2>4. QED
        BY <2>1, <2>2, <2>3 DEF LocksOK
<1>8. RevocationsOK'
    <2> SUFFICES ASSUME NEW g \in Handlers, HandlerAt(g, "revoking")'
                 PROVE  \/ LiveOf(sess[handler[g].row].family)' \subseteq handler'[g].rows
                        \/ sess'[handler'[g].row].family \in overtaken'
        BY DEF RevocationsOK
    <2>1. g # h /\ HandlerAt(g, "revoking") /\ handler'[g] = handler[g]
        BY <1>3, <1>4 DEF HandlerAt
    <2>2. handler[g].row \in Ids
        BY <2>1 DEF RowsHeldOK, HandlerAt, RefreshPCs, Born
    <2>3. sess'[handler'[g].row].family = sess[handler[g].row].family
        BY <1>1, <2>1, <2>2 DEF Shrinks
    <2>4. LiveOf(sess[handler[g].row].family)' \subseteq LiveOf(sess[handler[g].row].family)
        BY <1>5, <2>3 DEF LiveOf
    <2>5. QED
        BY <2>1, <2>3, <2>4 DEF RevocationsOK
<1>9. QED
    BY <1>1, <1>3, <1>5, <1>6, <1>7, <1>8 DEF Shrinks

\* Tokens keep proving the password while the account is left alone.
LEMMA ProofsKept ==
    ASSUME SessionsInv, Shrinks, account' = account, clash' = clash, NEW h,
           \A g \in Handlers \ {h} : handler'[g] = handler[g],
           h \in Handlers => handler'[h].pc = "free"
    PROVE  VersionsOK'
<1>1. ~clash => \A s \in LiveRows' : Proves(sess[s])'
    BY DEF SessionsInv, VersionsOK, Shrinks, LiveRows, IsLive, Proves
<1>2. ~clash => \A g \in Handlers : HandlerAt(g, "issuing")' => Proves(handler[g])'
    BY DEF SessionsInv, VersionsOK, HandlerAt, Proves
<1>3. QED
    BY <1>1, <1>2 DEF VersionsOK

\* The end of a logout, and of a refresh with an expired token.
LEMMA LeavesOK ==
    ASSUME SessionConstants, SessionsInv, NEW h \in Handlers, RefreshExpired(h) \/ LogoutCommit(h)
    PROVE  SessionsInv'
<1> DEFINE rows == {handler[h].row}
<1> USE DEF SessionsInv
<1>1. /\ sess' = Revoked(rows) /\ BecomesHandler(h, Free)
      /\ UNCHANGED <<account, reused, overtaken, clash>>
    BY DEF RefreshExpired, LogoutCommit
<1>2. rows \in SUBSET Born
    BY DEF RefreshExpired, LogoutCommit, RowsHeldOK, HandlerAt, RefreshPCs
<1>3. Unlocked(h, rows)
    BY DEF RefreshExpired, LogoutCommit, Unlocked, LocksOK, LockedBy, HandlerAt, RefreshPCs
<1> HIDE DEF rows
<1>4. /\ sess' \in [Ids -> SessionRow] /\ handler' \in [Handlers -> AnyHandler] /\ Shrinks
      /\ handler'[h] = Free /\ \A g \in Handlers \ {h} : handler'[g] = handler[g]
      /\ RowsHeldOK' /\ LocksOK' /\ RevocationsOK'
    BY <1>1, <1>2, <1>3, RevokesOK
<1>5. SessionsTypeOK'
    BY <1>1, <1>4 DEF SessionsTypeOK, AnyHandler
<1>6. BornOK' /\ OneLivePerFamily' /\ ReuseEndsFamily'
    BY <1>1, <1>4, TableShrinks
<1>7. VersionsOK'
    BY <1>1, <1>4, ProofsKept DEF Free
<1>8. QED
    BY <1>4, <1>5, <1>6, <1>7

\* The end of a refresh that revokes the family.
LEMMA RevokeOK ==
    ASSUME SessionConstants, SessionsInv, NEW h \in Handlers, RefreshRevoke(h)
    PROVE  SessionsInv'
<1> DEFINE rows == handler[h].rows
           family == sess[handler[h].row].family
<1> USE DEF SessionsInv
<1>1. /\ HandlerAt(h, "revoking") /\ Unlocked(h, rows)
      /\ sess' = Revoked(rows) /\ BecomesHandler(h, Free)
      /\ reused' = IF handler[h].reuse THEN reused \cup {family} ELSE reused
      /\ UNCHANGED <<account, overtaken, clash>>
    BY DEF RefreshRevoke
<1>2. rows \in SUBSET Born /\ handler[h].row \in Born /\ family \in Born
    BY <1>1 DEF RowsHeldOK, HandlerAt, RefreshPCs, BornOK
<1>3. LiveOf(family) \subseteq rows \/ family \in overtaken
    BY <1>1 DEF RevocationsOK
<1> HIDE DEF rows, family
<1>4. /\ sess' \in [Ids -> SessionRow] /\ handler' \in [Handlers -> AnyHandler] /\ Shrinks
      /\ \A s \in LiveRows' : s \in LiveRows \ rows /\ sess'[s] = sess[s]
      /\ handler'[h] = Free /\ \A g \in Handlers \ {h} : handler'[g] = handler[g]
      /\ RowsHeldOK' /\ LocksOK' /\ RevocationsOK'
    BY <1>1, <1>2, RevokesOK
<1>5. reused' \subseteq reused \cup {family} /\ reused' \subseteq Born /\ Born \subseteq Ids
    BY <1>1, <1>2 DEF BornOK, Born
<1>6. SessionsTypeOK'
    BY <1>1, <1>4, <1>5 DEF SessionsTypeOK, AnyHandler
<1>7. BornOK'
    <2>1. Born' = Born
        BY <1>4, ShrinksOK
    <2>2. \A s \in Born : sess'[s].family = sess[s].family
        BY <1>4 DEF Shrinks, Born
    <2>3. QED
        BY <1>5, <2>1, <2>2 DEF BornOK
<1>8. OneLivePerFamily'
    BY <1>4 DEF OneLivePerFamily
<1>9. ReuseEndsFamily'
    <2> SUFFICES ASSUME NEW f \in reused' \ overtaken, NEW s \in LiveRows', sess'[s].family = f
                 PROVE  FALSE
        BY <1>1 DEF ReuseEndsFamily, LiveOf
    <2>1. s \in LiveOf(f) /\ s \notin rows
        BY <1>4 DEF LiveOf
    <2>2. CASE f \in reused
        BY <2>1, <2>2 DEF ReuseEndsFamily
    <2>3. CASE f = family
        BY <1>3, <2>1, <2>3
    <2>4. QED
        BY <1>5, <2>2, <2>3
<1>10. VersionsOK'
    BY <1>1, <1>4, ProofsKept DEF Free
<1>11. QED
    BY <1>4, <1>6, <1>7, <1>8, <1>9, <1>10

\* A password change or a deactivation: every token it did not revoke is of an
\* older version, unless another change started from the version this one did.
LEMMA AccountOK ==
    ASSUME SessionConstants, SessionsInv, NEW h \in Handlers, AccountCommit(h)
    PROVE  SessionsInv'
<1> DEFINE rows == handler[h].rows
<1> USE DEF SessionsInv
<1>1. /\ HandlerAt(h, "selected") /\ Unlocked(h, rows)
      /\ account' = Changed(h, handler[h].version + 1)
      /\ sess' = Revoked(rows) /\ BecomesHandler(h, Free)
      /\ clash' = (clash \/ handler[h].version # account.version)
      /\ UNCHANGED <<reused, overtaken>>
    BY DEF AccountCommit
<1>2. rows \in SUBSET Born
    BY <1>1 DEF RowsHeldOK, HandlerAt
<1>3. handler[h].version \in Nat /\ handler[h].act \in {"password", "deactivate"}
    BY <1>1, HandlerIs DEF HandlerAt, AccountRecord
<1> HIDE DEF rows
<1>4. /\ sess' \in [Ids -> SessionRow] /\ handler' \in [Handlers -> AnyHandler] /\ Shrinks
      /\ \A s \in LiveRows' : s \in LiveRows \ rows /\ sess'[s] = sess[s]
      /\ handler'[h] = Free /\ \A g \in Handlers \ {h} : handler'[g] = handler[g]
      /\ RowsHeldOK' /\ LocksOK' /\ RevocationsOK'
    BY <1>1, <1>2, RevokesOK
<1>5. /\ account' \in [version: Nat, password: Nat, active: BOOLEAN]
      /\ account'.version = handler[h].version + 1
    <2> DEFINE version == handler[h].version + 1
    <2>1. /\ account \in [version: Nat, password: Nat, active: BOOLEAN]
          /\ version \in Nat /\ account.password + 1 \in Nat
        BY <1>3 DEF SessionsTypeOK
    <2>2. \/ account' = [account EXCEPT !.password = @ + 1, !.version = version]
          \/ account' = [account EXCEPT !.active = FALSE, !.version = version]
        BY <1>1 DEF Changed
    <2> HIDE DEF version
    <2>3. /\ account' \in [version: Nat, password: Nat, active: BOOLEAN]
          /\ account'.version = version
        BY <2>1, <2>2
    <2>4. QED
        BY <2>3 DEF version
<1>6. SessionsTypeOK'
    BY <1>1, <1>4, <1>5 DEF SessionsTypeOK, AnyHandler
<1>7. BornOK' /\ OneLivePerFamily' /\ ReuseEndsFamily'
    BY <1>1, <1>4, TableShrinks
<1>8. VersionsOK'
    <2> SUFFICES ASSUME ~clash'
                 PROVE  /\ \A s \in LiveRows' : Proves(sess[s])'
                        /\ \A g \in Handlers : HandlerAt(g, "issuing")' => Proves(handler[g])'
        BY DEF VersionsOK
    <2>1. ~clash /\ account'.version = account.version + 1 /\ account.version \in Nat
        BY <1>1, <1>5 DEF SessionsTypeOK
    <2>2. ASSUME NEW s \in LiveRows'
          PROVE  Proves(sess[s])'
        <3>1. sess'[s].version \in Nat /\ sess'[s].version <= account.version
            BY <1>4, <2>1, <2>2 DEF VersionsOK, Proves, SessionsTypeOK, SessionRow, LiveRows
        <3>2. QED
            BY <2>1, <3>1 DEF Proves
    <2>3. ASSUME NEW g \in Handlers, HandlerAt(g, "issuing")'
          PROVE  Proves(handler[g])'
        <3>1. g # h /\ handler'[g] = handler[g] /\ HandlerAt(g, "issuing")
            BY <1>4, <2>3 DEF HandlerAt, Free
        <3>2. handler[g].version \in Nat
            BY <3>1, HandlerIs DEF HandlerAt, LoginPCs, LoginRecord
        <3>3. handler[g].version <= account.version
            BY <2>1, <3>1 DEF VersionsOK, Proves
        <3>4. QED
            BY <2>1, <3>1, <3>2, <3>3 DEF Proves
    <2>4. QED
        BY <2>2, <2>3
<1>9. QED
    BY <1>4, <1>6, <1>7, <1>8

\* A row that expires.
LEMMA ExpiresOK ==
    ASSUME SessionConstants, SessionsInv, NEW s \in Ids, SessionExpires(s)
    PROVE  SessionsInv'
<1> USE DEF SessionsInv
<1>1. /\ sess' = [sess EXCEPT ![s].expired = TRUE]
      /\ UNCHANGED <<account, handler, reused, overtaken, clash>>
    BY DEF SessionExpires
<1>2. sess[s] \in SessionRow /\ [sess[s] EXCEPT !.expired = TRUE] \in SessionRow
    BY DEF SessionsTypeOK, SessionRow
<1>3. /\ sess' \in [Ids -> SessionRow]
      /\ \A u \in Ids : sess'[u].state = sess[u].state /\ sess'[u].family = sess[u].family
                        /\ sess'[u].version = sess[u].version
                        /\ sess'[u].pw = sess[u].pw /\ sess'[u].late = sess[u].late
    BY <1>1, <1>2 DEF SessionsTypeOK, SessionRow
<1>4. Shrinks
    BY <1>3 DEF Shrinks
<1>5. Born' = Born /\ LiveRows' = LiveRows
    BY <1>3 DEF Born, LiveRows, IsLive
<1>6. SessionsTypeOK'
    BY <1>1, <1>3 DEF SessionsTypeOK
<1>7. BornOK' /\ OneLivePerFamily' /\ ReuseEndsFamily'
    BY <1>1, <1>4, TableShrinks
<1>8. RowsHeldOK'
    BY <1>1, <1>5 DEF RowsHeldOK, HandlerAt
<1>9. LocksOK'
    <2>1. \A h \in Handlers : HandlerAt(h, "rotating") => handler[h].row \in Ids
        BY DEF RowsHeldOK, HandlerAt, RefreshPCs, Born
    <2>2. QED
        BY <1>1, <1>3, <2>1 DEF LocksOK, LockedBy, HandlerAt, IsLive
<1>10. RevocationsOK'
    <2>1. \A h \in Handlers : HandlerAt(h, "revoking") => handler[h].row \in Ids
        BY DEF RowsHeldOK, HandlerAt, RefreshPCs, Born
    <2>2. \A u \in LiveRows : u \in Ids
        BY DEF LiveRows
    <2>3. QED
        BY <1>1, <1>3, <1>5, <2>1, <2>2 DEF RevocationsOK, LiveOf, HandlerAt
<1>11. VersionsOK'
    BY <1>1, <1>3, <1>5 DEF VersionsOK, HandlerAt, Proves, LiveRows
<1>12. QED
    BY <1>6, <1>7, <1>8, <1>9, <1>10, <1>11
-----------------------------------------------------------------------------
(* Steps that insert a row.                                                  *)

\* A transaction that inserts a row, revokes the other rows of its family, if it
\* has any, and ends.
LEMMA InsertsOK ==
    ASSUME SessionConstants, SessionsInv, NEW h \in Handlers, NEW rows \in SUBSET Born, NEW row \in SessionRow,
           Unlocked(h, rows), BecomesHandler(h, Free), FreshId \in Ids,
           sess' = [Revoked(rows) EXCEPT ![FreshId] = row],
           row.state = "live", row.family \in Born \cup {FreshId},
           LiveOf(row.family) \subseteq rows,
           row.family \notin reused \ overtaken',
           BeingRevoked(row.family) => row.family \in overtaken',
           ~clash => Proves(row),
           overtaken \subseteq overtaken', overtaken' \subseteq Ids,
           UNCHANGED <<account, reused, clash>>
    PROVE  SessionsInv'
<1> DEFINE id == FreshId
<1> USE DEF SessionsInv
<1>1. id \in Nat \ {0} /\ Born = 1 .. id - 1 /\ id \notin Born /\ Born \subseteq Ids
    BY FreshIsUnborn DEF Born
<1>2. /\ sess' = [Revoked(rows) EXCEPT ![id] = row] /\ id \in Ids
      /\ row.family \in Born \cup {id}
    OBVIOUS
<1> HIDE DEF id
<1>3. /\ Revoked(rows) \in [Ids -> SessionRow]
      /\ \A s \in Ids : IF s \in rows THEN Revoked(rows)[s].state = "revoked"
                                           /\ Revoked(rows)[s].family = sess[s].family
                                      ELSE Revoked(rows)[s] = sess[s]
    <2>1. ASSUME NEW s \in Ids
          PROVE  /\ sess[s] \in SessionRow
                 /\ [sess[s] EXCEPT !.state = "revoked", !.pw = 0, !.late = FALSE] \in SessionRow
                 /\ [sess[s] EXCEPT !.state = "revoked", !.pw = 0, !.late = FALSE].state = "revoked"
                 /\ [sess[s] EXCEPT !.state = "revoked", !.pw = 0, !.late = FALSE].family = sess[s].family
        BY DEF SessionsTypeOK, SessionRow
    <2>2. QED
        BY <2>1 DEF Revoked
<1>4. /\ sess' \in [Ids -> SessionRow] /\ sess'[id] = row
      /\ \A s \in Ids \ {id} :
            IF s \in rows THEN sess'[s].state = "revoked" /\ sess'[s].family = sess[s].family
                          ELSE sess'[s] = sess[s]
    BY <1>2, <1>3
<1>5. /\ handler' \in [Handlers -> AnyHandler] /\ handler'[h].pc = "free"
      /\ \A g \in Handlers \ {h} : handler'[g] = handler[g]
    BY HandlerMoved DEF AnyHandler, Free
<1>6. Born' = Born \cup {id}
    <2>1. \A s \in Ids : sess'[s].state # "unborn" <=> s \in Born \cup {id}
        BY <1>1, <1>4 DEF Born
    <2>2. Born' = {s \in Ids : sess'[s].state # "unborn"}
        BY DEF Born
    <2>3. QED
        BY <1>1, <1>2, <2>1, <2>2
<1>7. /\ id \in LiveRows' /\ LiveRows' \subseteq (LiveRows \ rows) \cup {id}
      /\ \A s \in LiveRows' \ {id} : s \in LiveRows /\ sess'[s] = sess[s]
    BY <1>2, <1>4 DEF LiveRows, IsLive
<1>8. SessionsTypeOK'
    BY <1>4, <1>5 DEF SessionsTypeOK, AnyHandler
<1>9. BornOK'
    <2>1. id \in 0 .. MaxSessions /\ Born \cup {id} = 1 .. id
        BY <1>1, <1>2 DEF Ids, SessionConstants
    <2>2. \A s \in Born : sess'[s].family = sess[s].family
        BY <1>1, <1>4
    <2>3. \A s \in Born' : sess'[s].family \in Born'
        BY <1>2, <1>4, <1>6, <2>2 DEF BornOK
    <2>4. reused' \subseteq Born'
        BY <1>6 DEF BornOK
    <2>5. QED
        BY <1>6, <2>1, <2>3, <2>4 DEF BornOK
<1>10. RowsHeldOK'
    BY <1>5, <1>6 DEF RowsHeldOK, HandlerAt, RefreshPCs
<1>11. LocksOK'
    <2>1. \A g \in Handlers \ {h} : LockedBy(g)' = LockedBy(g)
        BY <1>5 DEF LockedBy
    <2>2. LockedBy(h)' = {}
        BY <1>5 DEF LockedBy, RefreshPCs
    <2>3. ASSUME NEW g \in Handlers, HandlerAt(g, "rotating")'
          PROVE  IsLive(handler[g].row)'
        <3>1. g # h /\ HandlerAt(g, "rotating")
            BY <1>5, <2>3 DEF HandlerAt
        <3>2. IsLive(handler[g].row) /\ handler[g].row \in Born
            BY <3>1 DEF LocksOK, RowsHeldOK, HandlerAt, RefreshPCs
        <3>3. handler[g].row \notin rows
            BY <3>1 DEF Unlocked, LockedBy, HandlerAt, RefreshPCs
        <3>4. QED
            BY <1>1, <1>4, <1>5, <3>1, <3>2, <3>3 DEF IsLive
    <2>4. QED
        BY <2>1, <2>2, <2>3 DEF LocksOK
<1>12. RevocationsOK'
    <2> SUFFICES ASSUME NEW g \in Handlers, HandlerAt(g, "revoking")'
                 PROVE  \/ LiveOf(sess[handler[g].row].family)' \subseteq handler'[g].rows
                        \/ sess'[handler'[g].row].family \in overtaken'
        BY DEF RevocationsOK
    <2> DEFINE family == sess[handler[g].row].family
    <2>1. g # h /\ HandlerAt(g, "revoking") /\ handler'[g] = handler[g]
        BY <1>5 DEF HandlerAt
    <2>2. handler[g].row \in Born
        BY <2>1 DEF RowsHeldOK, HandlerAt, RefreshPCs
    <2>3. sess'[handler'[g].row].family = family
        BY <1>1, <1>4, <2>1, <2>2
    <2>4. CASE row.family = family
        BY <2>1, <2>3, <2>4 DEF BeingRevoked
    <2>5. CASE row.family # family
        <3>1. LiveOf(sess[handler[g].row].family)' \subseteq LiveOf(family)
            BY <1>4, <1>7, <2>3, <2>5 DEF LiveOf
        <3>2. QED
            BY <2>1, <2>3, <3>1 DEF RevocationsOK
    <2>6. QED
        BY <2>4, <2>5
<1>13. VersionsOK'
    <2>1. ~clash => \A s \in LiveRows' : Proves(sess[s])'
        <3>1. ASSUME ~clash, NEW s \in LiveRows'
              PROVE  Proves(sess[s])'
            <4>1. CASE s = id
                BY <1>4, <3>1, <4>1 DEF Proves
            <4>2. CASE s # id
                BY <1>7, <3>1, <4>2 DEF VersionsOK, Proves
            <4>3. QED
                BY <4>1, <4>2
        <3>2. QED
            BY <3>1
    <2>2. ~clash => \A g \in Handlers : HandlerAt(g, "issuing")' => Proves(handler[g])'
        BY <1>5 DEF VersionsOK, HandlerAt, Proves
    <2>3. QED
        BY <2>1, <2>2 DEF VersionsOK
<1>14. \A s \in LiveRows' \ {id} : sess'[s].family # row.family
    BY <1>4, <1>7 DEF LiveOf
<1>15. OneLivePerFamily'
    BY <1>4, <1>7, <1>14 DEF OneLivePerFamily
<1>16. ReuseEndsFamily'
    <2> SUFFICES ASSUME NEW f \in reused' \ overtaken', NEW s \in LiveRows', sess'[s].family = f
                 PROVE  FALSE
        BY DEF ReuseEndsFamily, LiveOf
    <2>1. s # id
        BY <1>4
    <2>2. s \in LiveOf(f) /\ f \in reused \ overtaken
        BY <1>7, <2>1 DEF LiveOf
    <2>3. QED
        BY <2>2 DEF ReuseEndsFamily
<1>17. QED
    BY <1>8, <1>9, <1>10, <1>11, <1>12, <1>13, <1>15, <1>16

\* A login starts a family of its own.
LEMMA IssueOK ==
    ASSUME SessionConstants, SessionsInv, NEW h \in Handlers, LoginIssue(h)
    PROVE  SessionsInv'
<1> DEFINE row == Issued(FreshId, handler[h].version, handler[h].pw, handler[h].late)
<1> USE DEF SessionsInv
<1>1. /\ HandlerAt(h, "issuing") /\ BecomesHandler(h, Free)
      /\ sess' = [sess EXCEPT ![FreshId] = row]
      /\ UNCHANGED <<account, reused, overtaken, clash>>
    BY DEF LoginIssue
<1>2. handler[h] \in LoginRecord
    BY <1>1, HandlerIs DEF HandlerAt, LoginPCs
<1>3. CASE FreshId \in Ids
    <2>1. row \in SessionRow /\ row.state = "live" /\ row.family = FreshId
        BY <1>2, <1>3 DEF Issued, SessionRow, LoginRecord, Ids, SessionConstants
    <2>2. ~clash => Proves(row)
        BY <1>1 DEF VersionsOK, Proves, Issued
    <2>3. FreshId \notin Born
        BY FreshIsUnborn
    <2>4. FreshId \notin reused /\ LiveOf(FreshId) = {}
        <3>1. LiveRows \subseteq Born
            BY DEF LiveRows, IsLive, Born
        <3>2. QED
            BY <2>3, <3>1 DEF BornOK, LiveOf
    <2>5. ~BeingRevoked(FreshId)
        BY <2>3 DEF BeingRevoked, RowsHeldOK, HandlerAt, RefreshPCs, BornOK
    <2>6. Revoked({}) = sess
        BY DEF Revoked, SessionsTypeOK
    <2>7. Unlocked(h, {}) /\ overtaken' \subseteq Ids
        BY <1>1 DEF Unlocked, SessionsTypeOK
    <2> HIDE DEF row
    <2>8. QED
        BY <1>1, <1>3, <2>1, <2>2, <2>4, <2>5, <2>6, <2>7, InsertsOK
<1>4. CASE FreshId \notin Ids
    <2>1. sess' = sess
        BY <1>1, <1>4 DEF SessionsTypeOK
    <2>2. Free \in AnyHandler /\ MayHold(h, Free)
        BY DEF AnyHandler, MayHold, Free, RefreshPCs
    <2>3. QED
        BY <1>1, <2>1, <2>2, ReadsOK
<1>5. QED
    BY <1>3, <1>4

\* A rotation replaces the one live row of its family.
LEMMA RotateOK ==
    ASSUME SessionConstants, SessionsInv, NEW h \in Handlers, RefreshRotate(h)
    PROVE  SessionsInv'
<1> DEFINE s == handler[h].row
           family == sess[s].family
           row == Issued(family, sess[s].version, sess[s].pw, sess[s].late)
<1> USE DEF SessionsInv
<1>1. /\ HandlerAt(h, "rotating") /\ BecomesHandler(h, Free)
      /\ sess' = [Revoked({s}) EXCEPT ![FreshId] = row]
      /\ overtaken' = IF BeingRevoked(family) THEN overtaken \cup {family} ELSE overtaken
      /\ UNCHANGED <<account, reused, clash>>
    BY DEF RefreshRotate
<1>2. s \in Born /\ s \in Ids /\ IsLive(s) /\ sess[s] \in SessionRow
    BY <1>1 DEF LocksOK, RowsHeldOK, HandlerAt, RefreshPCs, Born, SessionsTypeOK
<1>3. family \in Born /\ family \in Ids
    BY <1>2 DEF BornOK, Born
<1>4. s \in LiveRows /\ LiveOf(family) = {s}
    BY <1>2 DEF LiveRows, LiveOf, OneLivePerFamily
<1>5. Unlocked(h, {s})
    BY <1>1 DEF Unlocked, LocksOK, LockedBy, HandlerAt, RefreshPCs
<1>6. /\ overtaken \subseteq overtaken' /\ overtaken' \subseteq Ids
      /\ BeingRevoked(family) => family \in overtaken'
    BY <1>1, <1>3 DEF SessionsTypeOK
<1>7. {s} \in SUBSET Born
    BY <1>2
<1>8. CASE FreshId \in Ids
    <2>1. row \in SessionRow /\ row.state = "live" /\ row.family = family
        BY <1>2 DEF Issued, SessionRow
    <2>2. ~clash => Proves(row)
        BY <1>4 DEF VersionsOK, Proves, Issued
    <2>3. family \notin reused \ overtaken'
        BY <1>4, <1>6 DEF ReuseEndsFamily
    <2> HIDE DEF row, family, s
    <2>4. QED
        BY <1>1, <1>3, <1>4, <1>5, <1>6, <1>7, <1>8, <2>1, <2>2, <2>3, InsertsOK
<1>9. CASE FreshId \notin Ids
    <2>1. sess' = Revoked({s})
        BY <1>1, <1>9 DEF Revoked
    <2> HIDE DEF row, family, s
    <2>2. /\ sess' \in [Ids -> SessionRow] /\ handler' \in [Handlers -> AnyHandler] /\ Shrinks
          /\ handler'[h] = Free /\ \A g \in Handlers \ {h} : handler'[g] = handler[g]
          /\ RowsHeldOK' /\ LocksOK' /\ RevocationsOK'
        BY <1>1, <1>5, <1>6, <1>7, <2>1, RevokesOK
    <2>3. SessionsTypeOK'
        BY <1>1, <1>6, <2>2 DEF SessionsTypeOK, AnyHandler
    <2>4. BornOK' /\ OneLivePerFamily' /\ ReuseEndsFamily'
        BY <1>1, <1>6, <2>2, TableShrinks
    <2>5. VersionsOK'
        BY <1>1, <2>2, ProofsKept DEF Free
    <2>6. QED
        BY <2>2, <2>3, <2>4, <2>5
<1>10. QED
    BY <1>8, <1>9
-----------------------------------------------------------------------------
LEMMA SessionsStepOK == SessionConstants /\ SessionsInv /\ [SessionsNext]_sessionVars => SessionsInv'
<1> SUFFICES ASSUME SessionConstants, SessionsInv, [SessionsNext]_sessionVars
             PROVE  SessionsInv'
    OBVIOUS
<1>1. CASE UNCHANGED sessionVars
    <2>1. UNCHANGED <<account, sess, handler, reused, overtaken, clash>>
        BY <1>1 DEF sessionVars
    <2>2. Born' = Born /\ LiveRows' = LiveRows
        BY <2>1 DEF Born, LiveRows, IsLive
    <2>3. SessionsTypeOK' /\ BornOK' /\ RowsHeldOK' /\ OneLivePerFamily' /\ ReuseEndsFamily'
        BY <2>1, <2>2 DEF SessionsInv, SessionsTypeOK, BornOK, RowsHeldOK, OneLivePerFamily, ReuseEndsFamily,
            LiveOf, HandlerAt
    <2>4. LocksOK' /\ RevocationsOK' /\ VersionsOK'
        BY <2>1, <2>2 DEF SessionsInv, LocksOK, LockedBy, RevocationsOK, VersionsOK, Proves, LiveOf, IsLive,
            HandlerAt
    <2>5. QED
        BY <2>3, <2>4 DEF SessionsInv
<1>2. QED
    BY <1>1, LoginReadsOK, RefreshReadsOK, OtherReadsOK, LeavesOK, RevokeOK, AccountOK, ExpiresOK,
       IssueOK, RotateOK DEF SessionsNext, HandlerStarts, HandlerContinues
-----------------------------------------------------------------------------
\* A refresh token can be rotated once: in any order of refreshes, logouts,
\* revocations and password changes a family has at most one row that is live.
THEOREM RotationIsSingleUse == SessionsSpec => []OneLivePerFamily
<1>1. SessionsInit => SessionsInv
    BY SessionsInitOK, SessionConstants
<1>2. SessionsInv /\ [SessionsNext]_sessionVars => SessionsInv'
    BY SessionsStepOK, SessionConstants
<1>3. SessionsInv => OneLivePerFamily
    BY DEF SessionsInv
<1>4. QED
    BY <1>1, <1>2, <1>3, PTL DEF SessionsSpec

\* A family that was answered "reuse detected" has no live row, unless a rotation
\* was committed while its rows were being selected and revoked.
THEOREM ReuseRevokes == SessionsSpec => []ReuseEndsFamily
<1>1. SessionsInit => SessionsInv
    BY SessionsInitOK, SessionConstants
<1>2. SessionsInv /\ [SessionsNext]_sessionVars => SessionsInv'
    BY SessionsStepOK, SessionConstants
<1>3. SessionsInv => ReuseEndsFamily
    BY DEF SessionsInv
<1>4. QED
    BY <1>1, <1>2, <1>3, PTL DEF SessionsSpec

\* A token that is accepted descends from a login with the present password, but
\* for a login that was overtaken and two changes that started from one version.
THEOREM TokensProvePassword == SessionsSpec => []UsableProvesPassword
<1>1. SessionsInit => SessionsInv
    BY SessionsInitOK, SessionConstants
<1>2. SessionsInv /\ [SessionsNext]_sessionVars => SessionsInv'
    BY SessionsStepOK, SessionConstants
<1>3. SessionsInv => UsableProvesPassword
    BY DEF SessionsInv, VersionsOK, Proves, UsableProvesPassword, Usable, LiveRows
<1>4. QED
    BY <1>1, <1>2, <1>3, PTL DEF SessionsSpec
-----------------------------------------------------------------------------
(* The refinement of TokenChain.                                             *)

\* What TokenChain sees of the table, now and after a step.
StateOf == [s \in Ids |-> sess[s].state]
ChainOf == [s \in Ids |-> IF sess[s].state = "unborn" THEN s ELSE sess[s].family]

\* A step that TokenChain does not see.
LEMMA ChainUnmoved ==
    ASSUME \A s \in Ids : sess'[s].state = sess[s].state /\ sess'[s].family = sess[s].family
    PROVE  UNCHANGED Chain!chainVars
<1>1. StateOf' = StateOf /\ ChainOf' = ChainOf
    BY DEF StateOf, ChainOf
<1>2. QED
    BY <1>1 DEF StateOf, ChainOf, Chain!chainVars

\* A transaction that only revokes rows.
LEMMA ChainRevokes ==
    ASSUME SessionConstants, SessionsTypeOK, NEW rows \in SUBSET Born, sess' = Revoked(rows)
    PROVE  Chain!ChainNext
<1>1. \A s \in Ids : IF s \in rows THEN sess'[s].state = "revoked" ELSE sess'[s] = sess[s]
    BY RevokedShrinks
<1>2. \A s \in Ids : /\ sess'[s].family = sess[s].family
                     /\ sess'[s].state = "unborn" <=> sess[s].state = "unborn"
    BY RevokedShrinks DEF Shrinks
<1>3. StateOf' = [t \in Ids |-> IF t \in rows THEN "revoked" ELSE StateOf[t]]
    BY <1>1 DEF StateOf
<1>4. ChainOf' = ChainOf
    BY <1>2 DEF ChainOf
<1>5. Chain!Revoke(rows)
    BY <1>3, <1>4 DEF Chain!Revoke, StateOf, ChainOf
<1>6. rows \in SUBSET (Ids \ Chain!Unsigned)
    BY DEF Born, Chain!Unsigned
<1>7. QED
    BY <1>5, <1>6 DEF Chain!ChainNext

\* The end of a login: a token that was never signed, and a chain of its own.
LEMMA ChainIssues ==
    ASSUME SessionConstants, SessionsInv, NEW h \in Handlers, LoginIssue(h)
    PROVE  [Chain!ChainNext]_Chain!chainVars
<1> DEFINE row == Issued(FreshId, handler[h].version, handler[h].pw, handler[h].late)
<1>1. sess' = [sess EXCEPT ![FreshId] = row] /\ row.state = "live" /\ row.family = FreshId
    BY DEF LoginIssue, Issued
<1>2. sess \in [Ids -> SessionRow]
    BY DEF SessionsInv, SessionsTypeOK
<1> HIDE DEF row
<1>3. CASE FreshId \notin Ids
    <2>1. sess' = sess
        BY <1>1, <1>2, <1>3
    <2>2. QED
        BY <2>1, ChainUnmoved
<1>4. CASE FreshId \in Ids
    <2>1. sess[FreshId].state = "unborn"
        BY <1>4, FreshIsUnborn DEF SessionsInv, Born
    <2>2. sess'[FreshId] = row /\ \A s \in Ids \ {FreshId} : sess'[s] = sess[s]
        BY <1>1, <1>2, <1>4
    <2>3. StateOf' = [StateOf EXCEPT ![FreshId] = "live"]
        <3>1. /\ StateOf'[FreshId] = "live"
              /\ \A s \in Ids \ {FreshId} : StateOf'[s] = StateOf[s]
            BY <1>1, <1>4, <2>2 DEF StateOf
        <3>2. QED
            BY <3>1 DEF StateOf
    <2>4. ChainOf' = ChainOf
        BY <1>1, <2>1, <2>2 DEF ChainOf
    <2>5. PICK t \in Ids : t = FreshId
        BY <1>4
    <2>6. t \in Chain!Unsigned
        BY <2>1, <2>5 DEF Chain!Unsigned
    <2>7. Chain!Issue(t)
        BY <2>3, <2>4, <2>5, <2>6 DEF Chain!Issue, StateOf, ChainOf
    <2>8. QED
        BY <2>7 DEF Chain!ChainNext
<1>5. QED
    BY <1>3, <1>4

\* The end of a refresh: the row that was locked is live, and its replacement new.
LEMMA ChainRotates ==
    ASSUME SessionConstants, SessionsInv, NEW h \in Handlers, RefreshRotate(h)
    PROVE  Chain!ChainNext
<1> DEFINE s == handler[h].row
           family == sess[s].family
           row == Issued(family, sess[s].version, sess[s].pw, sess[s].late)
<1>1. /\ HandlerAt(h, "rotating")
      /\ sess' = [Revoked({s}) EXCEPT ![FreshId] = row]
    BY DEF RefreshRotate
<1>2. s \in Born /\ s \in Ids /\ IsLive(s)
    BY <1>1 DEF SessionsInv, LocksOK, RowsHeldOK, HandlerAt, RefreshPCs, Born
<1>3. row.state = "live" /\ row.family = family
    BY DEF Issued
<1>4. CASE FreshId \notin Ids
    <2>1. sess' = Revoked({s})
        BY <1>1, <1>4 DEF Revoked
    <2>2. QED
        BY <1>2, <2>1, ChainRevokes DEF SessionsInv
<1>5. CASE FreshId \in Ids
    <2>1. sess[FreshId].state = "unborn" /\ FreshId # s
        BY <1>2, <1>5, FreshIsUnborn DEF SessionsInv, Born
    <2>2. /\ sess'[FreshId] = row
          /\ \A u \in Ids \ {FreshId} : sess'[u] = Revoked({s})[u]
        BY <1>1, <1>5 DEF Revoked
    <2>3. /\ Revoked({s})[s].state = "revoked" /\ Revoked({s})[s].family = family
          /\ \A u \in Ids \ {s} : Revoked({s})[u] = sess[u]
        <3>1. sess[s] \in SessionRow
            BY <1>2 DEF SessionsInv, SessionsTypeOK
        <3>2. /\ Revoked({s})[s] = [sess[s] EXCEPT !.state = "revoked", !.pw = 0, !.late = FALSE]
              /\ \A u \in Ids \ {s} : Revoked({s})[u] = sess[u]
            BY <1>2 DEF Revoked
        <3> HIDE DEF s, row
        <3>3. QED
            BY <3>1, <3>2 DEF SessionRow, family
    <2> HIDE DEF row, family
    <2>4. StateOf' = [StateOf EXCEPT ![s] = "revoked", ![FreshId] = "live"]
        BY <1>2, <1>3, <1>5, <2>1, <2>2, <2>3 DEF StateOf
    <2>5. ChainOf[s] = family
        BY <1>2 DEF ChainOf, IsLive, family
    <2>6. ChainOf' = [ChainOf EXCEPT ![FreshId] = ChainOf[s]]
        <3>1. \A u \in Ids \ {FreshId} : ChainOf'[u] = ChainOf[u]
            BY <1>2, <2>2, <2>3 DEF ChainOf, IsLive, family
        <3>2. ChainOf'[FreshId] = ChainOf[s]
            BY <1>3, <1>5, <2>2, <2>5 DEF ChainOf
        <3>3. QED
            BY <1>5, <3>1, <3>2 DEF ChainOf
    <2>7. PICK t \in Ids, u \in Ids : t = s /\ u = FreshId
        BY <1>2, <1>5
    <2>8. t \in Chain!Living /\ u \in Chain!Unsigned
        BY <1>2, <2>1, <2>7 DEF Chain!Living, Chain!Unsigned, IsLive
    <2>9. Chain!Rotate(t, u)
        BY <2>4, <2>6, <2>7, <2>8 DEF Chain!Rotate, StateOf, ChainOf
    <2>10. QED
        BY <2>9 DEF Chain!ChainNext
<1>6. QED
    BY <1>4, <1>5

LEMMA ChainStepOK ==
    ASSUME SessionConstants, SessionsInv, [SessionsNext]_sessionVars
    PROVE  [Chain!ChainNext]_Chain!chainVars
<1>1. CASE UNCHANGED sess
    BY <1>1, ChainUnmoved
<1>2. CASE sess' # sess
    <2>1. ASSUME NEW s \in Ids, SessionExpires(s)
          PROVE  UNCHANGED Chain!chainVars
        <3>1. sess' = [sess EXCEPT ![s].expired = TRUE] /\ sess \in [Ids -> SessionRow]
            BY <2>1 DEF SessionExpires, SessionsInv, SessionsTypeOK
        <3>2. \A u \in Ids : sess'[u].state = sess[u].state /\ sess'[u].family = sess[u].family
            BY <3>1 DEF SessionRow
        <3>3. QED
            BY <3>2, ChainUnmoved
    <2>2. ASSUME NEW h \in Handlers,
                 RefreshRevoke(h) \/ RefreshExpired(h) \/ LogoutCommit(h) \/ AccountCommit(h)
          PROVE  Chain!ChainNext
        <3>1. PICK rows \in SUBSET Born : sess' = Revoked(rows)
            BY <2>2 DEF RefreshRevoke, RefreshExpired, LogoutCommit, AccountCommit, SessionsInv,
                RowsHeldOK, HandlerAt, RefreshPCs
        <3>2. QED
            BY <3>1, ChainRevokes DEF SessionsInv
    <2>3. ASSUME NEW h \in Handlers, HandlerStarts(h) \/ HandlerContinues(h)
          PROVE  \/ RefreshRevoke(h) \/ RefreshExpired(h) \/ LogoutCommit(h) \/ AccountCommit(h)
                 \/ LoginIssue(h) \/ RefreshRotate(h)
        BY <1>2, <2>3 DEF HandlerStarts, HandlerContinues, LoginVerify, LoginReload, RefreshLock,
            RefreshJudge, LogoutLoad, AccountLoad, AccountSelect
    <2>4. QED
        BY <1>2, <2>1, <2>2, <2>3, ChainIssues, ChainRotates DEF SessionsNext, sessionVars
<1>3. QED
    BY <1>1, <1>2

\* Whatever requests overlap, the tokens of the account live as TokenChain says:
\* each is exchanged at most once, in one step with the birth of its successor.
THEOREM RotationIsTokenChain == SessionsSpec => ImplementsTokenChain
<1>1. SessionsInit => Chain!ChainInit
    <2> SUFFICES ASSUME SessionsInit
                 PROVE  Chain!ChainInit
        OBVIOUS
    <2>1. \A s \in Ids : sess[s].state = "unborn"
        BY DEF SessionsInit, NoSession
    <2>2. QED
        BY <2>1 DEF Chain!ChainInit
<1>2. SessionsInit => SessionsInv
    BY SessionsInitOK, SessionConstants
<1>3. SessionsInv /\ [SessionsNext]_sessionVars => SessionsInv'
    BY SessionsStepOK, SessionConstants
<1>4. SessionsInv /\ [SessionsNext]_sessionVars => [Chain!ChainNext]_Chain!chainVars
    BY ChainStepOK, SessionConstants
<1>5. QED
    BY <1>1, <1>2, <1>3, <1>4, PTL DEF SessionsSpec, ImplementsTokenChain, Chain!ChainSpec
-----------------------------------------------------------------------------
(* Deadlock.  NoRequestDeadlock speaks of ENABLED; what is proved is that the *)
(* conditions under which a request waits never hold of all that are in       *)
(* progress.  A request waits only for rows that are locked, so it is enough  *)
(* that the one that has locked the newest of them does not wait: the rows it *)
(* will revoke are its own or newer, because the live row of a family is its  *)
(* newest.                                                                    *)

\* A request that is to UPDATE a row somebody else has locked.
Waits(h) ==
    \/ handler[h].pc \in {"revoking", "selected"} /\ ~Unlocked(h, handler[h].rows)
    \/ HandlerAt(h, "leaving") /\ ~Unlocked(h, {handler[h].row})

SomebodyDoesNotWait ==
    (\E h \in Handlers : ~HandlerAt(h, "free")) =>
        \E h \in Handlers : ~HandlerAt(h, "free") /\ ~Waits(h)

\* No row of a family is newer than one that is live.
NewestLives == \A s \in Born : \A u \in LiveOf(sess[s].family) : s <= u

\* A refresh waits for newer rows than the one it has locked.
WaitsForNewer ==
    \A h \in Handlers : HandlerAt(h, "revoking") =>
        \A u \in handler[h].rows : handler[h].row <= u

LEMMA NewestStays ==
    ASSUME NewestLives, Shrinks
    PROVE  NewestLives'
<1>1. Born' = Born /\ Born \subseteq Ids
    BY ShrinksOK DEF Born
<1>2. \A s \in Ids : sess'[s].family = sess[s].family
    BY DEF Shrinks
<1>3. \A u \in LiveRows' : u \in LiveRows /\ u \in Ids
    BY ShrinksOK DEF LiveRows
<1>4. QED
    BY <1>1, <1>2, <1>3 DEF NewestLives, LiveOf

LEMMA NewestIsInserted ==
    ASSUME SessionConstants, SessionsInv, NewestLives, NEW rows \in SUBSET Born, NEW row \in SessionRow,
           FreshId \in Ids, sess' = [Revoked(rows) EXCEPT ![FreshId] = row],
           LiveOf(row.family) \subseteq rows, row.state = "live"
    PROVE  NewestLives'
<1> DEFINE id == FreshId
<1> USE DEF SessionsInv
<1>1. id \in Nat \ {0} /\ Born = 1 .. id - 1 /\ id \notin Born /\ Born \subseteq Ids
    BY FreshIsUnborn DEF Born
<1>2. sess' = [Revoked(rows) EXCEPT ![id] = row] /\ id \in Ids
    OBVIOUS
<1> HIDE DEF id
<1>3. \A s \in Ids : IF s \in rows THEN Revoked(rows)[s].state = "revoked"
                                        /\ Revoked(rows)[s].family = sess[s].family
                                   ELSE Revoked(rows)[s] = sess[s]
    <2>1. ASSUME NEW s \in Ids
          PROVE  /\ sess[s] \in SessionRow
                 /\ [sess[s] EXCEPT !.state = "revoked", !.pw = 0, !.late = FALSE].state = "revoked"
                 /\ [sess[s] EXCEPT !.state = "revoked", !.pw = 0, !.late = FALSE].family = sess[s].family
        BY DEF SessionsTypeOK, SessionRow
    <2>2. QED
        BY <2>1 DEF Revoked
<1>4. /\ sess'[id] = row
      /\ \A s \in Ids \ {id} :
            IF s \in rows THEN sess'[s].state = "revoked" /\ sess'[s].family = sess[s].family
                          ELSE sess'[s] = sess[s]
    BY <1>2, <1>3 DEF Revoked
<1>5. \A s \in Born' : s = id \/ (s # id /\ s \in Born /\ sess'[s].family = sess[s].family)
    BY <1>1, <1>4 DEF Born
<1>6. \A u \in LiveRows' \ {id} : u \in LiveRows /\ u \notin rows /\ sess'[u] = sess[u] /\ u \in Ids
    BY <1>4 DEF LiveRows, IsLive
<1> SUFFICES ASSUME NEW s \in Born', NEW u \in LiveRows', sess'[u].family = sess'[s].family
             PROVE  s <= u
    BY DEF NewestLives, LiveOf
<1>7. CASE u = id
    BY <1>1, <1>5, <1>7
<1>8. CASE u # id /\ s # id
    <2>1. s \in Born /\ u \in LiveOf(sess[s].family)
        BY <1>5, <1>6, <1>8 DEF LiveOf
    <2>2. QED
        BY <2>1 DEF NewestLives
<1>9. CASE u # id /\ s = id
    BY <1>4, <1>6, <1>9 DEF LiveOf
<1>10. QED
    BY <1>7, <1>8, <1>9

LEMMA NewestStep ==
    ASSUME SessionConstants, SessionsInv, NewestLives, [SessionsNext]_sessionVars
    PROVE  NewestLives'
<1> USE DEF SessionsInv
<1>1. CASE sess' = sess
    BY <1>1 DEF NewestLives, Born, LiveOf, LiveRows, IsLive
<1>2. ASSUME NEW s \in Ids, SessionExpires(s)
      PROVE  NewestLives'
    BY <1>2 DEF SessionExpires, NewestLives, Born, LiveOf, LiveRows, IsLive, SessionsTypeOK, SessionRow
<1>3. ASSUME NEW h \in Handlers,
             RefreshRevoke(h) \/ RefreshExpired(h) \/ LogoutCommit(h) \/ AccountCommit(h)
      PROVE  NewestLives'
    <2>1. \E rows \in SUBSET Born : sess' = Revoked(rows)
        <3>1. CASE RefreshRevoke(h)
            BY <3>1 DEF RefreshRevoke, RowsHeldOK, HandlerAt, RefreshPCs
        <3>2. CASE RefreshExpired(h) \/ LogoutCommit(h)
            BY <3>2 DEF RefreshExpired, LogoutCommit, RowsHeldOK, HandlerAt, RefreshPCs
        <3>3. CASE AccountCommit(h)
            BY <3>3 DEF AccountCommit, RowsHeldOK, HandlerAt
        <3>4. QED
            BY <1>3, <3>1, <3>2, <3>3
    <2>2. QED
        BY <2>1, RevokedShrinks, NewestStays
<1>4. ASSUME NEW h \in Handlers, LoginIssue(h)
      PROVE  NewestLives'
    <2> DEFINE row == Issued(FreshId, handler[h].version, handler[h].pw, handler[h].late)
    <2>1. sess' = [sess EXCEPT ![FreshId] = row] /\ handler[h] \in LoginRecord
        BY <1>4, HandlerIs DEF LoginIssue, HandlerAt, LoginPCs
    <2>2. CASE FreshId \notin Ids
        <3>1. sess' = sess
            BY <2>1, <2>2 DEF SessionsTypeOK
        <3>2. QED
            BY <1>1, <3>1
    <2>3. CASE FreshId \in Ids
        <3>1. row \in SessionRow /\ row.state = "live" /\ row.family = FreshId
            BY <2>1, <2>3 DEF Issued, SessionRow, LoginRecord, Ids, SessionConstants
        <3>2. LiveOf(FreshId) \subseteq {}
            <4>1. LiveRows \subseteq Born
                BY DEF LiveRows, IsLive, Born
            <4>2. QED
                BY <4>1, FreshIsUnborn DEF BornOK, LiveOf
        <3>3. sess = Revoked({})
            BY DEF Revoked, SessionsTypeOK
        <3> HIDE DEF row
        <3>4. QED
            BY <2>1, <2>3, <3>1, <3>2, <3>3, NewestIsInserted
    <2>4. QED
        BY <2>2, <2>3
<1>5. ASSUME NEW h \in Handlers, RefreshRotate(h)
      PROVE  NewestLives'
    <2> DEFINE s == handler[h].row
               row == Issued(sess[s].family, sess[s].version, sess[s].pw, sess[s].late)
    <2>1. sess' = [Revoked({s}) EXCEPT ![FreshId] = row]
        BY <1>5 DEF RefreshRotate
    <2>2. s \in Born /\ IsLive(s) /\ sess[s] \in SessionRow
        BY <1>5 DEF RefreshRotate, LocksOK, RowsHeldOK, HandlerAt, RefreshPCs, Born, SessionsTypeOK
    <2>3. LiveOf(sess[s].family) \subseteq {s}
        BY <2>2 DEF LiveOf, LiveRows, OneLivePerFamily, Born
    <2>4. row \in SessionRow /\ row.state = "live" /\ row.family = sess[s].family
        BY <2>2 DEF Issued, SessionRow
    <2> HIDE DEF row, s
    <2>5. CASE FreshId \in Ids
        BY <2>1, <2>2, <2>3, <2>4, <2>5, NewestIsInserted
    <2>6. CASE FreshId \notin Ids
        <3>1. sess' = Revoked({s})
            BY <2>1, <2>6 DEF Revoked
        <3>2. QED
            BY <2>2, <3>1, RevokedShrinks, NewestStays
    <2>7. QED
        BY <2>5, <2>6
<1>6. CASE SessionsNext
    <2>1. ASSUME NEW h \in Handlers, HandlerStarts(h) \/ HandlerContinues(h)
          PROVE  NewestLives'
        <3>1. CASE HandlerStarts(h)
            BY <1>1, <3>1 DEF HandlerStarts, LoginVerify, RefreshLock, LogoutLoad, AccountLoad
        <3>2. CASE LoginReload(h) \/ RefreshJudge(h) \/ AccountSelect(h)
            BY <1>1, <3>2 DEF LoginReload, RefreshJudge, AccountSelect
        <3>3. QED
            BY <1>3, <1>4, <1>5, <2>1, <3>1, <3>2 DEF HandlerContinues
    <2>2. QED
        BY <1>2, <1>6, <2>1 DEF SessionsNext
<1>7. QED
    BY <1>1, <1>6 DEF sessionVars

\* A handler moves, and if it is to revoke a family it will wait for newer rows.
LEMMA WaiterMoved ==
    ASSUME SessionsTypeOK, WaitsForNewer, NEW h \in Handlers, NEW next \in AnyHandler,
           BecomesHandler(h, next),
           next.pc = "revoking" => \A u \in next.rows : next.row <= u
    PROVE  WaitsForNewer'
<1>1. handler'[h] = next /\ \A g \in Handlers \ {h} : handler'[g] = handler[g]
    BY HandlerMoved DEF AnyHandler
<1>2. QED
    BY <1>1 DEF WaitsForNewer, HandlerAt

LEMMA WaitsStep ==
    ASSUME SessionConstants, SessionsInv, NewestLives, WaitsForNewer, [SessionsNext]_sessionVars
    PROVE  WaitsForNewer'
<1> USE DEF SessionsInv
<1>1. CASE handler' = handler
    BY <1>1 DEF WaitsForNewer, HandlerAt
<1>2. ASSUME NEW h \in Handlers, BecomesHandler(h, Free)
      PROVE  WaitsForNewer'
    BY <1>2, WaiterMoved DEF AnyHandler, Free
<1>3. ASSUME NEW h \in Handlers, RefreshJudge(h)
      PROVE  WaitsForNewer'
    <2>1. PICK next \in RefreshRecord :
              /\ BecomesHandler(h, next)
              /\ next.row = handler[h].row /\ next.rows \in SUBSET Born
              /\ next.pc \in {"rotating", "revoking", "expiring"}
              /\ next.pc = "revoking" => next.rows = LiveOf(sess[next.row].family)
              /\ next.pc = "rotating" => IsLive(next.row)
        BY <1>3, JudgeIs
    <2>2. next.row \in Born
        BY <1>3, <2>1 DEF RefreshJudge, RowsHeldOK, HandlerAt, RefreshPCs
    <2>3. next.pc = "revoking" => \A u \in next.rows : next.row <= u
        BY <2>1, <2>2 DEF NewestLives
    <2>4. QED
        BY <2>1, <2>3, WaiterMoved DEF AnyHandler
<1>4. ASSUME NEW h \in Handlers, HandlerStarts(h) \/ LoginReload(h) \/ AccountSelect(h)
      PROVE  WaitsForNewer'
    <2>1. \A g \in Handlers \ {h} : handler'[g] = handler[g]
        BY <1>4 DEF HandlerStarts, LoginVerify, RefreshLock, LogoutLoad, AccountLoad, LoginReload,
                    AccountSelect, BecomesHandler, SessionsTypeOK
    <2>2. handler'[h].pc # "revoking"
        <3>1. handler = [g \in Handlers |-> handler[g]]
            BY DEF SessionsTypeOK
        <3>2. CASE HandlerStarts(h)
            <4>1. \E next : BecomesHandler(h, next) /\ next.pc # "revoking"
                <5>1. CASE LoginVerify(h)
                    BY <5>1 DEF LoginVerify
                <5>2. ASSUME NEW s \in Ids, RefreshLock(h, s) \/ LogoutLoad(h, s)
                      PROVE  \E next : BecomesHandler(h, next) /\ next.pc # "revoking"
                    <6>1. CASE RefreshLock(h, s)
                        BY <6>1 DEF RefreshLock, OpenRefresh
                    <6>2. CASE LogoutLoad(h, s)
                        BY <6>2 DEF LogoutLoad
                    <6>3. QED
                        BY <5>2, <6>1, <6>2
                <5>3. ASSUME NEW act \in {"password", "deactivate"}, AccountLoad(h, act)
                      PROVE  \E next : BecomesHandler(h, next) /\ next.pc # "revoking"
                    BY <5>3 DEF AccountLoad
                <5>4. QED
                    BY <3>2, <5>1, <5>2, <5>3 DEF HandlerStarts
            <4>2. QED
                BY <3>1, <4>1 DEF BecomesHandler
        <3>3. CASE LoginReload(h)
            <4>1. handler[h] \in LoginRecord
                BY <3>3, HandlerIs DEF LoginReload, HandlerAt, LoginPCs
            <4>2. QED
                BY <3>1, <3>3, <4>1 DEF LoginReload, BecomesHandler, LoginRecord
        <3>4. CASE AccountSelect(h)
            <4>1. handler[h] \in AccountRecord
                BY <3>4, HandlerIs DEF AccountSelect, HandlerAt
            <4>2. QED
                BY <3>1, <3>4, <4>1 DEF AccountSelect, BecomesHandler, AccountRecord
        <3>5. QED
            BY <1>4, <3>2, <3>3, <3>4
    <2>3. QED
        BY <2>1, <2>2 DEF WaitsForNewer, HandlerAt
<1>5. CASE SessionsNext
    <2>1. ASSUME NEW h \in Handlers, HandlerContinues(h)
          PROVE  WaitsForNewer'
        <3>1. CASE LoginReload(h) \/ AccountSelect(h)
            BY <1>4, <3>1
        <3>2. CASE RefreshJudge(h)
            BY <1>3, <3>2
        <3>3. CASE \/ LoginIssue(h) \/ RefreshRotate(h) \/ RefreshRevoke(h) \/ RefreshExpired(h)
                   \/ LogoutCommit(h) \/ AccountCommit(h)
            BY <1>2, <3>3 DEF LoginIssue, RefreshRotate, RefreshRevoke, RefreshExpired, LogoutCommit,
                              AccountCommit
        <3>4. QED
            BY <2>1, <3>1, <3>2, <3>3 DEF HandlerContinues
    <2>2. CASE \E s \in Ids : SessionExpires(s)
        BY <1>1, <2>2 DEF SessionExpires
    <2>3. QED
        BY <1>4, <1>5, <2>1, <2>2 DEF SessionsNext
<1>6. QED
    BY <1>1, <1>5 DEF sessionVars

\* Of some numbers up to a bound there is a greatest.
LEMMA GreatestOf ==
    ASSUME NEW last \in Nat, NEW S, S \subseteq 1 .. last, S # {}
    PROVE  \E x \in S : \A y \in S : y <= x
<1> DEFINE back == {last - i : i \in S}
<1>1. \A i \in S : i \in Nat /\ last - i \in Nat
    OBVIOUS
<1>2. back \subseteq Nat /\ back # {}
    BY <1>1
<1>3. PICK m \in back : \A k \in back : ~(<<k, m>> \in OpToRel(<, Nat))
    BY <1>2, WFMin, NatLessThanWellFounded, Zenon
<1>4. m \in Nat /\ \A k \in back : ~(k < m)
    BY <1>2, <1>3 DEF OpToRel
<1>5. PICK x \in S : m = last - x
    BY <1>3
<1>6. \A y \in S : y <= x
    <2>1. SUFFICES ASSUME NEW y \in S PROVE y <= x
        OBVIOUS
    <2>2. last - y \in back
        OBVIOUS
    <2>3. ~(last - y < last - x)
        BY <1>4, <1>5, <2>2
    <2>4. x \in Nat /\ y \in Nat
        BY <1>1
    <2>5. QED
        BY <2>3, <2>4
<1>7. QED
    BY <1>6

\* The requests in progress never all wait for rows that others have locked:
\* refresh locks one row of a family, and waits for newer ones only.
THEOREM RequestsDoNotDeadlock == SessionsSpec => []SomebodyDoesNotWait
<1>1. SessionConstants
    BY SessionConstants
<1>2. SessionsInit => SessionsInv /\ NewestLives /\ WaitsForNewer
    <2>1. SessionsInit => SessionsInv
        BY <1>1, SessionsInitOK
    <2>2. SessionsInit => NewestLives /\ WaitsForNewer
        BY DEF SessionsInit, NewestLives, WaitsForNewer, Born, NoSession, Free, HandlerAt
    <2>3. QED
        BY <2>1, <2>2
<1>3. /\ SessionsInv /\ NewestLives /\ WaitsForNewer
      /\ [SessionsNext]_sessionVars
      => (SessionsInv /\ NewestLives /\ WaitsForNewer)'
    BY <1>1, SessionsStepOK, NewestStep, WaitsStep
<1>4. SessionsInv /\ WaitsForNewer => SomebodyDoesNotWait
    <2> SUFFICES ASSUME SessionsInv, WaitsForNewer, NEW f \in Handlers, ~HandlerAt(f, "free")
                 PROVE  \E h \in Handlers : ~HandlerAt(h, "free") /\ ~Waits(h)
        BY DEF SomebodyDoesNotWait
    <2> DEFINE locked == UNION {LockedBy(h) : h \in Handlers}
    <2>1. CASE locked = {}
        BY <2>1 DEF Waits, Unlocked
    <2>2. CASE locked # {}
        <3>1. locked \subseteq 1 .. MaxSessions /\ MaxSessions \in Nat
            BY <1>1 DEF LockedBy, SessionsInv, RowsHeldOK, Born, Ids, SessionConstants
        <3>2. PICK top \in locked : \A row \in locked : row <= top
            <4> HIDE DEF locked
            <4>1. QED
                BY <2>2, <3>1, GreatestOf
        <3>3. PICK h \in Handlers : top \in LockedBy(h)
            BY <3>2
        <3>4. handler[h].pc \in RefreshPCs /\ handler[h].row = top
            BY <3>3 DEF LockedBy
        <3>5. \A g \in Handlers \ {h} : \A row \in LockedBy(g) : row <= top /\ row # top
            BY <3>2, <3>3 DEF SessionsInv, LocksOK
        <3>6. ASSUME HandlerAt(h, "revoking")
              PROVE  Unlocked(h, handler[h].rows)
            <4>1. \A u \in handler[h].rows : top <= u /\ u \in Nat
                BY <3>4, <3>6 DEF WaitsForNewer, SessionsInv, RowsHeldOK, Born, Ids
            <4>2. \A g \in Handlers \ {h} : \A row \in LockedBy(g) : row \in locked /\ row \in Nat
                BY <3>1
            <4>3. top \in Nat
                BY <3>1, <3>2
            <4> HIDE DEF locked
            <4>4. QED
                BY <3>5, <4>1, <4>2, <4>3 DEF Unlocked
        <3>7. QED
            BY <3>4, <3>6 DEF Waits, HandlerAt, RefreshPCs
    <2>3. QED
        BY <2>1, <2>2
<1>5. QED
    BY <1>2, <1>3, <1>4, PTL DEF SessionsSpec
-----------------------------------------------------------------------------
(* The rate limiter.                                                         *)

LimiterInv == LimiterTypeOK /\ UnexpiringIsPending /\ LockoutOvershootBounded
-----------------------------------------------------------------------------
(* The rate limiter: lemmas.                                                *)

\* The counts of callers are numbers.
LEMMA CallerSets ==
    ASSUME LimiterConstants
    PROVE  /\ Cardinality(Callers) \in Nat
           /\ IsFiniteSet(Checking) /\ Cardinality(Checking) \in Nat
           /\ Cardinality(Checking) <= Cardinality(Callers)
           /\ \A k \in Keys : IsFiniteSet(Expiring(k)) /\ Cardinality(Expiring(k)) \in Nat
<1>1. IsFiniteSet(Callers)
    BY DEF LimiterConstants
<1>2. Checking \in SUBSET Callers /\ \A k \in Keys : Expiring(k) \in SUBSET Callers
    BY DEF Checking, Expiring
<1>3. /\ IsFiniteSet(Checking) /\ Cardinality(Checking) <= Cardinality(Callers)
      /\ \A k \in Keys : IsFiniteSet(Expiring(k))
    BY <1>1, <1>2, FS_Subset
<1>4. QED
    BY <1>1, <1>3, FS_CardinalityType

\* What the step of one caller does to the two counts.
LEMMA CallerStep ==
    ASSUME LimiterConstants, LimiterTypeOK, NEW c \in Callers, NEW a \in CallerRecord,
           CallerMoves(c, a)
    PROVE  /\ caller' \in [Callers -> CallerRecord] /\ caller'[c] = a
           /\ Cardinality(Checking') \in Nat
           /\ Cardinality(Checking') <= Cardinality(Callers)
           /\ Cardinality(Checking') =
                 (Cardinality(Checking) - (IF c \in Checking THEN 1 ELSE 0))
                     + (IF a.pc \in {"checking", "failed"} THEN 1 ELSE 0)
           /\ \A k \in Keys :
                 /\ Cardinality(Expiring(k)') \in Nat
                 /\ Cardinality(Expiring(k)') =
                       (Cardinality(Expiring(k)) - (IF c \in Expiring(k) THEN 1 ELSE 0))
                           + (IF a.pc = "expiring" /\ a.key = k THEN 1 ELSE 0)
<1>1. /\ caller' \in [Callers -> CallerRecord] /\ caller'[c] = a
      /\ \A d \in Callers \ {c} : caller'[d] = caller[d]
    BY DEF LimiterTypeOK, CallerMoves
<1>2. /\ IsFiniteSet(Checking) /\ Cardinality(Checking) \in Nat
      /\ \A k \in Keys : IsFiniteSet(Expiring(k)) /\ Cardinality(Expiring(k)) \in Nat
      /\ Cardinality(Callers) \in Nat
    BY CallerSets
<1>3. ASSUME NEW S, NEW T, IsFiniteSet(S), NEW in \in BOOLEAN,
             T = IF in THEN (S \ {c}) \cup {c} ELSE S \ {c}
      PROVE  /\ IsFiniteSet(T) /\ Cardinality(T) \in Nat
             /\ Cardinality(T) = (Cardinality(S) - (IF c \in S THEN 1 ELSE 0)) + (IF in THEN 1 ELSE 0)
    <2>1. Cardinality(S) \in Nat
        BY <1>3, FS_CardinalityType
    <2>2. /\ IsFiniteSet(S \ {c})
          /\ Cardinality(S \ {c}) = IF c \in S THEN Cardinality(S) - 1 ELSE Cardinality(S)
        BY <1>3, FS_RemoveElement
    <2>3. /\ IsFiniteSet((S \ {c}) \cup {c})
          /\ Cardinality((S \ {c}) \cup {c}) = Cardinality(S \ {c}) + 1
        <3>1. c \notin S \ {c}
            OBVIOUS
        <3>2. QED
            BY <2>2, <3>1, FS_AddElement
    <2>4. IsFiniteSet(T)
        BY <1>3, <2>2, <2>3
    <2>5. Cardinality(T) \in Nat
        BY <2>4, FS_CardinalityType
    <2>6. QED
        BY <1>3, <2>1, <2>2, <2>3, <2>4, <2>5
<1>4. Checking' = IF a.pc \in {"checking", "failed"} THEN (Checking \ {c}) \cup {c} ELSE Checking \ {c}
    BY <1>1 DEF Checking
<1>5. ASSUME NEW k \in Keys
      PROVE  Expiring(k)' = IF a.pc = "expiring" /\ a.key = k
                            THEN (Expiring(k) \ {c}) \cup {c} ELSE Expiring(k) \ {c}
    BY <1>1 DEF Expiring, CallerAt
<1>6. (a.pc \in {"checking", "failed"}) \in BOOLEAN /\ \A k \in Keys : (a.pc = "expiring" /\ a.key = k) \in BOOLEAN
    OBVIOUS
<1>7. /\ Cardinality(Checking') \in Nat
      /\ Cardinality(Checking') =
                 (Cardinality(Checking) - (IF c \in Checking THEN 1 ELSE 0))
                     + (IF a.pc \in {"checking", "failed"} THEN 1 ELSE 0)
    BY <1>2, <1>3, <1>4, <1>6
<1>8. Cardinality(Checking') <= Cardinality(Callers)
    <2>1. Checking' \in SUBSET Callers
        BY DEF Checking
    <2>2. QED
        BY <2>1, FS_Subset DEF LimiterConstants
<1>9. ASSUME NEW k \in Keys
      PROVE  /\ Cardinality(Expiring(k)') \in Nat
             /\ Cardinality(Expiring(k)') =
                       (Cardinality(Expiring(k)) - (IF c \in Expiring(k) THEN 1 ELSE 0))
                           + (IF a.pc = "expiring" /\ a.key = k THEN 1 ELSE 0)
    BY <1>2, <1>3, <1>5, <1>6
<1>10. QED
    BY <1>1, <1>7, <1>8, <1>9

LEMMA LimiterInitOK == LimiterConstants /\ LimiterInit => LimiterInv
<1> SUFFICES ASSUME LimiterConstants, LimiterInit PROVE LimiterInv
    OBVIOUS
<1>1. LimiterTypeOK
    BY DEF LimiterInit, LimiterTypeOK, CallerRecord, CallerPCs, Away, Attempt, Keys
<1>2. UnexpiringIsPending
    BY DEF UnexpiringIsPending, LimiterInit
<1>3. LockoutOvershootBounded
    <2>1. count["account"] = 0 /\ letPast = 0
        BY DEF LimiterInit, Keys
    <2>2. AccountLimit \in Nat
        BY DEF LimiterConstants
    <2>3. QED
        BY <2>1, <2>2, CallerSets DEF LockoutOvershootBounded
<1>4. QED
    BY <1>1, <1>2, <1>3 DEF LimiterInv

\* The attempts the actions make are records of a caller.
LEMMA AttemptType ==
    /\ \A pc \in CallerPCs, k \in Keys, over \in BOOLEAN :
          /\ Attempt(pc, k, over) \in CallerRecord
          /\ Attempt(pc, k, over).pc = pc /\ Attempt(pc, k, over).key = k
          /\ Attempt(pc, k, over).over = over
    /\ Away \in CallerRecord /\ Away.pc = "away"
    /\ \A k \in Keys, over \in BOOLEAN :
          AfterIncr(k, over) \in CallerRecord /\ AfterIncr(k, over).pc \in {"admitted", "away"}
BY DEF Attempt, CallerRecord, CallerPCs, Keys, Away, AfterIncr

\* INCR, EXPIRE and their failures.
LEMMA CountingOK ==
    ASSUME LimiterConstants, LimiterInv, NEW c \in Callers, NEW k \in Keys,
           Incr(c, k) \/ IncrRaises(c, k) \/ SetExpiry(c, k) \/ ExpiryRaises(c, k)
    PROVE  LimiterInv'
<1> USE DEF LimiterInv
<1>1. /\ count \in [Keys -> Nat] /\ expires \subseteq Keys /\ unexpired \in [Keys -> Nat]
      /\ mishaps \in Nat /\ letPast \in Nat
      /\ caller \in [Callers -> CallerRecord] /\ caller[c] \in CallerRecord
    BY DEF LimiterTypeOK
<1>2. /\ Cardinality(Callers) \in Nat /\ Cardinality(Checking) \in Nat
      /\ \A j \in Keys : Cardinality(Expiring(j)) \in Nat
      /\ AccountLimit \in Nat /\ AddressLimit \in Nat /\ "account" \in Keys
    BY CallerSets DEF LimiterConstants, Keys
<1>3. CASE Incr(c, k)
    <2> DEFINE over == count[k] >= Limit(k)
               a == IF k \in expires THEN AfterIncr(k, over) ELSE Attempt("expiring", k, over)
    <2>1. a \in CallerRecord /\ a.pc \in {"admitted", "away", "expiring"}
          /\ (a.pc = "expiring" <=> k \notin expires) /\ (a.pc = "expiring" => a.key = k)
        <3>1. over \in BOOLEAN /\ "expiring" \in CallerPCs
            BY DEF CallerPCs
        <3> HIDE DEF over
        <3>2. CASE k \in expires
            <4>1. a = AfterIncr(k, over)
                BY <3>2
            <4>2. AfterIncr(k, over) \in CallerRecord /\ AfterIncr(k, over).pc \in {"admitted", "away"}
                BY <3>1, AttemptType
            <4>3. QED
                BY <3>2, <4>1, <4>2
        <3>3. CASE k \notin expires
            <4>1. a = Attempt("expiring", k, over)
                BY <3>3
            <4>2. /\ Attempt("expiring", k, over) \in CallerRecord
                  /\ Attempt("expiring", k, over).pc = "expiring" /\ Attempt("expiring", k, over).key = k
                BY <3>1, AttemptType
            <4>3. QED
                BY <3>3, <4>1, <4>2
        <3>4. QED
            BY <3>2, <3>3
    <2>2. CallerMoves(c, a) /\ count' = [count EXCEPT ![k] = @ + 1]
          /\ UNCHANGED <<expires, mishaps, letPast, unexpired>> /\ Charges(c, k)
        BY <1>3 DEF Incr
    <2>3. LimiterTypeOK'
        BY <1>1, <2>1, <2>2, CallerStep DEF LimiterTypeOK
    <2>4. /\ \A j \in Keys : c \notin Expiring(j)
          /\ k = "account" => c \in Checking
          /\ k = "address" => c \notin Checking
        BY <2>2 DEF Charges, Expiring, Checking, CallerAt
    <2>5. ASSUME NEW j \in Keys, count'[j] > 0, j \notin expires'
          PROVE  count'[j] <= unexpired'[j] + Cardinality(Expiring(j)')
        <3>1. Cardinality(Expiring(j)') = Cardinality(Expiring(j))
                  + (IF a.pc = "expiring" /\ a.key = j THEN 1 ELSE 0)
            BY <1>2, <2>1, <2>2, <2>4, CallerStep
        <3>2. count[j] > 0 => count[j] <= unexpired[j] + Cardinality(Expiring(j))
            BY <2>2, <2>5 DEF UnexpiringIsPending
        <3>3. CASE j = k
            BY <1>1, <1>2, <2>1, <2>2, <2>5, <3>1, <3>2, <3>3
        <3>4. CASE j # k
            BY <1>1, <1>2, <2>1, <2>2, <2>5, <3>1, <3>2, <3>4
        <3>5. QED
            BY <3>3, <3>4
    <2>6. LockoutOvershootBounded'
        <3>1. Cardinality(Checking') = Cardinality(Checking) - (IF c \in Checking THEN 1 ELSE 0)
            BY <1>2, <2>1, <2>2, CallerStep
        <3>2. CASE k = "account"
            BY <1>1, <1>2, <2>2, <2>4, <3>1, <3>2 DEF LockoutOvershootBounded
        <3>3. CASE k = "address"
            BY <1>1, <1>2, <2>2, <2>4, <3>1, <3>3 DEF LockoutOvershootBounded
        <3>4. QED
            BY <3>2, <3>3 DEF Keys
    <2>7. QED
        BY <2>3, <2>5, <2>6 DEF UnexpiringIsPending
<1>4. CASE IncrRaises(c, k)
    <2> DEFINE a == AfterIncr(k, FALSE)
    <2>1. a \in CallerRecord /\ a.pc \in {"admitted", "away"}
        BY AttemptType
    <2>2. /\ CallerMoves(c, a) /\ UNCHANGED <<count, expires, letPast, unexpired>>
          /\ Charges(c, k) /\ mishaps' \in Nat
        <3>1. CallerMoves(c, a) /\ UNCHANGED <<count, expires, letPast, unexpired>> /\ Charges(c, k)
            BY <1>4 DEF IncrRaises
        <3>2. mishaps' = mishaps + 1
            BY <1>4 DEF IncrRaises, Mishap
        <3>3. mishaps' \in Nat
            BY <1>1, <3>2
        <3>4. QED
            BY <3>1, <3>3
    <2>3. LimiterTypeOK'
        BY <1>1, <2>1, <2>2, CallerStep DEF LimiterTypeOK
    <2>4. \A j \in Keys : c \notin Expiring(j)
        BY <2>2 DEF Charges, Expiring, CallerAt
    <2> HIDE DEF a
    <2>5. \A j \in Keys : Cardinality(Expiring(j)') = Cardinality(Expiring(j))
        BY <1>2, <2>1, <2>2, <2>4, CallerStep
    <2>6. UnexpiringIsPending'
        BY <2>2, <2>5 DEF UnexpiringIsPending
    <2>7. Cardinality(Checking') \in Nat /\ Cardinality(Checking') <= Cardinality(Checking)
        BY <1>2, <2>1, <2>2, CallerStep
    <2>8. LockoutOvershootBounded'
        BY <1>1, <1>2, <2>2, <2>7 DEF LockoutOvershootBounded
    <2>9. QED
        BY <2>3, <2>6, <2>8
<1>5. CASE SetExpiry(c, k) \/ ExpiryRaises(c, k)
    <2>1. PICK a \in CallerRecord : CallerMoves(c, a) /\ a.pc \in {"admitted", "away"}
        <3>1. caller[c].over \in BOOLEAN
            BY <1>1 DEF CallerRecord
        <3>2. QED
            BY <1>5, <3>1, AttemptType DEF SetExpiry, ExpiryRaises
    <2>2. /\ c \in Expiring(k) /\ caller[c].pc = "expiring" /\ caller[c].key = k
          /\ count' = count /\ letPast' = letPast
          /\ mishaps' \in Nat
          /\ expires' \subseteq Keys /\ unexpired' \in [Keys -> Nat]
          /\ \A j \in Keys \ {k} : unexpired'[j] = unexpired[j] /\ (j \in expires' <=> j \in expires)
          /\ \/ unexpired'[k] = unexpired[k] + 1 /\ expires' = expires
             \/ count[k] > 0 => k \in expires'
        <3>1. CASE SetExpiry(c, k)
            BY <1>1, <3>1 DEF SetExpiry, Expiring, CallerAt
        <3>2. CASE ExpiryRaises(c, k)
            BY <1>1, <3>2 DEF ExpiryRaises, Expiring, CallerAt, Mishap
        <3>3. QED
            BY <1>5, <3>1, <3>2
    <2>3. LimiterTypeOK'
        BY <1>1, <2>1, <2>2, CallerStep DEF LimiterTypeOK
    <2>4. ASSUME NEW j \in Keys, count'[j] > 0, j \notin expires'
          PROVE  count'[j] <= unexpired'[j] + Cardinality(Expiring(j)')
        <3>1. Cardinality(Expiring(j)') = Cardinality(Expiring(j)) - (IF c \in Expiring(j) THEN 1 ELSE 0)
            BY <1>2, <2>1, <2>2, CallerStep
        <3>2. c \in Expiring(j) <=> j = k
            BY <2>2 DEF Expiring
        <3>3. j \notin expires /\ count[j] > 0
            BY <1>1, <2>2, <2>4
        <3>4. count[j] <= unexpired[j] + Cardinality(Expiring(j))
            BY <3>3 DEF UnexpiringIsPending
        <3>5. unexpired'[j] = IF j = k THEN unexpired[j] + 1 ELSE unexpired[j]
            BY <2>2, <2>4, <3>3
        <3>6. QED
            BY <1>1, <1>2, <2>2, <3>1, <3>2, <3>4, <3>5
    <2>5. LockoutOvershootBounded'
        <3>1. c \notin Checking
            BY <2>2 DEF Checking
        <3>2. Cardinality(Checking') = Cardinality(Checking)
            BY <1>2, <2>1, <3>1, CallerStep
        <3>3. QED
            BY <2>2, <3>2 DEF LockoutOvershootBounded
    <2>6. QED
        BY <2>3, <2>4, <2>5 DEF UnexpiringIsPending
<1>6. QED
    BY <1>3, <1>4, <1>5

\* The other steps of an attempt.
LEMMA AttemptOK ==
    ASSUME LimiterConstants, LimiterInv, NEW c \in Callers,
           Arrive(c) \/ AssertUnder(c) \/ PeekRaises(c) \/ Compare(c) \/ ClearFailures(c)
    PROVE  LimiterInv'
<1> USE DEF LimiterInv
<1>1. /\ count \in [Keys -> Nat] /\ expires \subseteq Keys /\ unexpired \in [Keys -> Nat]
      /\ mishaps \in Nat /\ letPast \in Nat
      /\ caller \in [Callers -> CallerRecord] /\ caller[c] \in CallerRecord
    BY DEF LimiterTypeOK
<1>2. /\ Cardinality(Callers) \in Nat /\ Cardinality(Checking) \in Nat
      /\ \A j \in Keys : Cardinality(Expiring(j)) \in Nat
      /\ AccountLimit \in Nat /\ "account" \in Keys /\ "address" \in Keys
      /\ Limit("account") = AccountLimit
    BY CallerSets DEF LimiterConstants, Keys, Limit
<1>3. \A j \in Keys : c \notin Expiring(j)
    BY DEF Expiring, CallerAt, Arrive, AssertUnder, PeekRaises, Compare, ClearFailures
<1>4. PICK a \in CallerRecord :
          /\ CallerMoves(c, a)
          /\ a.pc # "expiring"
          /\ a.pc \in {"checking", "failed"} =>
                \/ c \in Checking /\ UNCHANGED <<count, letPast>>
                \/ count["account"] <= AccountLimit /\ UNCHANGED <<count, letPast>>
                \/ UNCHANGED count /\ letPast' = letPast + 1
    <2>1. /\ \A pc \in {"arrived", "checking", "failed", "passed"} :
                /\ Attempt(pc, "address", FALSE) \in CallerRecord
                /\ Attempt(pc, "address", FALSE).pc = pc
                /\ Attempt(pc, "account", FALSE) \in CallerRecord
                /\ Attempt(pc, "account", FALSE).pc = pc
          /\ Away \in CallerRecord /\ Away.pc = "away"
        <3>1. /\ {"arrived", "checking", "failed", "passed"} \subseteq CallerPCs
              /\ "address" \in Keys /\ "account" \in Keys /\ FALSE \in BOOLEAN
            BY DEF CallerPCs, Keys
        <3>2. QED
            BY <3>1, AttemptType
    <2>2. CASE Arrive(c) \/ ClearFailures(c)
        BY <2>1, <2>2 DEF Arrive, ClearFailures
    <2>3. CASE AssertUnder(c)
        <3>1. CASE Locked("account")
            <4>1. CallerMoves(c, Away)
                BY <2>3, <3>1 DEF AssertUnder
            <4>2. QED
                BY <2>1, <4>1
        <3>2. CASE ~Locked("account")
            <4>1. CallerMoves(c, Attempt("checking", "account", FALSE)) /\ UNCHANGED <<count, letPast>>
                BY <2>3, <3>2 DEF AssertUnder
            <4>2. count["account"] <= AccountLimit
                BY <1>1, <1>2, <3>2 DEF Locked
            <4>3. QED
                BY <2>1, <4>1, <4>2
        <3>3. QED
            BY <3>1, <3>2
    <2>4. CASE PeekRaises(c)
        <3>1. /\ CallerMoves(c, Attempt("checking", "account", FALSE)) /\ UNCHANGED count
              /\ letPast' = letPast + (IF Locked("account") THEN 1 ELSE 0)
            BY <2>4 DEF PeekRaises
        <3>2. \/ letPast' = letPast + 1
              \/ letPast' = letPast /\ count["account"] <= AccountLimit
            BY <1>1, <1>2, <3>1 DEF Locked
        <3>3. QED
            BY <2>1, <3>1, <3>2
    <2>5. CASE Compare(c)
        BY <2>1, <2>5 DEF Compare, Checking, CallerAt
    <2>6. QED
        BY <2>2, <2>3, <2>4, <2>5
<1>5. /\ count' \in [Keys -> Nat] /\ expires' \subseteq Keys /\ unexpired' \in [Keys -> Nat]
      /\ mishaps' \in Nat /\ letPast' \in Nat /\ letPast' >= letPast
      /\ \A j \in Keys : \/ count'[j] = 0
                         \/ /\ count'[j] = count[j] /\ unexpired'[j] = unexpired[j]
                            /\ j \in expires' <=> j \in expires
    <2>1. CASE Arrive(c) \/ AssertUnder(c) \/ Compare(c)
        <3>1. UNCHANGED <<count, expires, letPast, unexpired, mishaps>>
            BY <2>1 DEF Arrive, AssertUnder, Compare, NoMishap
        <3>2. QED
            BY <1>1, <3>1
    <2>2. CASE PeekRaises(c)
        BY <1>1, <2>2 DEF PeekRaises, Mishap
    <2>3. CASE ClearFailures(c)
        <3>1. letPast' = letPast /\ (mishaps' = mishaps \/ mishaps' = mishaps + 1)
            BY <2>3 DEF ClearFailures, Mishap, NoMishap
        <3>2. CASE UNCHANGED <<count, expires, unexpired>>
            BY <1>1, <3>1, <3>2
        <3>3. CASE /\ count' = [count EXCEPT !["account"] = 0]
                   /\ expires' = expires \ {"account"}
                   /\ unexpired' = [unexpired EXCEPT !["account"] = 0]
            BY <1>1, <1>2, <3>1, <3>3
        <3>4. QED
            BY <2>3, <3>2, <3>3 DEF ClearFailures
    <2>4. QED
        BY <2>1, <2>2, <2>3
<1>6. LimiterTypeOK'
    BY <1>4, <1>5, CallerStep DEF LimiterTypeOK
<1>7. UnexpiringIsPending'
    <2>1. \A j \in Keys : Cardinality(Expiring(j)') = Cardinality(Expiring(j))
        BY <1>2, <1>3, <1>4, CallerStep
    <2>2. ASSUME NEW j \in Keys, count'[j] > 0, j \notin expires'
          PROVE  count'[j] <= unexpired'[j] + Cardinality(Expiring(j)')
        <3>1. count'[j] = count[j] /\ unexpired'[j] = unexpired[j] /\ j \notin expires
            BY <1>5, <2>2
        <3>2. QED
            BY <2>1, <2>2, <3>1 DEF UnexpiringIsPending
    <2>3. QED
        BY <2>2 DEF UnexpiringIsPending
<1>8. LockoutOvershootBounded'
    <2>1. /\ Cardinality(Checking') \in Nat /\ Cardinality(Checking') <= Cardinality(Callers)
          /\ Cardinality(Checking') =
                 (Cardinality(Checking) - (IF c \in Checking THEN 1 ELSE 0))
                     + (IF a.pc \in {"checking", "failed"} THEN 1 ELSE 0)
        BY <1>4, CallerStep
    <2>2. count'["account"] = 0 \/ count'["account"] = count["account"]
        BY <1>2, <1>5
    <2>3. CASE count'["account"] = 0
        BY <1>2, <1>5, <2>1, <2>3 DEF LockoutOvershootBounded
    <2>4. CASE count'["account"] = count["account"] /\ a.pc \notin {"checking", "failed"}
        BY <1>1, <1>2, <1>5, <2>1, <2>4 DEF LockoutOvershootBounded
    <2>5. CASE a.pc \in {"checking", "failed"}
        BY <1>1, <1>2, <1>4, <1>5, <2>1, <2>5 DEF LockoutOvershootBounded
    <2>6. QED
        BY <2>2, <2>3, <2>4, <2>5
<1>9. QED
    BY <1>6, <1>7, <1>8

LEMMA WindowEndsOK ==
    ASSUME LimiterConstants, LimiterInv, NEW k \in Keys, WindowEnds(k)
    PROVE  LimiterInv'
<1> USE DEF LimiterInv
<1>1. LimiterTypeOK'
    BY DEF LimiterTypeOK, WindowEnds
<1>2. caller' = caller /\ letPast' = letPast
    BY DEF WindowEnds
<1>3. (\A j \in Keys : Expiring(j)' = Expiring(j)) /\ Checking' = Checking
    BY <1>2 DEF Expiring, Checking, CallerAt
<1>4. \A j \in Keys : \/ count'[j] = 0
                      \/ /\ count'[j] = count[j] /\ unexpired'[j] = unexpired[j]
                         /\ j \in expires' <=> j \in expires
    BY DEF WindowEnds, LimiterTypeOK
<1>5. UnexpiringIsPending'
    BY <1>3, <1>4 DEF UnexpiringIsPending
<1>6. LockoutOvershootBounded'
    <2>1. /\ Cardinality(Callers) \in Nat /\ Cardinality(Checking) \in Nat
          /\ Cardinality(Checking) <= Cardinality(Callers)
          /\ AccountLimit \in Nat /\ letPast \in Nat /\ "account" \in Keys
        BY CallerSets DEF LimiterConstants, LimiterTypeOK, Keys
    <2>2. CASE count'["account"] = 0
        BY <1>2, <1>3, <2>1, <2>2 DEF LockoutOvershootBounded
    <2>3. CASE count'["account"] = count["account"]
        BY <1>2, <1>3, <2>3 DEF LockoutOvershootBounded
    <2>4. QED
        BY <1>4, <2>1, <2>2, <2>3
<1>7. QED
    BY <1>1, <1>5, <1>6

LEMMA LimiterStepOK == LimiterConstants /\ LimiterInv /\ [LimiterNext]_limiterVars => LimiterInv'
<1> SUFFICES ASSUME LimiterConstants, LimiterInv, [LimiterNext]_limiterVars
             PROVE  LimiterInv'
    OBVIOUS
<1>1. CASE UNCHANGED limiterVars
    <2>1. UNCHANGED <<count, expires, caller, mishaps, letPast, unexpired>>
        BY <1>1 DEF limiterVars
    <2>2. (\A j \in Keys : Expiring(j)' = Expiring(j)) /\ Checking' = Checking
        BY <2>1 DEF Expiring, Checking, CallerAt
    <2>3. QED
        BY <2>1, <2>2 DEF LimiterInv, LimiterTypeOK, UnexpiringIsPending, LockoutOvershootBounded
<1>2. CASE LimiterNext
    BY <1>2, CountingOK, AttemptOK, WindowEndsOK DEF LimiterNext
<1>3. QED
    BY <1>1, <1>2

\* A counter without a TTL has counted no more than the callers that are about to
\* set one and those that failed to: assert_under, which never repairs a TTL, does
\* not meet a counter that will stay (core/ratelimit.py, _incr).
THEOREM CountersExpire == LimiterSpec => []UnexpiringIsPending
<1>1. LimiterConstants
    BY LimiterConstants
<1>2. LimiterInv => UnexpiringIsPending
    BY DEF LimiterInv
<1>3. QED
    BY <1>1, <1>2, LimiterInitOK, LimiterStepOK, PTL DEF LimiterSpec

\* However many passwords are compared at the same time, the failures counted pass
\* the limit of the account by no more than the attempts in progress, and those
\* that an error of Redis let past the lock (login, record_failure).
THEOREM OvershootIsBounded == LimiterSpec => []LockoutOvershootBounded
<1>1. LimiterConstants
    BY LimiterConstants
<1>2. LimiterInv => LockoutOvershootBounded
    BY DEF LimiterInv
<1>3. QED
    BY <1>1, <1>2, LimiterInitOK, LimiterStepOK, PTL DEF LimiterSpec
-----------------------------------------------------------------------------
(* TokenChain.                                                               *)

\* A token that was never signed is the only one of its chain.
ChainsOK ==
    /\ \A t \in Unsigned : chain[t] = t
    /\ \A t \in Tokens \ Unsigned : chain[t] \notin Unsigned

ChainInv == ChainTypeOK /\ ChainsOK /\ OneLivePerChain

\* Issuing and rotating add a token to a chain that has no other live one.
LEMMA ChainInvHolds ==
    /\ ChainInit => ChainInv
    /\ ChainInv /\ [ChainNext]_chainVars => ChainInv'
<1> USE DEF ChainInv, ChainTypeOK, ChainsOK, OneLivePerChain, Living, Unsigned
<1>1. ChainInit => ChainInv
    BY DEF ChainInit
<1> SUFFICES ASSUME ChainInv, [ChainNext]_chainVars
             PROVE  ChainInv'
    BY <1>1
<1>2. ASSUME NEW t \in Tokens, Issue(t)
      PROVE  ChainInv'
    BY <1>2 DEF Issue
<1>3. ASSUME NEW t \in Tokens, NEW u \in Tokens, Rotate(t, u)
      PROVE  ChainInv'
    <2>1. /\ state[t] = "live" /\ state[u] = "unborn" /\ t # u
          /\ \A s \in Tokens : state'[s] = IF s = u THEN "live" ELSE IF s = t THEN "revoked" ELSE state[s]
          /\ \A s \in Tokens : chain'[s] = IF s = u THEN chain[t] ELSE chain[s]
          /\ ChainTypeOK'
        BY <1>3 DEF Rotate
    <2>2. ChainsOK'
        BY <2>1
    <2>3. OneLivePerChain'
        BY <2>1
    <2>4. QED
        BY <2>1, <2>2, <2>3
<1>4. ASSUME NEW tokens \in SUBSET (Tokens \ Unsigned), Revoke(tokens)
      PROVE  ChainInv'
    BY <1>4 DEF Revoke
<1>5. CASE UNCHANGED chainVars
    BY <1>5 DEF chainVars
<1>6. QED
    BY <1>2, <1>3, <1>4, <1>5 DEF ChainNext

\* What Sessions and the browser rest on: of a chain of exchanged refresh tokens only
\* the last can be used (routes/auth.py, refresh).
THEOREM ChainKeepsOneLive == ChainSpec => []OneLivePerChain
BY ChainInvHolds, PTL DEF ChainSpec, ChainInv

-----------------------------------------------------------------------------
(* TokenClient.                                                              *)

Used(p) == refresh[p].used
New(p)  == refresh[p].new

\* What a refresh holds follows from where it is.
RefreshesOK ==
    \A p \in Pages :
        /\ refresh[p].at \in {"none", "stuck"} => Used(p) = {} /\ New(p) = {}
        /\ refresh[p].at = "sent" => New(p) = {}

\* Whatever the browser holds was signed.
SignedOK ==
    /\ Unsigned \cap (stored \cup adrift \cup exchanged) = {}
    /\ \A p \in Pages : Unsigned \cap (Used(p) \cup New(p)) = {}

\* An answer that has not been stored is known to one page, and was not presented.
AnswersOK ==
    \A p \in Pages :
        /\ New(p) \cap (stored \cup adrift \cup exchanged) = {}
        /\ \A q \in Pages : /\ New(p) \cap Used(q) = {}
                            /\ p # q => New(p) \cap New(q) = {}

\* Two pages present one token, or one is adrift, only if it went astray; and of
\* the others a page that has presented the stored one has still to replace it.
AstrayOK ==
    /\ adrift \subseteq astray
    /\ \A p, q \in Pages : p # q => Used(p) \cap Used(q) \subseteq astray
    /\ \A t \in stored \cap exchanged : t \in astray \/ \E p \in Pages : t \in Used(p)

\* Nothing is under way that could store a pair.
OutOK == session = "out" => stored = {} /\ \A p \in Pages : ~Refreshing(p)

ClientInv ==
    /\ ClientTypeOK /\ RefreshesOK /\ SignedOK /\ AnswersOK /\ AstrayOK /\ OutOK
    /\ NoReplayWithinAPage
-----------------------------------------------------------------------------
\* A browser that nobody has signed in to.
LEMMA ClientInitOK == ClientInit => ClientInv
BY DEF ClientInit, ClientInv, ClientTypeOK, ChainTypeOK, ChainInit, AtMostOne, CallStates, NoRefresh,
       RefreshesOK, SignedOK, AnswersOK, AstrayOK, OutOK, NoReplayWithinAPage, Used, New, Refreshing

\* What a step of the API does.
LEMMA ExchangeStep ==
    ASSUME ClientTypeOK, NEW t \in Tokens, NEW new, Exchange(t, new)
    PROVE  /\ ChainTypeOK' /\ Unsigned' \subseteq Unsigned /\ exchanged' \subseteq Tokens
           /\ \/ /\ t \notin Unsigned /\ exchanged' = exchanged \cup {t}
                 /\ \E u \in Unsigned \ Unsigned' : new = {u}
              \/ new = {} /\ exchanged' = exchanged
BY DEF ClientTypeOK, ChainTypeOK, Exchange, Rotate, Revoke, Living, Unsigned

LEMMA RevokeStep ==
    ASSUME ClientTypeOK, NEW tokens, tokens \cap Unsigned = {}, Revoke(tokens)
    PROVE  ChainTypeOK' /\ Unsigned' = Unsigned
BY DEF ClientTypeOK, ChainTypeOK, Revoke, Unsigned

\* A step that leaves alone what the properties compare.
LEMMA BrowserUnmoved ==
    ASSUME ClientInv, ClientTypeOK', Unsigned' \subseteq Unsigned,
           UNCHANGED <<refresh, stored, adrift, exchanged, astray, session>>
    PROVE  ClientInv'
BY DEF ClientInv, RefreshesOK, SignedOK, AnswersOK, AstrayOK, OutOK, NoReplayWithinAPage, Used, New, Refreshing

\* The pair is dropped, or a refresh that presents nothing takes the place of one.
LEMMA BrowserForgets ==
    ASSUME ClientInv, ClientTypeOK', Unsigned' \subseteq Unsigned,
           stored' = {},
           \A p \in Pages : refresh'[p] = refresh[p] \/ (refresh'[p] = Stuck /\ Used(p) = {}),
           UNCHANGED <<adrift, exchanged, astray>>,
           session' = session \/ session' \in {"in", "raced"} \/ \A p \in Pages : ~Refreshing(p)
    PROVE  ClientInv'
<1>1. /\ RefreshesOK /\ SignedOK /\ AnswersOK /\ AstrayOK /\ OutOK /\ NoReplayWithinAPage
    BY DEF ClientInv
<1>2. \A p \in Pages : /\ Used(p)' = Used(p)
                       /\ New(p)' \subseteq New(p)
                       /\ refresh'[p].at = "sent" => refresh[p].at = "sent"
                       /\ Refreshing(p)' => Refreshing(p)
                       /\ refresh'[p].at \in {"none", "stuck"} => Used(p)' = {} /\ New(p)' = {}
                       /\ refresh'[p].at = "sent" => New(p)' = {}
    <2> SUFFICES ASSUME NEW p \in Pages
                 PROVE  /\ Used(p)' = Used(p)
                        /\ New(p)' \subseteq New(p)
                        /\ refresh'[p].at = "sent" => refresh[p].at = "sent"
                        /\ Refreshing(p)' => Refreshing(p)
                        /\ refresh'[p].at \in {"none", "stuck"} => Used(p)' = {} /\ New(p)' = {}
                        /\ refresh'[p].at = "sent" => New(p)' = {}
        OBVIOUS
    <2>1. CASE refresh'[p] = refresh[p]
        BY <1>1, <2>1 DEF Used, New, Refreshing, RefreshesOK
    <2>2. CASE refresh'[p] = Stuck /\ Used(p) = {}
        BY <2>2 DEF Used, New, Refreshing, Stuck
    <2>3. QED
        BY <2>1, <2>2
<1>3. RefreshesOK' /\ SignedOK' /\ AnswersOK' /\ AstrayOK' /\ OutOK'
    BY <1>1, <1>2 DEF RefreshesOK, SignedOK, AnswersOK, AstrayOK, OutOK
<1>4. NoReplayWithinAPage'
    BY <1>1, <1>2 DEF NoReplayWithinAPage, Used
<1>5. QED
    BY <1>3, <1>4 DEF ClientInv

\* Types, and that a token once signed is never signed again.
LEMMA ClientTypeStep ==
    ASSUME ClientTypeOK, [ClientNext]_clientVars, SignedOK
    PROVE  ClientTypeOK' /\ Unsigned' \subseteq Unsigned
<1> USE DEF ClientTypeOK, CallBecomes, RefreshBecomes, Shows, CallStates, GiveUp
<1>1. ASSUME UNCHANGED <<state, chain>>
      PROVE  ChainTypeOK' /\ Unsigned' = Unsigned
    BY <1>1 DEF ChainTypeOK, Unsigned
<1>2. {} \in AtMostOne /\ \A t \in Tokens : {t} \in AtMostOne
    BY DEF AtMostOne
<1>3. \A r \in AtMostOne : r \subseteq Tokens
    BY DEF AtMostOne
<1>4. ASSUME NEW p \in Pages, NEW next \in CallStates, WaitersBecome(p, next)
      PROVE  call' \in [Pages -> [Calls -> CallStates]]
    BY <1>4 DEF WaitersBecome
<1>5. ASSUME NEW p \in Pages, NEW c \in Calls,
             StartCall(p, c) \/ CallEnds(p, c) \/ CallJoins(p, c)
      PROVE  ClientTypeOK' /\ Unsigned' = Unsigned
    <2>1. /\ \E next \in CallStates : CallBecomes(p, c, next)
          /\ UNCHANGED <<state, chain, stored, page, refresh, adrift, exchanged, astray, session>>
        BY <1>5 DEF StartCall, CallEnds, CallJoins
    <2>2. QED
        BY <1>1, <2>1
<1>6. ASSUME NEW p \in Pages, NEW c \in Calls, CallRefreshes(p, c)
      PROVE  ClientTypeOK' /\ Unsigned' = Unsigned
    BY <1>1, <1>2, <1>3, <1>6 DEF CallRefreshes, Sent
<1>7. ASSUME NEW p \in Pages, NEW c \in Calls, CallGivesUp(p, c) \/ RetryRefused(p, c)
      PROVE  ClientTypeOK' /\ Unsigned' = Unsigned
    <2>1. CASE CallGivesUp(p, c)
        BY <1>1, <1>2, <2>1 DEF CallGivesUp, Stuck
    <2>2. CASE RetryRefused(p, c)
        <3>1. /\ stored' \in AtMostOne /\ page' \in [Pages -> {"app", "login"}]
            BY <1>2, <1>3, <2>2 DEF RetryRefused
        <3>2. QED
            BY <1>1, <2>2, <3>1 DEF RetryRefused
    <2>3. QED
        BY <1>7, <2>1, <2>2
<1>8. ASSUME NEW p \in Pages, RefreshSettles(p)
      PROVE  ClientTypeOK' /\ Unsigned' = Unsigned
    BY <1>1, <1>2, <1>4, <1>8 DEF RefreshSettles, NoRefresh
<1>9. ASSUME NEW p \in Pages, SignIn(p)
      PROVE  ClientTypeOK' /\ Unsigned' \subseteq Unsigned
    BY <1>2, <1>9 DEF SignIn, Issue, ChainTypeOK, Unsigned
<1>10. ASSUME NEW p \in Pages, SignOut(p) \/ Reload(p) \/ RefreshFails(p)
       PROVE  ClientTypeOK' /\ Unsigned' = Unsigned
    <2>1. CASE SignOut(p)
        BY <1>1, <1>2, <1>3, <2>1 DEF SignOut
    <2>2. CASE Reload(p)
        <3>1. /\ page' \in [Pages -> {"app", "login"}]
              /\ call' \in [Pages -> [Calls -> CallStates]]
              /\ refresh' \in [Pages -> [at: {"none", "sent", "answered", "stuck"}, used: AtMostOne, new: AtMostOne]]
            BY <1>2, <2>2 DEF Reload, NoRefresh
        <3>2. refresh[p].used \subseteq Tokens
            BY <1>3
        <3>3. adrift' \subseteq Tokens /\ astray' \subseteq Tokens
            BY <2>2, <3>2 DEF Reload
        <3>4. QED
            BY <1>1, <2>2, <3>1, <3>3 DEF Reload
    <2>3. CASE RefreshFails(p)
        BY <1>1, <1>2, <2>3 DEF RefreshFails
    <2>4. QED
        BY <1>10, <2>1, <2>2, <2>3
<1>11. ASSUME NEW p \in Pages, ServeRefresh(p)
       PROVE  ClientTypeOK' /\ Unsigned' \subseteq Unsigned
    <2>1. PICK t \in refresh[p].used, new \in AtMostOne :
              Exchange(t, new) /\ RefreshBecomes(p, [refresh[p] EXCEPT !.at = "answered", !.new = new])
        BY <1>11 DEF ServeRefresh
    <2>2. t \in Tokens
        BY <1>3, <2>1
    <2>3. ChainTypeOK' /\ Unsigned' \subseteq Unsigned /\ exchanged' \subseteq Tokens
        BY <2>1, <2>2, ExchangeStep
    <2>4. QED
        BY <1>11, <2>1, <2>3 DEF ServeRefresh
<1>12. ASSUME NEW t \in Tokens, ServeAdrift(t)
       PROVE  ClientTypeOK' /\ Unsigned' \subseteq Unsigned
    BY <1>12, ExchangeStep DEF ServeAdrift
<1>13. ASSUME NEW t \in Tokens, PairEnds(t)
       PROVE  ClientTypeOK' /\ Unsigned' = Unsigned
    <2>1. {t} \cap Unsigned = {}
        BY <1>13 DEF PairEnds, Living, Unsigned
    <2>2. QED
        BY <1>13, <2>1, RevokeStep DEF PairEnds
<1>14. CASE AllRevoked
    <2>1. Living \cap Unsigned = {}
        BY DEF Living, Unsigned
    <2>2. QED
        BY <1>14, <2>1, RevokeStep DEF AllRevoked
<1>15. CASE UNCHANGED clientVars
    BY <1>1, <1>15 DEF clientVars
<1>16. QED
    BY <1>5, <1>6, <1>7, <1>8, <1>9, <1>10, <1>11, <1>12, <1>13, <1>14, <1>15 DEF ClientNext, PageSteps

\* Whoever presents the stored token finds it unused, astray, or in another page's hands.
LEMMA CallRefreshesOK ==
    ASSUME ClientInv, ClientTypeOK', NEW p \in Pages, NEW c \in Calls, CallRefreshes(p, c)
    PROVE  ClientInv'
<1>1. /\ RefreshesOK /\ SignedOK /\ AnswersOK /\ AstrayOK /\ OutOK /\ NoReplayWithinAPage
      /\ refresh \in [Pages -> [at: {"none", "sent", "answered", "stuck"}, used: AtMostOne, new: AtMostOne]]
    BY DEF ClientInv, ClientTypeOK
<1>2. PICK t \in stored :
          /\ RefreshBecomes(p, Sent(t))
          /\ astray' = IF \E q \in Pages \ {p} : t \in Used(q) THEN astray \cup {t} ELSE astray
    BY DEF CallRefreshes, Used
<1>3. /\ UNCHANGED <<state, chain, stored, adrift, exchanged, session>>
      /\ Used(p) = {} /\ New(p) = {} /\ Unsigned' = Unsigned
    BY <1>1 DEF CallRefreshes, RefreshesOK, Unsigned
<1>4. /\ \A q \in Pages : /\ Used(q)' = IF q = p THEN {t} ELSE Used(q)
                          /\ New(q)' = New(q)
                          /\ q # p => refresh'[q] = refresh[q]
      /\ refresh'[p].at = "sent"
    BY <1>1, <1>2, <1>3 DEF RefreshBecomes, Sent, Used, New
<1>5. /\ astray \subseteq astray'
      /\ \A q \in Pages \ {p} : t \in Used(q) => t \in astray'
    BY <1>2
<1>6. RefreshesOK' /\ SignedOK'
    BY <1>1, <1>2, <1>3, <1>4 DEF RefreshesOK, SignedOK, Used, New
<1>7. AnswersOK'
    BY <1>1, <1>2, <1>3, <1>4 DEF AnswersOK
<1>8. AstrayOK'
    BY <1>1, <1>3, <1>4, <1>5 DEF AstrayOK
<1>9. OutOK'
    BY <1>1, <1>2, <1>3 DEF OutOK
<1>10. NoReplayWithinAPage'
    <2>1. t \in exchanged => t \in astray'
        BY <1>1, <1>3, <1>5 DEF AstrayOK
    <2>2. QED
        BY <1>1, <1>3, <1>4, <1>5, <2>1 DEF NoReplayWithinAPage, Used
<1>11. QED
    BY <1>6, <1>7, <1>8, <1>9, <1>10 DEF ClientInv

\* The answer that replaces the stored pair was not presented by anybody.
LEMMA RefreshSettlesOK ==
    ASSUME ClientInv, ClientTypeOK', NEW p \in Pages, RefreshSettles(p)
    PROVE  ClientInv'
<1>1. /\ RefreshesOK /\ SignedOK /\ AnswersOK /\ AstrayOK /\ OutOK /\ NoReplayWithinAPage
      /\ refresh \in [Pages -> [at: {"none", "sent", "answered", "stuck"}, used: AtMostOne, new: AtMostOne]]
    BY DEF ClientInv, ClientTypeOK
<1>2. /\ UNCHANGED <<state, chain, adrift, exchanged, astray, session>> /\ Unsigned' = Unsigned
      /\ stored' = New(p)
      /\ refresh[p].at = "answered"
    BY DEF RefreshSettles, GiveUp, New, Unsigned
<1>3. /\ \A q \in Pages : /\ Used(q)' = IF q = p THEN {} ELSE Used(q)
                          /\ New(q)' = IF q = p THEN {} ELSE New(q)
                          /\ q # p => refresh'[q] = refresh[q]
      /\ refresh'[p].at = "none"
    BY <1>1 DEF RefreshSettles, RefreshBecomes, NoRefresh, Used, New
<1>4. RefreshesOK' /\ SignedOK'
    BY <1>1, <1>2, <1>3 DEF RefreshesOK, SignedOK, Used, New
<1>5. AnswersOK'
    BY <1>1, <1>2, <1>3 DEF AnswersOK
<1>6. AstrayOK'
    BY <1>1, <1>2, <1>3 DEF AstrayOK, AnswersOK
<1>7. OutOK'
    BY <1>1, <1>2 DEF OutOK, Refreshing
<1>8. NoReplayWithinAPage'
    BY <1>1, <1>2, <1>3 DEF NoReplayWithinAPage, Used
<1>9. QED
    BY <1>4, <1>5, <1>6, <1>7, <1>8 DEF ClientInv

\* A pair that was just signed is known to nobody.
LEMMA SignInOK ==
    ASSUME ClientInv, ClientTypeOK', NEW p \in Pages, SignIn(p)
    PROVE  ClientInv'
<1>1. /\ RefreshesOK /\ SignedOK /\ AnswersOK /\ AstrayOK /\ NoReplayWithinAPage
      /\ state \in [Tokens -> {"unborn", "live", "revoked"}]
    BY DEF ClientInv, ClientTypeOK, ChainTypeOK
<1>2. PICK t \in Unsigned : Issue(t) /\ stored' = {t}
    BY DEF SignIn
<1>3. UNCHANGED <<refresh, adrift, exchanged, astray>> /\ session' = "in"
    BY DEF SignIn
<1>4. Unsigned' \subseteq Unsigned \ {t}
    BY <1>1, <1>2 DEF Issue, Unsigned
<1>5. RefreshesOK' /\ SignedOK'
    BY <1>1, <1>2, <1>3, <1>4 DEF RefreshesOK, SignedOK, Used, New
<1>6. AnswersOK' /\ AstrayOK'
    BY <1>1, <1>2, <1>3 DEF AnswersOK, AstrayOK, SignedOK, Used, New
<1>7. OutOK' /\ NoReplayWithinAPage'
    BY <1>1, <1>3 DEF OutOK, NoReplayWithinAPage
<1>8. QED
    BY <1>5, <1>6, <1>7 DEF ClientInv

\* What a reload forgets is astray.
LEMMA ReloadOK ==
    ASSUME ClientInv, ClientTypeOK', NEW p \in Pages, Reload(p)
    PROVE  ClientInv'
<1>1. /\ RefreshesOK /\ SignedOK /\ AnswersOK /\ AstrayOK /\ OutOK /\ NoReplayWithinAPage
      /\ refresh \in [Pages -> [at: {"none", "sent", "answered", "stuck"}, used: AtMostOne, new: AtMostOne]]
    BY DEF ClientInv, ClientTypeOK
<1>2. /\ UNCHANGED <<state, chain, stored, exchanged, session>> /\ Unsigned' = Unsigned
      /\ adrift \subseteq adrift' /\ adrift' \subseteq adrift \cup Used(p)
      /\ astray' = astray \cup Used(p)
    BY DEF Reload, Used, Unsigned
<1>3. /\ \A q \in Pages : /\ Used(q)' = IF q = p THEN {} ELSE Used(q)
                          /\ New(q)' = IF q = p THEN {} ELSE New(q)
                          /\ q # p => refresh'[q] = refresh[q]
      /\ refresh'[p].at = "none"
    BY <1>1 DEF Reload, RefreshBecomes, NoRefresh, Used, New
<1>4. RefreshesOK' /\ SignedOK'
    BY <1>1, <1>2, <1>3 DEF RefreshesOK, SignedOK, Used, New
<1>5. AnswersOK'
    BY <1>1, <1>2, <1>3 DEF AnswersOK
<1>6. AstrayOK'
    BY <1>1, <1>2, <1>3 DEF AstrayOK
<1>7. OutOK'
    BY <1>1, <1>2, <1>3 DEF OutOK, Refreshing
<1>8. NoReplayWithinAPage'
    BY <1>1, <1>2, <1>3 DEF NoReplayWithinAPage, Used
<1>9. QED
    BY <1>4, <1>5, <1>6, <1>7, <1>8 DEF ClientInv

\* The token becomes one that was exchanged; a page that waits with it too has it astray.
LEMMA ServeRefreshOK ==
    ASSUME ClientInv, ClientTypeOK', NEW p \in Pages, ServeRefresh(p)
    PROVE  ClientInv'
<1>1. /\ RefreshesOK /\ SignedOK /\ AnswersOK /\ AstrayOK /\ OutOK /\ NoReplayWithinAPage
      /\ refresh \in [Pages -> [at: {"none", "sent", "answered", "stuck"}, used: AtMostOne, new: AtMostOne]]
      /\ ClientTypeOK
    BY DEF ClientInv, ClientTypeOK
<1>2. PICK t \in Used(p), new \in AtMostOne :
          Exchange(t, new) /\ RefreshBecomes(p, [refresh[p] EXCEPT !.at = "answered", !.new = new])
    BY DEF ServeRefresh, Used
<1>3. /\ UNCHANGED <<stored, adrift, astray, session>>
      /\ refresh[p].at = "sent" /\ New(p) = {}
    BY <1>1 DEF ServeRefresh, RefreshesOK
<1>4. t \in Tokens
    BY <1>1, <1>2 DEF Used, AtMostOne
<1>5. /\ Unsigned' \subseteq Unsigned
      /\ \/ exchanged' = exchanged \cup {t} /\ \E u \in Unsigned \ Unsigned' : new = {u}
         \/ new = {} /\ exchanged' = exchanged
    BY <1>1, <1>2, <1>4, ExchangeStep
<1>6. /\ \A q \in Pages : /\ Used(q)' = Used(q)
                          /\ New(q)' = IF q = p THEN new ELSE New(q)
                          /\ q # p => refresh'[q] = refresh[q]
      /\ refresh'[p].at = "answered"
    BY <1>1, <1>2 DEF RefreshBecomes, Used, New
<1>7. RefreshesOK'
    BY <1>1, <1>6 DEF RefreshesOK
<1>8. SignedOK'
    BY <1>1, <1>2, <1>3, <1>5, <1>6 DEF SignedOK
<1>9. AnswersOK'
    <2>1. \A u \in new : /\ u \notin stored \cup adrift \cup exchanged'
                         /\ \A q \in Pages : u \notin Used(q) \cup New(q)
        BY <1>1, <1>2, <1>5 DEF SignedOK
    <2>2. \A q \in Pages : New(q) \cap exchanged' = {}
        BY <1>1, <1>2, <1>5 DEF AnswersOK
    <2>3. QED
        BY <1>1, <1>3, <1>6, <2>1, <2>2 DEF AnswersOK
<1>10. AstrayOK'
    BY <1>1, <1>2, <1>3, <1>5, <1>6 DEF AstrayOK
<1>11. OutOK'
    BY <1>1, <1>3 DEF OutOK, Refreshing
<1>12. NoReplayWithinAPage'
    <2>1. \A q \in Pages : q # p /\ t \in Used(q) => t \in astray
        BY <1>1, <1>2 DEF AstrayOK
    <2>2. \A q \in Pages : refresh'[q].at = "sent" => refresh[q].at = "sent" /\ q # p
        BY <1>6
    <2>3. \A q \in Pages : refresh[q].at = "sent" => Used(q) \cap exchanged \subseteq astray
        BY <1>1 DEF NoReplayWithinAPage, Used
    <2>4. \A q \in Pages : refresh'[q].at = "sent" => Used(q)' \cap exchanged' \subseteq astray'
        BY <1>3, <1>5, <1>6, <2>1, <2>2, <2>3
    <2>5. QED
        BY <2>4 DEF NoReplayWithinAPage, Used
<1>13. QED
    BY <1>7, <1>8, <1>9, <1>10, <1>11, <1>12 DEF ClientInv

\* An answer that was lost is not stored.
LEMMA RefreshFailsOK ==
    ASSUME ClientInv, ClientTypeOK', NEW p \in Pages, RefreshFails(p)
    PROVE  ClientInv'
<1>1. /\ RefreshesOK /\ SignedOK /\ AnswersOK /\ AstrayOK /\ OutOK /\ NoReplayWithinAPage
      /\ refresh \in [Pages -> [at: {"none", "sent", "answered", "stuck"}, used: AtMostOne, new: AtMostOne]]
    BY DEF ClientInv, ClientTypeOK
<1>2. /\ UNCHANGED <<state, chain, stored, adrift, exchanged, astray, session>> /\ Unsigned' = Unsigned
      /\ Refreshing(p)
    BY DEF RefreshFails, Unsigned
<1>3. /\ \A q \in Pages : /\ Used(q)' = Used(q)
                          /\ New(q)' = IF q = p THEN {} ELSE New(q)
                          /\ q # p => refresh'[q] = refresh[q]
      /\ refresh'[p].at = "answered"
    BY <1>1 DEF RefreshFails, RefreshBecomes, Used, New
<1>4. RefreshesOK' /\ SignedOK'
    BY <1>1, <1>2, <1>3 DEF RefreshesOK, SignedOK
<1>5. AnswersOK' /\ AstrayOK'
    BY <1>1, <1>2, <1>3 DEF AnswersOK, AstrayOK
<1>6. OutOK'
    BY <1>1, <1>2 DEF OutOK
<1>7. NoReplayWithinAPage'
    BY <1>1, <1>2, <1>3 DEF NoReplayWithinAPage, Used
<1>8. QED
    BY <1>4, <1>5, <1>6, <1>7 DEF ClientInv

\* An exchange that nobody waits for: its token is astray.
LEMMA ServeAdriftOK ==
    ASSUME ClientInv, ClientTypeOK', NEW t \in Tokens, ServeAdrift(t)
    PROVE  ClientInv'
<1>1. /\ RefreshesOK /\ SignedOK /\ AnswersOK /\ AstrayOK /\ OutOK /\ NoReplayWithinAPage /\ ClientTypeOK
    BY DEF ClientInv
<1>2. /\ UNCHANGED <<stored, refresh, astray, session>>
      /\ t \in adrift /\ adrift' \subseteq adrift
    BY DEF ServeAdrift
<1>3. /\ Unsigned' \subseteq Unsigned
      /\ exchanged' = exchanged \/ (exchanged' = exchanged \cup {t} /\ t \notin Unsigned)
    BY <1>1, ExchangeStep DEF ServeAdrift
<1>4. t \in astray
    BY <1>1, <1>2 DEF AstrayOK
<1>5. RefreshesOK' /\ SignedOK' /\ OutOK'
    BY <1>1, <1>2, <1>3 DEF RefreshesOK, SignedOK, OutOK, Used, New, Refreshing
<1>6. AnswersOK'
    BY <1>1, <1>2, <1>3 DEF AnswersOK, Used, New
<1>7. AstrayOK' /\ NoReplayWithinAPage'
    BY <1>1, <1>2, <1>3, <1>4 DEF AstrayOK, NoReplayWithinAPage, Used
<1>8. QED
    BY <1>5, <1>6, <1>7 DEF ClientInv

\* ClientInv is inductive: one case per action.
LEMMA ClientStepOK ==
    ASSUME ClientInv, [ClientNext]_clientVars
    PROVE  ClientInv'
<1>1. ClientTypeOK' /\ Unsigned' \subseteq Unsigned
    BY ClientTypeStep DEF ClientInv
<1>2. ASSUME NEW p \in Pages, NEW c \in Calls,
             StartCall(p, c) \/ CallEnds(p, c) \/ CallJoins(p, c)
      PROVE  ClientInv'
    BY <1>1, <1>2, BrowserUnmoved DEF StartCall, CallEnds, CallJoins
<1>3. ASSUME NEW p \in Pages, NEW c \in Calls, CallGivesUp(p, c)
      PROVE  ClientInv'
    <2>1. Used(p) = {}
        BY <1>3 DEF CallGivesUp, ClientInv, RefreshesOK
    <2>2. refresh \in [Pages -> [at: {"none", "sent", "answered", "stuck"}, used: AtMostOne, new: AtMostOne]]
        BY DEF ClientInv, ClientTypeOK
    <2>3. refresh' = [refresh EXCEPT ![p] = Stuck]
        BY <1>3 DEF CallGivesUp, RefreshBecomes
    <2>4. \A q \in Pages : refresh'[q] = refresh[q] \/ (refresh'[q] = Stuck /\ Used(q) = {})
        BY <2>1, <2>2, <2>3
    <2>5. QED
        BY <1>1, <1>3, <2>4, BrowserForgets DEF CallGivesUp, GiveUp
<1>4. ASSUME NEW p \in Pages, NEW c \in Calls, RetryRefused(p, c)
      PROVE  ClientInv'
    <2>1. CASE UNCHANGED <<stored, page>>
        BY <1>1, <1>4, <2>1, BrowserUnmoved DEF RetryRefused
    <2>2. CASE stored' = {}
        <3>1. /\ \A q \in Pages : refresh'[q] = refresh[q]
              /\ UNCHANGED <<adrift, exchanged, astray>> /\ session' = session
            BY <1>4 DEF RetryRefused
        <3>2. QED
            BY <1>1, <2>2, <3>1, BrowserForgets
    <2>3. QED
        BY <1>4, <2>1, <2>2 DEF RetryRefused, GiveUp
<1>5. ASSUME NEW p \in Pages, SignOut(p)
      PROVE  ClientInv'
    <2>1. /\ stored' = {}
          /\ \A q \in Pages : refresh'[q] = refresh[q]
          /\ UNCHANGED <<adrift, exchanged, astray>>
          /\ session' = "raced" \/ \A q \in Pages : ~Refreshing(q)
        BY <1>5 DEF SignOut, GiveUp
    <2>2. QED
        BY <1>1, <2>1, BrowserForgets
<1>6. ASSUME NEW p \in Pages, NEW c \in Calls, CallRefreshes(p, c)
      PROVE  ClientInv'
    BY <1>1, <1>6, CallRefreshesOK
<1>7. ASSUME NEW p \in Pages,
             SignIn(p) \/ Reload(p) \/ ServeRefresh(p) \/ RefreshFails(p) \/ RefreshSettles(p)
      PROVE  ClientInv'
    BY <1>1, <1>7, SignInOK, ReloadOK, ServeRefreshOK, RefreshFailsOK, RefreshSettlesOK
<1>8. ASSUME NEW t \in Tokens, ServeAdrift(t)
      PROVE  ClientInv'
    BY <1>1, <1>8, ServeAdriftOK
<1>9. ASSUME NEW t \in Tokens, PairEnds(t)
      PROVE  ClientInv'
    BY <1>1, <1>9, BrowserUnmoved DEF PairEnds
<1>10. CASE AllRevoked
    BY <1>1, <1>10, BrowserUnmoved DEF AllRevoked
<1>11. CASE UNCHANGED clientVars
    BY <1>1, <1>11, BrowserUnmoved DEF clientVars
<1>12. QED
    BY <1>2, <1>3, <1>4, <1>5, <1>6, <1>7, <1>8, <1>9, <1>10, <1>11 DEF ClientNext, PageSteps

\* For any number of pages and requests, the requests of a page that get a 401 never
\* present a token that was exchanged (lib/api.ts, refreshAccessToken), unless another
\* page presented it beside them or a reload forgot that it was under way.
THEOREM RefreshIsNotReplayed == ClientSpec => []NoReplayWithinAPage
<1>1. ClientInv => NoReplayWithinAPage
    BY DEF ClientInv
<1>2. QED
    BY <1>1, ClientInitOK, ClientStepOK, PTL DEF ClientSpec

\* After logout (AuthProvider.tsx) no request, answer or other page puts a pair back
\* into the browser, unless a refresh was under way in one of them.
THEOREM SignedOutUsersStayOut == ClientSpec => []SignedOutStaysOut
<1>1. ClientInv => SignedOutStaysOut
    BY DEF ClientInv, OutOK, SignedOutStaysOut
<1>2. QED
    BY <1>1, ClientInitOK, ClientStepOK, PTL DEF ClientSpec

\* What a step of the browser or of its API does to the tokens is a step of TokenChain.
LEMMA ClientStepIsChainStep ==
    ASSUME ClientInv, [ClientNext]_clientVars
    PROVE  [ChainNext]_chainVars
<1>1. ClientTypeOK /\ SignedOK
    BY DEF ClientInv
<1>2. ASSUME NEW tokens, tokens \subseteq Tokens \ Unsigned, Revoke(tokens)
      PROVE  ChainNext
    BY <1>2 DEF ChainNext
<1>3. Living \subseteq Tokens \ Unsigned
    BY DEF Living, Unsigned
<1>4. ASSUME NEW t \in Tokens, NEW new, Exchange(t, new)
      PROVE  ChainNext
    <2>1. CASE \E u \in Unsigned : Rotate(t, u)
        BY <2>1 DEF ChainNext, Unsigned
    <2>2. CASE Revoke({s \in Living : chain[s] = chain[t]})
        BY <1>2, <1>3, <2>2
    <2>3. QED
        BY <1>4, <2>1, <2>2 DEF Exchange
<1>5. ASSUME NEW p \in Pages, NEW c \in Calls,
             \/ StartCall(p, c) \/ CallEnds(p, c) \/ CallJoins(p, c)
             \/ CallRefreshes(p, c) \/ CallGivesUp(p, c) \/ RetryRefused(p, c)
      PROVE  UNCHANGED chainVars
    BY <1>5 DEF StartCall, CallEnds, CallJoins, CallRefreshes, CallGivesUp, RetryRefused, chainVars
<1>6. ASSUME NEW p \in Pages, SignOut(p) \/ Reload(p) \/ RefreshFails(p) \/ RefreshSettles(p)
      PROVE  UNCHANGED chainVars
    BY <1>6 DEF SignOut, Reload, RefreshFails, RefreshSettles, chainVars
<1>7. ASSUME NEW p \in Pages, SignIn(p)
      PROVE  ChainNext
    BY <1>7 DEF SignIn, ChainNext, Unsigned
<1>8. ASSUME NEW p \in Pages, ServeRefresh(p)
      PROVE  ChainNext
    <2>1. PICK t \in refresh[p].used, new \in AtMostOne : Exchange(t, new)
        BY <1>8 DEF ServeRefresh
    <2>2. refresh[p].used \subseteq Tokens
        BY <1>1 DEF ClientTypeOK, AtMostOne
    <2>3. QED
        BY <1>4, <2>1, <2>2
<1>9. ASSUME NEW t \in Tokens, ServeAdrift(t)
      PROVE  ChainNext
    BY <1>4, <1>9 DEF ServeAdrift
<1>10. ASSUME NEW t \in Tokens, PairEnds(t)
       PROVE  ChainNext
    BY <1>2, <1>3, <1>10 DEF PairEnds
<1>11. CASE AllRevoked
    BY <1>2, <1>3, <1>11 DEF AllRevoked
<1>12. CASE UNCHANGED clientVars
    BY <1>12 DEF clientVars, chainVars
<1>13. QED
    BY <1>5, <1>6, <1>7, <1>8, <1>9, <1>10, <1>11, <1>12 DEF ClientNext, PageSteps

\* Whatever the pages send, and however often, is what TokenChain allows, so that
\* ChainKeepsOneLive holds of what the browser can have been given.
THEOREM BrowserUsesTokenChain == ClientSpec => ChainSpec
<1>1. ClientInit => ChainInit
    BY DEF ClientInit
<1>2. QED
    BY <1>1, ClientInitOK, ClientStepOK, ClientStepIsChainStep, PTL DEF ClientSpec, ChainSpec
=============================================================================
