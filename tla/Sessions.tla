------------------------------ MODULE Sessions ------------------------------
(***************************************************************************)
(* The refresh sessions of one account: login, token rotation with reuse   *)
(* detection, logout, password change and deactivation (routes/auth.py,    *)
(* models/refresh_session.py).                                             *)
(*                                                                         *)
(* Every handler is a transaction at READ COMMITTED with its own snapshot  *)
(* of what it loaded.  Only refresh locks a row (FOR UPDATE); the others   *)
(* wait for that lock when they UPDATE.  A token stands for its row.       *)
(***************************************************************************)
EXTENDS Naturals, FiniteSets

CONSTANTS
    MaxSessions,   \* bound on the rows of refresh_sessions
    MaxPasswords,  \* bound on the password changes
    Handlers       \* HTTP handlers that may be in progress at the same time

ASSUME SessionConstants ==
    /\ MaxSessions \in Nat /\ MaxPasswords \in Nat /\ IsFiniteSet(Handlers)

VARIABLES
    account,    \* the row of users
    sess,       \* the table refresh_sessions
    handler,    \* handlers in progress
    reused,     \* history: families answered "reuse detected"
    overtaken,  \* history: families rotated while a revocation was under way
    clash       \* history: two updates of the account started from one version

sessionVars == <<account, sess, handler, reused, overtaken, clash>>
-----------------------------------------------------------------------------
(* A row: `family' is the first row of its chain, `version' the token_version *)
(* signed into its token.  `pw' and `late' are history: the password proved  *)
(* at the login of the chain, and whether that login was overtaken by a      *)
(* change between its check of the password and its reload of the account.   *)

Ids == 1 .. MaxSessions

SessionRow == [state: {"unborn", "live", "revoked"}, family: 0 .. MaxSessions,
               version: Nat, pw: Nat, late: BOOLEAN, expired: BOOLEAN]

NoSession == [state |-> "unborn", family |-> 0, version |-> 0, pw |-> 0,
              late |-> FALSE, expired |-> FALSE]

IsLive(s)      == sess[s].state = "live"
Born           == {s \in Ids : sess[s].state # "unborn"}
LiveRows       == {s \in Ids : IsLive(s)}
LiveOf(family) == {s \in LiveRows : sess[s].family = family}

Issued(family, version, pw, late) ==
    [state |-> "live", family |-> family, version |-> version, pw |-> pw,
     late |-> late, expired |-> FALSE]

Revoked(rows) ==
    [s \in Ids |-> IF s \in rows THEN [sess[s] EXCEPT !.state = "revoked", !.pw = 0, !.late = FALSE]
                              ELSE sess[s]]

\* What the refresh endpoint would accept: the row, the JWT and the account.
Usable(s) ==
    /\ IsLive(s) /\ ~sess[s].expired
    /\ account.active
    /\ sess[s].version = account.version
-----------------------------------------------------------------------------
(* Handlers.                                                                *)

Free == [pc |-> "free"]
LoginPCs   == {"verified", "issuing"}
RefreshPCs == {"locked", "rotating", "revoking", "expiring"}

LoginRecord   == [pc: LoginPCs, pw: Nat, version: Nat, late: BOOLEAN]
RefreshRecord == [pc: RefreshPCs, row: Ids, reuse: BOOLEAN, rows: SUBSET Ids]
LogoutRecord  == [pc: {"leaving"}, row: Ids]
AccountRecord == [pc: {"loaded", "selected"}, act: {"password", "deactivate"},
                  version: Nat, rows: SUBSET Ids]

HandlerAt(h, pc) == handler[h].pc = pc
BecomesHandler(h, next) == handler' = [handler EXCEPT ![h] = next]

\* The rows locked by FOR UPDATE until the refresh that read them commits.
LockedBy(h)    == IF handler[h].pc \in RefreshPCs THEN {handler[h].row} ELSE {}
Unlocked(h, rows) == \A g \in Handlers \ {h} : LockedBy(g) \cap rows = {}

\* Bound: a handler that may insert a row starts only if an id is left for it.
Inserting == {h \in Handlers : handler[h].pc \in LoginPCs \cup {"locked", "rotating"}}
RoomForOne == Cardinality(Born) + Cardinality(Inserting) < MaxSessions
FreshId == Cardinality(Born) + 1

SessionsTypeOK ==
    /\ account \in [version: Nat, password: Nat, active: BOOLEAN]
    /\ sess \in [Ids -> SessionRow]
    /\ handler \in [Handlers -> LoginRecord \cup RefreshRecord \cup LogoutRecord
                                \cup AccountRecord \cup {Free}]
    /\ reused \subseteq Ids /\ overtaken \subseteq Ids
    /\ clash \in BOOLEAN

SessionsInit ==
    /\ account = [version |-> 0, password |-> 0, active |-> TRUE]
    /\ sess = [s \in Ids |-> NoSession]
    /\ handler = [h \in Handlers |-> Free]
    /\ reused = {} /\ overtaken = {}
    /\ clash = FALSE
-----------------------------------------------------------------------------
(* login (and the end of register): check the password, commit last_login_at *)
(* and reload the account, then sign and insert.                             *)

LoginVerify(h) ==
    /\ HandlerAt(h, "free") /\ RoomForOne
    /\ account.active
    /\ BecomesHandler(h, [pc |-> "verified", pw |-> account.password,
                          version |-> 0, late |-> FALSE])
    /\ UNCHANGED <<account, sess, reused, overtaken, clash>>

LoginReload(h) ==
    /\ HandlerAt(h, "verified")
    /\ BecomesHandler(h, [handler[h] EXCEPT !.pc = "issuing", !.version = account.version,
                                            !.late = handler[h].pw # account.password])
    /\ UNCHANGED <<account, sess, reused, overtaken, clash>>

LoginIssue(h) ==
    /\ HandlerAt(h, "issuing")
    /\ sess' = [sess EXCEPT ![FreshId] =
                  Issued(FreshId, handler[h].version, handler[h].pw, handler[h].late)]
    /\ BecomesHandler(h, Free)
    /\ UNCHANGED <<account, reused, overtaken, clash>>

(* refresh: lock the row of a token whose JWT is valid, judge it by the       *)
(* account as it is now, then rotate, or revoke the family, or close it.      *)

OpenRefresh(s) == [pc |-> "locked", row |-> s, reuse |-> FALSE, rows |-> {}]

\* Mistake: the row is read without FOR UPDATE, so a row about to be rotated
\* still reads as live.
RefreshReadUnlocked(h, s) ==
    /\ HandlerAt(h, "free")
    /\ s \in Born /\ ~sess[s].expired
    /\ IsLive(s) => RoomForOne
    /\ BecomesHandler(h, OpenRefresh(s))
    /\ UNCHANGED <<account, sess, reused, overtaken, clash>>

RefreshLock(h, s) ==
    /\ HandlerAt(h, "free")
    /\ s \in Born /\ ~sess[s].expired
    /\ Unlocked(h, {s})
    /\ IsLive(s) => RoomForOne
    /\ BecomesHandler(h, OpenRefresh(s))
    /\ UNCHANGED <<account, sess, reused, overtaken, clash>>

Judged(h, verdict, reuse, rows) ==
    BecomesHandler(h, [handler[h] EXCEPT !.pc = verdict, !.reuse = reuse, !.rows = rows])

\* _revoke_family selects the rows it will revoke here, without locking them.
RefreshJudge(h) ==
    LET s == handler[h].row
        rejected == ~account.active \/ account.version # sess[s].version IN
    /\ HandlerAt(h, "locked")
    /\ CASE rejected       -> Judged(h, "revoking", FALSE, LiveOf(sess[s].family))
         [] ~rejected /\ ~IsLive(s) -> Judged(h, "revoking", TRUE, LiveOf(sess[s].family))
         [] ~rejected /\ IsLive(s) /\ sess[s].expired -> Judged(h, "expiring", FALSE, {s})
         [] OTHER           -> Judged(h, "rotating", FALSE, {s})
    /\ UNCHANGED <<account, sess, reused, overtaken, clash>>

BeingRevoked(family) ==
    \E g \in Handlers : HandlerAt(g, "revoking") /\ sess[handler[g].row].family = family

\* The replacement is flushed before the old row is revoked; one commit.
RefreshRotate(h) ==
    LET s == handler[h].row  family == sess[s].family IN
    /\ HandlerAt(h, "rotating")
    /\ sess' = [Revoked({s}) EXCEPT ![FreshId] =
                  Issued(family, sess[s].version, sess[s].pw, sess[s].late)]
    /\ overtaken' = IF BeingRevoked(family) THEN overtaken \cup {family} ELSE overtaken
    /\ BecomesHandler(h, Free)
    /\ UNCHANGED <<account, reused, clash>>

\* Mistake: only the presented row is revoked, which it already was.
RefreshRevokeOne(h) ==
    LET s == handler[h].row IN
    /\ HandlerAt(h, "revoking")
    /\ sess' = Revoked({s})
    /\ reused' = IF handler[h].reuse THEN reused \cup {sess[s].family} ELSE reused
    /\ BecomesHandler(h, Free)
    /\ UNCHANGED <<account, overtaken, clash>>

\* Mistake: the family is revoked over a second connection, which waits for the
\* row that this request has locked itself.
RefreshRevokeElsewhere(h) ==
    LET s == handler[h].row IN
    /\ HandlerAt(h, "revoking")
    /\ \A g \in Handlers : LockedBy(g) \cap handler[h].rows = {}
    /\ sess' = Revoked(handler[h].rows)
    /\ reused' = IF handler[h].reuse THEN reused \cup {sess[s].family} ELSE reused
    /\ BecomesHandler(h, Free)
    /\ UNCHANGED <<account, overtaken, clash>>

RefreshRevoke(h) ==
    LET s == handler[h].row IN
    /\ HandlerAt(h, "revoking")
    /\ Unlocked(h, handler[h].rows)
    /\ sess' = Revoked(handler[h].rows)
    /\ reused' = IF handler[h].reuse THEN reused \cup {sess[s].family} ELSE reused
    /\ BecomesHandler(h, Free)
    /\ UNCHANGED <<account, overtaken, clash>>

RefreshExpired(h) ==
    /\ HandlerAt(h, "expiring")
    /\ sess' = Revoked({handler[h].row})
    /\ BecomesHandler(h, Free)
    /\ UNCHANGED <<account, reused, overtaken, clash>>

(* logout: load, and revoke what was loaded as live.                         *)

LogoutLoad(h, s) ==
    /\ HandlerAt(h, "free") /\ IsLive(s)
    /\ BecomesHandler(h, [pc |-> "leaving", row |-> s])
    /\ UNCHANGED <<account, sess, reused, overtaken, clash>>

LogoutCommit(h) ==
    /\ HandlerAt(h, "leaving") /\ Unlocked(h, {handler[h].row})
    /\ sess' = Revoked({handler[h].row})
    /\ BecomesHandler(h, Free)
    /\ UNCHANGED <<account, reused, overtaken, clash>>

(* change_password and deactivate_user: the account as it was loaded when the *)
(* request was authenticated, the user's live rows, one commit of both.       *)

PasswordChanges == {h \in Handlers : handler[h].pc \in {"loaded", "selected"}
                                     /\ handler[h].act = "password"}

AccountLoad(h, act) ==
    /\ HandlerAt(h, "free")
    /\ act = "password" => account.active    \* authenticated as this user
    /\ act = "deactivate" => account.active  \* bound: an admin deactivates once
    /\ act = "password" =>                   \* bound
          account.password + Cardinality(PasswordChanges) < MaxPasswords
    /\ BecomesHandler(h, [pc |-> "loaded", act |-> act, version |-> account.version, rows |-> {}])
    /\ UNCHANGED <<account, sess, reused, overtaken, clash>>

AccountSelect(h) ==
    /\ HandlerAt(h, "loaded")
    /\ BecomesHandler(h, [handler[h] EXCEPT !.pc = "selected", !.rows = LiveRows])
    /\ UNCHANGED <<account, sess, reused, overtaken, clash>>

Changed(h, version) ==
    IF handler[h].act = "password"
    THEN [account EXCEPT !.password = @ + 1, !.version = version]
    ELSE [account EXCEPT !.active = FALSE, !.version = version]

\* Mistake: the sessions are revoked, but the tokens are left valid.
AccountCommitSameVersion(h) ==
    /\ HandlerAt(h, "selected") /\ Unlocked(h, handler[h].rows)
    /\ account' = Changed(h, account.version)
    /\ sess' = Revoked(handler[h].rows)
    /\ clash' = (clash \/ handler[h].version # account.version)
    /\ BecomesHandler(h, Free)
    /\ UNCHANGED <<reused, overtaken>>

AccountCommit(h) ==
    /\ HandlerAt(h, "selected") /\ Unlocked(h, handler[h].rows)
    /\ account' = Changed(h, handler[h].version + 1)
    /\ sess' = Revoked(handler[h].rows)
    /\ clash' = (clash \/ handler[h].version # account.version)
    /\ BecomesHandler(h, Free)
    /\ UNCHANGED <<reused, overtaken>>

\* Time passes the expiry of a row and of the JWT signed with it.  For a revoked
\* row that only means that its token is not presented any more.
SessionExpires(s) ==
    /\ IsLive(s) /\ ~sess[s].expired
    /\ sess' = [sess EXCEPT ![s].expired = TRUE]
    /\ UNCHANGED <<account, handler, reused, overtaken, clash>>
-----------------------------------------------------------------------------
HandlerStarts(h) ==
    \/ LoginVerify(h)
    \/ \E s \in Ids : RefreshLock(h, s) \/ LogoutLoad(h, s)
    \/ \E act \in {"password", "deactivate"} : AccountLoad(h, act)

HandlerContinues(h) ==
    \/ LoginReload(h) \/ LoginIssue(h)
    \/ RefreshJudge(h) \/ RefreshRotate(h) \/ RefreshRevoke(h) \/ RefreshExpired(h)
    \/ LogoutCommit(h)
    \/ AccountSelect(h) \/ AccountCommit(h)

SessionsNext ==
    \/ \E h \in Handlers : HandlerStarts(h) \/ HandlerContinues(h)
    \/ \E s \in Ids : SessionExpires(s)

SessionsSpec == SessionsInit /\ [][SessionsNext]_sessionVars
-----------------------------------------------------------------------------
(* Properties.                                                              *)

\* Rotation is single-use: two refreshes, a logout, a revocation and a password
\* change in any order leave a family at most one row that is not revoked.
OneLivePerFamily ==
    \A s, u \in LiveRows : sess[s].family = sess[u].family => s = u

\* What the requests for the tokens of the account do together is what TokenChain
\* says: whatever overlaps, a token is exchanged once, while it is live, for one
\* that was never signed, and no revoked token comes back to life.
Chain == INSTANCE TokenChain WITH
    Tokens <- Ids,
    state  <- [s \in Ids |-> sess[s].state],
    chain  <- [s \in Ids |-> IF sess[s].state = "unborn" THEN s ELSE sess[s].family]

ImplementsTokenChain == Chain!ChainSpec

\* Once a family was answered "reuse detected" none of its rows is live, unless
\* a rotation was committed between the SELECT of the family and its UPDATE.
ReuseEndsFamily ==
    \A family \in reused \ overtaken : LiveOf(family) = {}

\* A token the refresh endpoint accepts descends from a login with the present
\* password, however refreshes and changes overlap.  Two cases escape the code:
\* a login whose password was changed before it reloaded the account, and two
\* changes that started from one token_version.
UsableProvesPassword ==
    \A s \in Ids : Usable(s) => sess[s].pw = account.password \/ sess[s].late \/ clash

\* No requests wait for each other's rows for ever: as long as one is in progress,
\* one can go on.
NoRequestDeadlock ==
    (\E h \in Handlers : ~HandlerAt(h, "free")) => \E h \in Handlers : ENABLED HandlerContinues(h)
=============================================================================
