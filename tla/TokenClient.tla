---------------------------- MODULE TokenClient ----------------------------
(***************************************************************************)
(* One browser and the pair of tokens it keeps in localStorage, which its  *)
(* pages share: their requests, the refresh that the requests of one page  *)
(* share, sign-in and sign-out (frontend: lib/api.ts and                   *)
(* components/providers/AuthProvider.tsx).                                 *)
(*                                                                         *)
(* A page is one thread, so what it does between two awaits is one step.   *)
(* The API is TokenChain, which Sessions implements.  A pair is named by   *)
(* its refresh token; a set of at most one pair stands for one that may be *)
(* missing.                                                                *)
(***************************************************************************)
EXTENDS TokenChain

CONSTANTS
    Pages,  \* tabs of the browser
    Calls   \* requests that a page has in progress

VARIABLES
    stored,       \* localStorage: the pair
    page,         \* of each page: what it shows
    refresh,      \* of each page: refreshInFlight
    call,         \* of each page: its requests
    adrift,       \* the refresh tokens on their way in a refresh that nobody waits for
    exchanged,    \* history: tokens the API exchanged
    astray,       \* history: tokens that two pages presented side by side, or
                  \*   that were in a refresh when its page was reloaded
    session       \* history: in, out since the user signed out, or raced if a
                  \*   refresh was under way then

clientVars == <<state, chain, stored, page, refresh, call, adrift, exchanged,
                astray, session>>
-----------------------------------------------------------------------------
\* refreshInFlight.  `used' is the token it presents, `new' the answer.  A promise
\* that found nothing to present is settled, but stays: the `finally' that clears
\* refreshInFlight belongs to a `try' it does not enter.
NoRefresh   == [at |-> "none", used |-> {}, new |-> {}]
Stuck       == [at |-> "stuck", used |-> {}, new |-> {}]
Sent(t)     == [at |-> "sent", used |-> {t}, new |-> {}]
Refreshing(p) == refresh[p].at \in {"sent", "answered"}

\* A request: sent, sent again after a refresh, or waiting for one.  An access token
\* may expire at any time, so any request may be answered with a 401.
CallStates == {"idle", "sent", "waiting", "retried"}

CallBecomes(p, c, next) == call' = [call EXCEPT ![p][c] = next]
RefreshBecomes(p, next) == refresh' = [refresh EXCEPT ![p] = next]
Shows(p, what)          == page' = [page EXCEPT ![p] = what]

\* Every request of p that waits for its refresh becomes `next'.
WaitersBecome(p, next) ==
    call' = [call EXCEPT ![p] = [c \in Calls |-> IF @[c] = "waiting" THEN next ELSE @[c]]]

AtMostOne == {{}} \cup {{t} : t \in Tokens}

ClientTypeOK ==
    /\ ChainTypeOK
    /\ stored \in AtMostOne
    /\ page \in [Pages -> {"app", "login"}]
    /\ refresh \in [Pages -> [at: {"none", "sent", "answered", "stuck"}, used: AtMostOne, new: AtMostOne]]
    /\ call \in [Pages -> [Calls -> CallStates]]
    /\ adrift \subseteq Tokens /\ exchanged \subseteq Tokens /\ astray \subseteq Tokens
    /\ session \in {"in", "out", "raced"}

ClientInit ==
    /\ ChainInit
    /\ stored = {}
    /\ page = [p \in Pages |-> "login"]
    /\ refresh = [p \in Pages |-> NoRefresh]
    /\ call = [p \in Pages |-> [c \in Calls |-> "idle"]]
    /\ adrift = {} /\ exchanged = {} /\ astray = {}
    /\ session = "out"
-----------------------------------------------------------------------------
(* request and refreshAccessToken.                                          *)

StartCall(p, c) ==
    /\ page[p] = "app" /\ call[p][c] = "idle"
    /\ CallBecomes(p, c, "sent")
    /\ UNCHANGED <<state, chain, stored, page, refresh, adrift, exchanged, astray, session>>

\* It is answered, but not with a 401, or fails, or is aborted.
CallEnds(p, c) ==
    /\ call[p][c] \in {"sent", "retried"}
    /\ CallBecomes(p, c, "idle")
    /\ UNCHANGED <<state, chain, stored, page, refresh, adrift, exchanged, astray, session>>

\* tokens.clear() and onSessionExpired.
GiveUp(p) ==
    /\ stored' = {}
    /\ Shows(p, "login")

\* A 401 while another one is having the pair refreshed.
CallJoins(p, c) ==
    /\ call[p][c] = "sent"
    /\ Refreshing(p)
    /\ CallBecomes(p, c, "waiting")
    /\ UNCHANGED <<state, chain, stored, page, refresh, adrift, exchanged, astray, session>>

\* The first 401: the page presents the refresh token it finds now.
CallRefreshes(p, c) ==
    /\ call[p][c] = "sent"
    /\ refresh[p].at = "none"
    /\ \E t \in stored :
          /\ RefreshBecomes(p, Sent(t))
          /\ astray' = IF \E q \in Pages \ {p} : t \in refresh[q].used THEN astray \cup {t} ELSE astray
    /\ CallBecomes(p, c, "waiting")
    /\ UNCHANGED <<state, chain, stored, page, adrift, exchanged, session>>

\* There is none, or there was none at an earlier 401.
CallGivesUp(p, c) ==
    /\ call[p][c] = "sent"
    /\ refresh[p].at = "stuck" \/ (refresh[p].at = "none" /\ stored = {})
    /\ RefreshBecomes(p, Stuck)
    /\ CallBecomes(p, c, "idle")
    /\ GiveUp(p)
    /\ UNCHANGED <<state, chain, adrift, exchanged, astray, session>>

\* A second 401 is an error of the request.  If that was the check of the session,
\* the provider clears the pair, or signs out.
RetryRefused(p, c) ==
    /\ call[p][c] = "retried"
    /\ CallBecomes(p, c, "idle")
    /\ GiveUp(p) \/ UNCHANGED <<stored, page>>
    /\ UNCHANGED <<state, chain, refresh, adrift, exchanged, astray, session>>

\* Mistake: the access token alone is replaced.
RefreshSettlesHalf(p) ==
    /\ refresh[p].at = "answered"
    /\ RefreshBecomes(p, NoRefresh)
    /\ \/ /\ refresh[p].new # {}
          /\ WaitersBecome(p, "retried")
          /\ UNCHANGED <<stored, page>>
       \/ /\ refresh[p].new = {}
          /\ GiveUp(p)
          /\ WaitersBecome(p, "idle")
    /\ UNCHANGED <<state, chain, adrift, exchanged, astray, session>>

\* The promise settles: those who wait send their request again, or give up.
RefreshSettles(p) ==
    /\ refresh[p].at = "answered"
    /\ RefreshBecomes(p, NoRefresh)
    /\ \/ /\ refresh[p].new # {}
          /\ stored' = refresh[p].new
          /\ WaitersBecome(p, "retried")
          /\ UNCHANGED page
       \/ /\ refresh[p].new = {}
          /\ GiveUp(p)
          /\ WaitersBecome(p, "idle")
    /\ UNCHANGED <<state, chain, adrift, exchanged, astray, session>>
-----------------------------------------------------------------------------
(* The user.                                                                *)

\* login and register: the answer of the API is stored as it arrives.
SignIn(p) ==
    /\ page[p] = "login"
    /\ \E t \in Unsigned : Issue(t) /\ stored' = {t}
    /\ Shows(p, "app")
    /\ session' = "in"
    /\ UNCHANGED <<refresh, call, adrift, exchanged, astray>>

\* Mistake: the pair is kept until the API has answered.
SignOutLater(p) ==
    /\ page[p] = "app"
    /\ Shows(p, "login")
    /\ session' = IF \E q \in Pages : Refreshing(q) THEN "raced" ELSE "out"
    /\ UNCHANGED <<state, chain, stored, refresh, call, adrift, exchanged, astray>>

SignOut(p) ==
    /\ page[p] = "app"
    /\ GiveUp(p)
    /\ session' = IF \E q \in Pages : Refreshing(q) THEN "raced" ELSE "out"
    /\ UNCHANGED <<state, chain, refresh, call, adrift, exchanged, astray>>

\* A reload, or a tab that is closed and opened again, forgets all but localStorage.
Reload(p) ==
    /\ Shows(p, IF stored = {} THEN "login" ELSE "app")
    /\ RefreshBecomes(p, NoRefresh)
    /\ call' = [call EXCEPT ![p] = [c \in Calls |-> "idle"]]
    /\ adrift' = IF refresh[p].at = "sent" THEN adrift \cup refresh[p].used ELSE adrift
    /\ astray' = astray \cup refresh[p].used
    /\ UNCHANGED <<state, chain, stored, exchanged, session>>
-----------------------------------------------------------------------------
(* The API.                                                                 *)

\* It exchanges t, or takes it for a replay and revokes what is left of its chain.
Exchange(t, new) ==
    \/ /\ \E u \in Unsigned : Rotate(t, u) /\ new = {u}
       /\ exchanged' = exchanged \cup {t}
    \/ /\ t \notin Living
       /\ Revoke({s \in Living : chain[s] = chain[t]}) /\ new = {}
       /\ UNCHANGED exchanged

ServeRefresh(p) ==
    /\ refresh[p].at = "sent"
    /\ \E t \in refresh[p].used, new \in AtMostOne :
          /\ Exchange(t, new)
          /\ RefreshBecomes(p, [refresh[p] EXCEPT !.at = "answered", !.new = new])
    /\ UNCHANGED <<stored, page, call, adrift, astray, session>>

\* The API cannot be reached, or fails, or its answer is lost.
RefreshFails(p) ==
    /\ Refreshing(p)
    /\ RefreshBecomes(p, [refresh[p] EXCEPT !.at = "answered", !.new = {}])
    /\ UNCHANGED <<state, chain, stored, page, call, adrift, exchanged, astray, session>>

ServeAdrift(t) ==
    /\ t \in adrift
    /\ adrift' = adrift \ {t}
    /\ \E new \in AtMostOne : Exchange(t, new)
    /\ UNCHANGED <<stored, page, refresh, call, astray, session>>

\* The refresh token expires, or POST /auth/logout of a page that has signed out
\* arrives, which may be late or never.
PairEnds(t) ==
    /\ t \in Living
    /\ Revoke({t})
    /\ UNCHANGED <<stored, page, refresh, call, adrift, exchanged, astray, session>>

\* The password is changed, or the account is deactivated.
AllRevoked ==
    /\ Revoke(Living)
    /\ UNCHANGED <<stored, page, refresh, call, adrift, exchanged, astray, session>>
-----------------------------------------------------------------------------
PageSteps(p) ==
    \/ SignIn(p) \/ SignOut(p) \/ Reload(p)
    \/ ServeRefresh(p) \/ RefreshFails(p) \/ RefreshSettles(p)
    \/ \E c \in Calls : \/ StartCall(p, c) \/ CallEnds(p, c) \/ CallJoins(p, c)
                        \/ CallRefreshes(p, c) \/ CallGivesUp(p, c) \/ RetryRefused(p, c)

ClientNext ==
    \/ \E p \in Pages : PageSteps(p)
    \/ \E t \in Tokens : ServeAdrift(t) \/ PairEnds(t)
    \/ AllRevoked

ClientSpec == ClientInit /\ [][ClientNext]_clientVars
-----------------------------------------------------------------------------
(* Properties.                                                              *)

\* The requests of a page share one refresh, so that none of them presents a token
\* that was exchanged, which the API takes for theft and answers by ending the
\* session.  Two pages do not share it, and a reload forgets that it had begun.
NoReplayWithinAPage ==
    \A p \in Pages : refresh[p].at = "sent" => refresh[p].used \cap exchanged \subseteq astray

\* Nothing brings a session back that the user has left, unless a refresh was under
\* way in some page: its answer is stored whatever happened since.
SignedOutStaysOut == session = "out" => stored = {}
=============================================================================
