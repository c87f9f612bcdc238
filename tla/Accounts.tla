----------------------------- MODULE Accounts -----------------------------
(***************************************************************************)
(* The sign-ins of one account: sessions with a rotating refresh token,    *)
(* the version number that every token carries, and the handlers that      *)
(* change a credential and then revoke the sessions.  The handlers are     *)
(* plain sequences of awaited queries, so anything may happen between two  *)
(* of their steps; only the reset by mail is a transaction.                *)
(*                                                                         *)
(* One browser holds its cookies in jar, shared by its tabs; each tab has  *)
(* at most one refresh under way (the frontend's refreshPromise), but does *)
(* not know of the others'.  Sign-ins from elsewhere keep their cookies to *)
(* themselves.  Expiry is left to chance: a tab may ask for a refresh at   *)
(* any time, and a socket may be closed by its timer at any time.          *)
(***************************************************************************)
EXTENDS Integers, FiniteSets

CONSTANTS Logins,       \* sign-ins: each is answered to the browser or elsewhere
          Tabs,         \* tabs of the browser
          Sockets,      \* websocket connections the browser may open
          Changers,     \* handlers that change a credential or the account's status
          MaxSessions,  \* the 10 sessions createSession keeps
          MaxChanges,   \* bound: credential changes
          MaxRotations, \* bound: refreshes of one session
          MaxBusy,      \* bound: handlers that are under way at once
          None

ASSUME AccountsAssumption ==
    /\ MaxSessions \in Nat \ {0} /\ MaxChanges \in Nat /\ MaxRotations \in Nat
    /\ MaxBusy \in Nat /\ None \notin Nat /\ IsFiniteSet(Logins)

VARIABLES
    account,   \* User: [version, password, status], and bumps: how often version was to rise
    sessions,  \* AuthSession by sid, numbered as they were created
    logins,    \* the sign-in handlers
    changers,  \* the credential handlers
    jar,       \* the browser's cookies: None or [sid, hash]
    tabs,      \* the refresh each tab has under way
    sockets,   \* [at, sid]
    lost       \* a refresh was granted and its answer never came

vars == <<account, sessions, logins, changers, jar, tabs, sockets, lost>>

Sids == 1..Cardinality(Logins)

Live == {s \in Sids : sessions[s].state = "live"}

IdleLogin == [at |-> "idle", version |-> 0, password |-> 0, sid |-> None, stale |-> {}]
IdleTab == [at |-> "idle", sid |-> None, hash |-> 0]
IdleChanger == [at |-> "idle", version |-> 0]

MayStart ==
    Cardinality({l \in Logins : logins[l].at # "idle"})
    + Cardinality({t \in Tabs : tabs[t].at # "idle"})
    + Cardinality({h \in Changers : changers[h].at # "idle"}) < MaxBusy

(* Mutation: the version in the token is not compared.                     *)
MutAccepted(s) == sessions[s].state = "live" /\ account.status = "active"

(* authenticateAccessToken: the session is not revoked and the token was   *)
(* signed under the version the account still has.  A refresh signs under  *)
(* the version it has just compared, so all tokens of a session carry one. *)
Accepted(s) ==
    /\ sessions[s].state = "live"
    /\ account.status = "active"
    /\ sessions[s].version = account.version

(* disconnectSocketRoom: the sockets that are in the room now.             *)
disconnect(sids) ==
    sockets' = [k \in Sockets |->
                  IF sockets[k].at = "open" /\ sockets[k].sid \in sids
                  THEN [at |-> "closed", sid |-> None] ELSE sockets[k]]

(* A revoked session is never looked at again but for being revoked.       *)
NoSession == [state |-> "none", hash |-> 0, version |-> 0, password |-> 0]
RevokedSession == [NoSession EXCEPT !.state = "revoked"]

revoked(sids) ==
    [s \in Sids |-> IF s \in sids /\ sessions[s].state = "live"
                    THEN RevokedSession ELSE sessions[s]]

----------------------------------------------------------------------------
(* Signing in                                                              *)

(* findByEmail, comparePassword and the check of the status all go by the  *)
(* document that was read.                                                 *)
login(l) ==
    /\ logins[l].at = "idle" /\ logins[l].sid = None /\ MayStart
    /\ account.status = "active"
    /\ logins' = [logins EXCEPT ![l] = [IdleLogin EXCEPT !.at = "checked",
                                          !.version = account.version,
                                          !.password = account.password]]
    /\ UNCHANGED <<account, sessions, changers, jar, tabs, sockets, lost>>

createSession(l) ==
    LET s == 1 + Cardinality({t \in Sids : sessions[t].state # "none"})
    IN  /\ logins[l].at = "checked"
        /\ sessions' = [sessions EXCEPT ![s] = [state |-> "live", hash |-> 0,
                                                version |-> logins[l].version,
                                                password |-> logins[l].password]]
        /\ logins' = [logins EXCEPT ![l] = [IdleLogin EXCEPT !.at = "created", !.sid = s]]
        /\ UNCHANGED <<account, changers, jar, tabs, sockets, lost>>

(* Mutation: one session too many is skipped.                              *)
MutBeyondLimit == {s \in Live : Cardinality({t \in Live : t > s}) > MaxSessions}

(* The sessions beyond the newest MaxSessions.                             *)
BeyondLimit == {s \in Live : Cardinality({t \in Live : t > s}) >= MaxSessions}

listSessions(l) ==
    /\ logins[l].at = "created"
    /\ logins' = [logins EXCEPT ![l].at = "listed", ![l].stale = BeyondLimit]
    /\ UNCHANGED <<account, sessions, changers, jar, tabs, sockets, lost>>

(* The listed sessions are revoked and the answer sets the cookies.  Their *)
(* sockets are left to notice by themselves.                               *)
pruneSessions(l) ==
    /\ logins[l].at = "listed"
    /\ sessions' = revoked(logins[l].stale)
    /\ logins' = [logins EXCEPT ![l] = [IdleLogin EXCEPT !.sid = logins[l].sid]]
    /\ \/ jar' = [sid |-> logins[l].sid, hash |-> 0]
       \/ UNCHANGED jar
    /\ UNCHANGED <<account, changers, tabs, sockets, lost>>

----------------------------------------------------------------------------
(* Refreshing, tab by tab                                                  *)

Answer(t, result) == tabs' = [tabs EXCEPT ![t].at = result]

(* refreshSession in the frontend: the cookies go out as they are now.     *)
startRefresh(t) ==
    /\ tabs[t].at = "idle" /\ jar # None /\ MayStart
    /\ sessions[jar.sid].hash < MaxRotations
    /\ tabs' = [tabs EXCEPT ![t] = [at |-> "asked", sid |-> jar.sid, hash |-> jar.hash]]
    /\ UNCHANGED <<account, sessions, logins, changers, jar, sockets, lost>>

(* rotateSession reads the account first.                                  *)
readAccount(t) ==
    /\ tabs[t].at = "asked"
    /\ IF account.status = "active" /\ sessions[tabs[t].sid].version = account.version
       THEN Answer(t, "read") ELSE Answer(t, "refused")
    /\ UNCHANGED <<account, sessions, logins, changers, jar, sockets, lost>>

(* Mutation: the rotation does not name the token it replaces.             *)
MutTokenIsCurrent(t) == sessions[tabs[t].sid].state = "live"

(* The filter of the conditional update.                                   *)
TokenIsCurrent(t) ==
    /\ sessions[tabs[t].sid].state = "live"
    /\ sessions[tabs[t].sid].hash = tabs[t].hash

rotateSession(t) ==
    LET s == tabs[t].sid
    IN  /\ tabs[t].at = "read"
        /\ IF TokenIsCurrent(t)
           THEN /\ sessions' = [sessions EXCEPT ![s].hash = @ + 1]
                /\ tabs' = [tabs EXCEPT ![t].at = "granted", ![t].hash = sessions[s].hash + 1]
           ELSE Answer(t, "refused") /\ UNCHANGED sessions
        /\ UNCHANGED <<account, logins, changers, jar, sockets, lost>>

(* The answer reaches the browser: new cookies, or none.                   *)
answer(t) ==
    /\ tabs[t].at \in {"granted", "refused"}
    /\ jar' = IF tabs[t].at = "granted" THEN [sid |-> tabs[t].sid, hash |-> tabs[t].hash]
              ELSE None
    /\ tabs' = [tabs EXCEPT ![t] = IdleTab]
    /\ UNCHANGED <<account, sessions, logins, changers, sockets, lost>>

loseAnswer(t) ==
    /\ tabs[t].at \in {"granted", "refused"}
    /\ lost' = (lost \/ tabs[t].at = "granted")
    /\ tabs' = [tabs EXCEPT ![t] = IdleTab]
    /\ UNCHANGED <<account, sessions, logins, changers, jar, sockets>>

(* POST /logout: the session of the cookies is revoked, its sockets are    *)
(* sent away and the cookies cleared.                                      *)
logout ==
    /\ jar # None /\ Accepted(jar.sid)
    /\ sessions' = revoked({jar.sid})
    /\ disconnect({jar.sid})
    /\ jar' = None
    /\ UNCHANGED <<account, logins, changers, tabs, lost>>

----------------------------------------------------------------------------
(* Changing a credential                                                   *)

MayChange == account.bumps < MaxChanges /\ MayStart

(* PATCH /me/password: the document is read, the old password compared.    *)
openPasswordChange(h) ==
    /\ changers[h] = IdleChanger /\ MayChange
    /\ \E s \in Live : Accepted(s)
    /\ changers' = [changers EXCEPT ![h] = [at |-> "compared", version |-> account.version]]
    /\ UNCHANGED <<account, sessions, logins, jar, tabs, sockets, lost>>

(* user.save(): tokenVersion is set to one more than the value read.       *)
savePassword(h) ==
    /\ changers[h].at = "compared" /\ account.bumps < MaxChanges
    /\ account' = [account EXCEPT !.password = @ + 1, !.version = changers[h].version + 1,
                                  !.bumps = @ + 1]
    /\ changers' = [changers EXCEPT ![h].at = "saved"]
    /\ UNCHANGED <<sessions, logins, jar, tabs, sockets, lost>>

(* A change of role, a ban, a pardon, a confirmed change of address: the   *)
(* version is incremented in the database itself.                          *)
incrementVersion(h, status) ==
    /\ changers[h] = IdleChanger /\ MayChange
    /\ account' = [account EXCEPT !.status = status, !.version = @ + 1, !.bumps = @ + 1]
    /\ changers' = [changers EXCEPT ![h].at = "saved"]
    /\ UNCHANGED <<sessions, logins, jar, tabs, sockets, lost>>

(* revokeAllSessions, after which the user's room is emptied.              *)
revokeAllSessions(h) ==
    /\ changers[h].at = "saved"
    /\ sessions' = revoked(Sids)
    /\ disconnect(Sids)
    /\ changers' = [changers EXCEPT ![h] = IdleChanger]
    /\ UNCHANGED <<account, logins, jar, tabs, lost>>

(* resetPasswordWithToken: account and sessions change in one transaction, *)
(* the sockets are sent away after it has committed.                       *)
resetPassword(h) ==
    /\ changers[h] = IdleChanger /\ MayChange
    /\ account.status = "active"
    /\ account' = [account EXCEPT !.password = @ + 1, !.version = @ + 1, !.bumps = @ + 1]
    /\ sessions' = revoked(Sids)
    /\ changers' = [changers EXCEPT ![h].at = "committed"]
    /\ UNCHANGED <<logins, jar, tabs, sockets, lost>>

disconnectUserSessions(h) ==
    /\ changers[h].at = "committed"
    /\ disconnect(Sids)
    /\ changers' = [changers EXCEPT ![h] = IdleChanger]
    /\ UNCHANGED <<account, sessions, logins, jar, tabs, lost>>

(* The process dies between the write and what was to follow it.           *)
crash(h) ==
    /\ changers[h] # IdleChanger
    /\ changers' = [changers EXCEPT ![h] = IdleChanger]
    /\ UNCHANGED <<account, sessions, logins, jar, tabs, sockets, lost>>

----------------------------------------------------------------------------
(* Sockets                                                                 *)

ClosedSocket == [at |-> "closed", sid |-> None]

(* createSocketAuthMiddleware lets the socket in ...                       *)
admit(k) ==
    /\ sockets[k] = ClosedSocket /\ jar # None /\ Accepted(jar.sid)
    /\ sockets' = [sockets EXCEPT ![k] = [at |-> "admitted", sid |-> jar.sid]]
    /\ UNCHANGED <<account, sessions, logins, changers, jar, tabs, lost>>

(* ... and only then does it join the rooms it can be reached in.          *)
join(k) ==
    /\ sockets[k].at = "admitted"
    /\ sockets' = [sockets EXCEPT ![k].at = "open"]
    /\ UNCHANGED <<account, sessions, logins, changers, jar, tabs, lost>>

(* Mutation: it checks the session and not the account.                    *)
MutRevalidates(k) == sessions[sockets[k].sid].state # "live"

(* enforceSocketAuthorization looks again once a minute, and closes a      *)
(* socket whose token would not be accepted now.                           *)
Revalidates(k) == ~Accepted(sockets[k].sid)

revalidate(k) ==
    /\ sockets[k].at = "open" /\ Revalidates(k)
    /\ sockets' = [sockets EXCEPT ![k] = ClosedSocket]
    /\ UNCHANGED <<account, sessions, logins, changers, jar, tabs, lost>>

(* The access token's own timer, or the browser, closes it.                *)
hangUp(k) ==
    /\ sockets[k].at = "open"
    /\ sockets' = [sockets EXCEPT ![k] = ClosedSocket]
    /\ UNCHANGED <<account, sessions, logins, changers, jar, tabs, lost>>

----------------------------------------------------------------------------
Init ==
    /\ account = [version |-> 0, password |-> 0, status |-> "active", bumps |-> 0]
    /\ sessions = [s \in Sids |-> NoSession]
    /\ logins = [l \in Logins |-> IdleLogin]
    /\ changers = [h \in Changers |-> IdleChanger]
    /\ jar = None
    /\ tabs = [t \in Tabs |-> IdleTab]
    /\ sockets = [k \in Sockets |-> ClosedSocket]
    /\ lost = FALSE

Next ==
    \/ \E l \in Logins : login(l) \/ createSession(l) \/ listSessions(l) \/ pruneSessions(l)
    \/ \E t \in Tabs : \/ startRefresh(t) \/ readAccount(t) \/ rotateSession(t)
                       \/ answer(t) \/ loseAnswer(t)
    \/ logout
    \/ \E h \in Changers : \/ openPasswordChange(h) \/ savePassword(h)
                           \/ \E status \in {"active", "banned"} : incrementVersion(h, status)
                           \/ revokeAllSessions(h) \/ resetPassword(h)
                           \/ disconnectUserSessions(h) \/ crash(h)
    \/ \E k \in Sockets : admit(k) \/ join(k) \/ revalidate(k) \/ hangUp(k)

(* The minute timer of every open socket keeps firing, and a connection    *)
(* that was let in is set up.                                              *)
Fairness == \A k \in Sockets : WF_vars(revalidate(k)) /\ WF_vars(join(k))

Spec == Init /\ [][Next]_vars
FairSpec == Spec /\ Fairness

----------------------------------------------------------------------------
(* Properties                                                              *)

(* A sign-in is good for the password it was made with: once the password  *)
(* is changed or reset, no session made with the old one is accepted, not  *)
(* even one whose handler had compared it before and stores the session    *)
(* after, and not when the process dies before it revokes anything         *)
(* (authenticateAccessToken against routes/auth and accountTokenService).  *)
(* The proviso is the lost update of savePassword: two changes that        *)
(* overlap raise the version by one.                                       *)
PasswordEndsSignIns ==
    account.version = account.bumps =>
        \A s \in Sids : Accepted(s) => sessions[s].password = account.password

(* createSession's cap: whenever no sign-in is half done, the account has  *)
(* at most MaxSessions live sessions, however the sign-ins overlapped.     *)
SessionsBounded ==
    (\A l \in Logins : logins[l].at \in {"idle", "checked"}) => Cardinality(Live) <= MaxSessions

(* Whatever its tabs refresh at the same time, in whatever order the       *)
(* answers come, the browser never ends up with a refresh token that was   *)
(* already replaced: its cookies are the session's, or the newer ones are  *)
(* on their way, unless an answer was lost.                                *)
JarIsNewest ==
    (jar # None /\ sessions[jar.sid].state = "live" /\ ~lost) =>
        \/ jar.hash = sessions[jar.sid].hash
        \/ \E t \in Tabs : /\ tabs[t].at = "granted" /\ tabs[t].sid = jar.sid
                           /\ tabs[t].hash = sessions[jar.sid].hash

(* No socket outlives its session for good: one that was let in just       *)
(* before the room was emptied, or whose room was never emptied because    *)
(* the process died or the session was only pruned, is found by its timer. *)
SocketsFollowSessions ==
    \A k \in Sockets, s \in Sids :
        (sockets[k].sid = s /\ ~Accepted(s)) ~> (sockets[k].sid # s \/ Accepted(s))
============================================================================
