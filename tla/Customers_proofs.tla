-------------------------- MODULE Customers_proofs --------------------------
(***************************************************************************)
(* What a customer has beside the orders: sign-ins, uploaded images and    *)
(* gifts.  The three share no state; each has an invariant of its own.     *)
(*                                                                         *)
(* A session is worth nothing once the password it was made with is gone,  *)
(* for every number of sign-ins, tabs, sockets and credential handlers.    *)
(* As long as no change of a credential was lost, the account's version    *)
(* counts the changes; a sign-in carries the version it read together with *)
(* the password, so whoever carries the newest version was made with the   *)
(* newest password.  A lost change is never made good: the version stays   *)
(* behind the count from then on.                                          *)
(*                                                                         *)
(* There are never more live sessions than the limit and the sign-ins      *)
(* under way: a session past the limit is in the list of a sign-in that    *)
(* is about to revoke it.                                                  *)
(*                                                                         *)
(* The browser never keeps a refresh token that was replaced: as long as   *)
(* no answer was lost, the newest token of its session is in the jar or    *)
(* in the answer to the one tab that was granted it.                       *)
(*                                                                         *)
(* An image that a stored book, review or return request shows is there    *)
(* and is recorded as its own: what can still be taken has its file, what  *)
(* a pass of the clean-up job is about to delete can be taken no more, and *)
(* a return has all its images before it is saved.                         *)
(*                                                                         *)
(* The copies of a gift that are counted as issued are those redeemed.     *)
(***************************************************************************)
EXTENDS Accounts, Assets, Loyalty, StockTheorems, WellFoundedInduction

Session == [state : {"none", "live", "revoked"}, hash : Nat, version : Nat, password : Nat]
Login == [at : {"idle", "checked", "created", "listed"}, version : Nat, password : Nat,
          sid : Nat \cup {None}, stale : SUBSET Sids]
Changer == [at : {"idle", "compared", "saved", "committed"}, version : Nat]
Account == [version : Nat, password : Nat, status : {"active", "banned"}, bumps : Nat]

AccountsTypeOK ==
    /\ account \in Account
    /\ sessions \in [Sids -> Session]
    /\ logins \in [Logins -> Login]
    /\ changers \in [Changers -> Changer]

(* Nobody carries a version from the future.                               *)
VersionsCounted ==
    /\ account.version <= account.bumps
    /\ \A s \in Sids : sessions[s].version <= account.bumps
    /\ \A l \in Logins : logins[l].version <= account.bumps
    /\ \A h \in Changers : changers[h].version <= account.bumps

(* Who has read the newest version has done so after the last change.      *)
ReadSinceLastChange ==
    \A h \in Changers : changers[h].at = "compared" /\ changers[h].version = account.bumps
                            => account.version = account.bumps

NewestIsTrue ==
    account.version = account.bumps =>
        /\ \A s \in Sids : sessions[s].state = "live" /\ sessions[s].version = account.version
                               => sessions[s].password = account.password
        /\ \A l \in Logins : logins[l].at = "checked" /\ logins[l].version = account.version
                               => logins[l].password = account.password

PasswordInv == AccountsTypeOK /\ VersionsCounted /\ ReadSinceLastChange /\ NewestIsTrue

-----------------------------------------------------------------------------
(* The number of a new session is a natural number.                        *)
LEMMA NewSid ==
    1 + Cardinality({t \in Sids : sessions[t].state # "none"}) \in Nat
<1>1. IsFiniteSet(Sids)
  BY AccountsAssumption, FS_CardinalityType, FS_Interval DEF Sids
<1>2. IsFiniteSet({t \in Sids : sessions[t].state # "none"})
  BY <1>1, FS_Subset
<1> QED  BY <1>2, FS_CardinalityType

(* Revoking takes sessions away and changes no other.                      *)
LEMMA Revoking ==
    ASSUME AccountsTypeOK, NEW sids
    PROVE  /\ revoked(sids) \in [Sids -> Session]
           /\ \A s \in Sids : revoked(sids)[s] = sessions[s] \/ revoked(sids)[s] = RevokedSession
           /\ RevokedSession.state = "revoked" /\ RevokedSession.version = 0
<1>1. RevokedSession \in Session /\ RevokedSession.state = "revoked" /\ RevokedSession.version = 0
  BY DEF RevokedSession, NoSession, Session
<1> QED  BY <1>1 DEF revoked, AccountsTypeOK

(* What a session may become in a step that changes no credential.         *)
SessionFits(f) ==
    \A s \in Sids :
        /\ f[s].version <= account.bumps
        /\ account.version = account.bumps /\ f[s].state = "live" /\ f[s].version = account.version
               => f[s].password = account.password

(* The present sessions, and what a revocation leaves of them, fit.        *)
LEMMA SessionsFit ==
    ASSUME PasswordInv
    PROVE  SessionFits(sessions) /\ \A sids : SessionFits(revoked(sids))
<1>1. SessionFits(sessions)
  BY DEF PasswordInv, VersionsCounted, NewestIsTrue, SessionFits
<1>2. account.bumps \in Nat
  BY DEF PasswordInv, AccountsTypeOK, Account
<1>3. ASSUME NEW sids PROVE SessionFits(revoked(sids))
  BY <1>1, <1>2, Revoking DEF SessionFits, PasswordInv
<1> QED  BY <1>1, <1>3

(* A step that changes no credential keeps the invariant if what it writes *)
(* carries no newer version and, with the newest, the password.            *)
LEMMA Quiet ==
    ASSUME PasswordInv, account' = account,
           sessions' \in [Sids -> Session], logins' \in [Logins -> Login],
           changers' \in [Changers -> Changer],
           SessionFits(sessions'),
           \A l \in Logins : /\ logins'[l].version <= account.bumps
                             /\ account.version = account.bumps /\ logins'[l].at = "checked"
                                    /\ logins'[l].version = account.version
                                 => logins'[l].password = account.password,
           \A h \in Changers : \/ changers'[h] = changers[h]
                               \/ /\ changers'[h].version <= account.bumps
                                  /\ changers'[h].at # "compared"
                                     \/ changers'[h].version = account.version
    PROVE  PasswordInv'
<1>1. AccountsTypeOK'
  BY DEF PasswordInv, AccountsTypeOK
<1>2. VersionsCounted'
  BY DEF PasswordInv, VersionsCounted, SessionFits
<1>3. ReadSinceLastChange'
  BY DEF PasswordInv, ReadSinceLastChange
<1>4. NewestIsTrue'
  BY DEF PasswordInv, NewestIsTrue, SessionFits
<1> QED  BY <1>1, <1>2, <1>3, <1>4 DEF PasswordInv

(* The records that a sign-in leaves behind are well-formed.               *)
LEMMA LoginRecords ==
    /\ \A s \in Nat : LET r == [IdleLogin EXCEPT !.at = "created", !.sid = s]
                      IN  r \in Login /\ r.at = "created" /\ r.version = 0
    /\ \A s \in Nat \cup {None} : LET r == [IdleLogin EXCEPT !.sid = s]
                                 IN  r \in Login /\ r.at = "idle" /\ r.version = 0
<1>1. IdleLogin \in Login /\ IdleLogin.at = "idle" /\ IdleLogin.version = 0
  BY DEF IdleLogin, Login
<1> QED  BY <1>1 DEF Login

(* A sign-in keeps the invariant: it writes what it has checked.           *)
LEMMA LoginStep ==
    ASSUME PasswordInv, NEW l \in Logins,
           login(l) \/ createSession(l) \/ listSessions(l) \/ pruneSessions(l)
    PROVE  PasswordInv'
<1>0. /\ sessions \in [Sids -> Session] /\ logins \in [Logins -> Login]
      /\ changers \in [Changers -> Changer] /\ account \in Account
  BY DEF PasswordInv, AccountsTypeOK
<1>a. \A k \in Logins : /\ logins[k].version <= account.bumps
                        /\ account.version = account.bumps /\ logins[k].at = "checked"
                               /\ logins[k].version = account.version
                            => logins[k].password = account.password
  BY DEF PasswordInv, VersionsCounted, NewestIsTrue
<1>b. account.version \in Nat /\ account.password \in Nat /\ account.bumps \in Nat
      /\ account.version <= account.bumps
  BY <1>0 DEF Account, PasswordInv, VersionsCounted
<1>1. CASE login(l)
  <2> DEFINE r == [IdleLogin EXCEPT !.at = "checked", !.version = account.version,
                                    !.password = account.password]
  <2>0. r \in Login /\ r.version = account.version /\ r.password = account.password
    <3>1. IdleLogin \in Login
      BY DEF IdleLogin, Login
    <3> QED  BY <1>b, <3>1 DEF Login
  <2>1. logins' = [logins EXCEPT ![l] = r]
    BY <1>1 DEF login
  <2> HIDE DEF r
  <2>2. logins' \in [Logins -> Login]
    BY <1>0, <2>0, <2>1
  <2>3. sessions' = sessions /\ changers' = changers /\ account' = account
    BY <1>1 DEF login
  <2> QED  BY <1>0, <1>a, <1>b, <2>0, <2>1, <2>2, <2>3, SessionsFit, Quiet
<1>2. CASE createSession(l)
  <2> DEFINE sid == 1 + Cardinality({t \in Sids : sessions[t].state # "none"})
             new == [state |-> "live", hash |-> 0, version |-> logins[l].version,
                     password |-> logins[l].password]
  <2>2. sid \in Nat
    BY NewSid
  <2>1. PICK r \in Login : /\ logins' = [logins EXCEPT ![l] = r]
                           /\ r.at = "created" /\ r.version = 0
    BY <1>2, <2>2, LoginRecords DEF createSession
  <2>3. sessions' = [sessions EXCEPT ![sid] = new] /\ changers' = changers /\ account' = account
        /\ logins[l].at = "checked"
    BY <1>2 DEF createSession
  <2> HIDE DEF sid
  <2>4. logins' \in [Logins -> Login]
    BY <1>0, <2>1
  <2>5. new \in Session
    BY <1>0 DEF Login, Session
  <2>6. sessions' \in [Sids -> Session]
    BY <1>0, <2>3, <2>5
  <2>7. new.version = logins[l].version /\ new.password = logins[l].password
    OBVIOUS
  <2> HIDE DEF new
  <2>8. SessionFits(sessions')
    BY <1>0, <1>a, <2>3, <2>7, SessionsFit DEF SessionFits
  <2> QED  BY <1>0, <1>a, <1>b, <2>1, <2>3, <2>4, <2>6, <2>8, Quiet
<1>3. CASE listSessions(l)
  <2>1. logins' = [logins EXCEPT ![l] = [logins[l] EXCEPT !.at = "listed", !.stale = BeyondLimit]]
        /\ sessions' = sessions /\ changers' = changers /\ account' = account
    BY <1>3 DEF listSessions
  <2>2. BeyondLimit \in SUBSET Sids
    BY DEF BeyondLimit, Live
  <2>3. logins' \in [Logins -> Login] /\ logins'[l].at = "listed"
        /\ logins'[l].version = logins[l].version
    BY <1>0, <2>1, <2>2 DEF Login
  <2>4. \A k \in Logins \ {l} : logins'[k] = logins[k]
    BY <1>0, <2>1
  <2> QED  BY <1>0, <1>a, <2>1, <2>3, <2>4, SessionsFit, Quiet
<1>4. CASE pruneSessions(l)
  <2>0. logins[l].sid \in Nat \cup {None}
    BY <1>0 DEF Login
  <2>1. PICK r \in Login : /\ logins' = [logins EXCEPT ![l] = r]
                           /\ r.at = "idle" /\ r.version = 0
    BY <1>4, <2>0, LoginRecords DEF pruneSessions
  <2>4. sessions' = revoked(logins[l].stale) /\ changers' = changers /\ account' = account
    BY <1>4 DEF pruneSessions
  <2>2. logins' \in [Logins -> Login]
    BY <1>0, <2>1
  <2>3. sessions' \in [Sids -> Session] /\ SessionFits(sessions')
    BY <2>4, Revoking, SessionsFit DEF PasswordInv
  <2> QED  BY <1>0, <1>a, <1>b, <2>1, <2>2, <2>3, <2>4, Quiet
<1> QED  BY <1>1, <1>2, <1>3, <1>4

(* A refresh, a sign-out and the sockets concern no credential.            *)
LEMMA BrowserStep ==
    ASSUME PasswordInv,
           \/ \E t \in Tabs : \/ startRefresh(t) \/ readAccount(t) \/ rotateSession(t)
                             \/ answer(t) \/ loseAnswer(t)
           \/ logout
           \/ \E k \in Sockets : admit(k) \/ join(k) \/ revalidate(k) \/ hangUp(k)
           \/ UNCHANGED vars
    PROVE  PasswordInv'
<1>0. /\ sessions \in [Sids -> Session] /\ logins \in [Logins -> Login]
      /\ changers \in [Changers -> Changer] /\ account \in Account
  BY DEF PasswordInv, AccountsTypeOK
<1>1. UNCHANGED <<account, logins, changers>>
  BY DEF startRefresh, readAccount, rotateSession, answer, loseAnswer, logout, admit, join,
         revalidate, hangUp, vars
<1>2. \/ sessions' = sessions
      \/ sessions' = revoked({jar.sid})
      \/ \E s : sessions' = [sessions EXCEPT ![s].hash = @ + 1]
  BY DEF startRefresh, readAccount, rotateSession, answer, loseAnswer, logout, admit, join,
         revalidate, hangUp, vars
<1>3. sessions' \in [Sids -> Session] /\ SessionFits(sessions')
  <2>1. CASE \E s : sessions' = [sessions EXCEPT ![s].hash = @ + 1]
    <3> PICK s : sessions' = [sessions EXCEPT ![s].hash = @ + 1]
      BY <2>1
    <3>0. \A r \in Session : [r EXCEPT !.hash = @ + 1] \in Session
      BY DEF Session
    <3>1. sessions' \in [Sids -> Session]
      BY <1>0, <3>0
    <3>2. \A r \in Sids : /\ sessions'[r].state = sessions[r].state
                          /\ sessions'[r].version = sessions[r].version
                          /\ sessions'[r].password = sessions[r].password
      BY <1>0 DEF Session
    <3> QED  BY <3>1, <3>2, SessionsFit DEF SessionFits
  <2> QED  BY <1>0, <1>2, <2>1, Revoking, SessionsFit DEF PasswordInv
<1> QED
  BY <1>0, <1>1, <1>3, Quiet DEF PasswordInv, VersionsCounted, NewestIsTrue

-----------------------------------------------------------------------------
(* The credential handlers.                                                *)

(* What a change of the account writes is an account.                      *)
LEMMA AccountRises ==
    ASSUME account \in Account, NEW v \in Nat, NEW p \in Nat, NEW status \in {"active", "banned"},
           NEW b \in Nat,
           \/ account' = [account EXCEPT !.password = p, !.version = v, !.bumps = b]
           \/ account' = [account EXCEPT !.status = status, !.version = v, !.bumps = b]
    PROVE  account' \in Account /\ account'.version = v /\ account'.bumps = b
<1>1. CASE account' = [account EXCEPT !.password = p, !.version = v, !.bumps = b]
  BY <1>1 DEF Account
<1>2. CASE account' = [account EXCEPT !.status = status, !.version = v, !.bumps = b]
  BY <1>2 DEF Account
<1> QED  BY <1>1, <1>2

(* The credential is saved: everybody else's version is an old one, or the *)
(* change is lost, and lost for good.                                      *)
LEMMA CredentialSaved ==
    ASSUME PasswordInv, NEW h \in Changers, NEW place \in {"saved", "committed"},
           account' \in Account, account'.bumps = account.bumps + 1,
           account'.version <= account'.bumps,
           account'.version = account'.bumps => account.version = account.bumps,
           changers' = [changers EXCEPT ![h].at = place],
           logins' = logins, sessions' \in [Sids -> Session],
           \A s \in Sids : sessions'[s].version <= account.bumps
    PROVE  PasswordInv'
<1>0. /\ changers \in [Changers -> Changer] /\ account \in Account
      /\ logins \in [Logins -> Login]
  BY DEF PasswordInv, AccountsTypeOK
<1>1. account.bumps \in Nat
  BY <1>0 DEF Account
<1>2. changers' \in [Changers -> Changer]
  BY <1>0 DEF Changer
<1>3. /\ changers'[h].at = place
      /\ \A g \in Changers : /\ changers'[g].version = changers[g].version
                            /\ changers[g].version \in Nat
      /\ \A g \in Changers \ {h} : changers'[g] = changers[g]
  BY <1>0 DEF Changer
<1>4. \A l \in Logins : logins[l].version \in Nat
  BY <1>0 DEF Login
<1>5. \A s \in Sids : sessions'[s].version \in Nat
  BY DEF Session
<1>6. VersionsCounted'
  BY <1>1, <1>3, <1>4, <1>5 DEF PasswordInv, VersionsCounted
<1>7. ReadSinceLastChange'
  BY <1>1, <1>3 DEF PasswordInv, VersionsCounted, ReadSinceLastChange
<1>8. NewestIsTrue'
  BY <1>1, <1>4, <1>5 DEF PasswordInv, VersionsCounted, NewestIsTrue
<1> QED  BY <1>0, <1>2, <1>6, <1>7, <1>8 DEF PasswordInv, AccountsTypeOK

(* The credential handlers keep the invariant.                             *)
LEMMA ChangerStep ==
    ASSUME PasswordInv, NEW h \in Changers,
           \/ openPasswordChange(h) \/ savePassword(h)
           \/ \E status \in {"active", "banned"} : incrementVersion(h, status)
           \/ revokeAllSessions(h) \/ resetPassword(h)
           \/ disconnectUserSessions(h) \/ crash(h)
    PROVE  PasswordInv'
<1>0. /\ sessions \in [Sids -> Session] /\ logins \in [Logins -> Login]
      /\ changers \in [Changers -> Changer] /\ account \in Account
  BY DEF PasswordInv, AccountsTypeOK
<1>a. \A k \in Logins : /\ logins[k].version <= account.bumps
                        /\ account.version = account.bumps /\ logins[k].at = "checked"
                               /\ logins[k].version = account.version
                            => logins[k].password = account.password
  BY DEF PasswordInv, VersionsCounted, NewestIsTrue
<1>b. /\ account.version \in Nat /\ account.password \in Nat /\ account.bumps \in Nat
      /\ account.version <= account.bumps
      /\ \A s \in Sids : sessions[s].version <= account.bumps
  BY <1>0 DEF Account, PasswordInv, VersionsCounted
<1>c. \A s \in Sids : revoked(Sids)[s].version <= account.bumps
  BY SessionsFit DEF SessionFits
<1>1. CASE openPasswordChange(h)
  <2> DEFINE r == [at |-> "compared", version |-> account.version]
  <2>1. r \in Changer /\ r.version = account.version
    BY <1>b DEF Changer
  <2>2. /\ changers' = [changers EXCEPT ![h] = r]
        /\ account' = account /\ sessions' = sessions /\ logins' = logins
    BY <1>1 DEF openPasswordChange
  <2> HIDE DEF r
  <2>3. /\ changers' \in [Changers -> Changer] /\ changers'[h] = r
        /\ \A g \in Changers \ {h} : changers'[g] = changers[g]
    BY <1>0, <2>1, <2>2
  <2> QED  BY <1>0, <1>a, <1>b, <2>1, <2>2, <2>3, SessionsFit, Quiet
<1>2. CASE savePassword(h)
  <2>1. /\ changers[h].version \in Nat /\ changers[h].version <= account.bumps
        /\ changers[h].version = account.bumps => account.version = account.bumps
    BY <1>0, <1>2
    DEF savePassword, Changer, PasswordInv, VersionsCounted, ReadSinceLastChange
  <2>2. account' \in Account /\ account'.bumps = account.bumps + 1
        /\ account'.version = changers[h].version + 1
    <3> DEFINE p == account.password + 1
               v == changers[h].version + 1
               b == account.bumps + 1
    <3>1. account' = [account EXCEPT !.password = p, !.version = v, !.bumps = b]
      BY <1>2 DEF savePassword
    <3>2. p \in Nat /\ v \in Nat /\ b \in Nat
      BY <1>b, <2>1
    <3> HIDE DEF p, v, b
    <3>3. account' \in Account /\ account'.version = v /\ account'.bumps = b
      BY <1>0, <3>1, <3>2, AccountRises
    <3> QED  BY <3>3 DEF v, b
  <2>3. changers' = [changers EXCEPT ![h].at = "saved"] /\ logins' = logins /\ sessions' = sessions
    BY <1>2 DEF savePassword
  <2>5. /\ account'.version <= account'.bumps
        /\ account'.version = account'.bumps => account.version = account.bumps
    BY <1>b, <2>1, <2>2
  <2> QED  BY <1>0, <1>b, <2>1, <2>2, <2>3, <2>5, CredentialSaved
<1>3. CASE \E status \in {"active", "banned"} : incrementVersion(h, status)
  <2>2. account' \in Account /\ account'.bumps = account.bumps + 1
        /\ account'.version = account.version + 1
    <3> DEFINE v == account.version + 1
               b == account.bumps + 1
    <3> PICK status \in {"active", "banned"} : incrementVersion(h, status)
      BY <1>3
    <3>1. account' = [account EXCEPT !.status = status, !.version = v, !.bumps = b]
      BY DEF incrementVersion
    <3>2. v \in Nat /\ b \in Nat
      BY <1>b
    <3> HIDE DEF v, b
    <3>3. account' \in Account /\ account'.version = v /\ account'.bumps = b
      BY <1>0, <3>1, <3>2, AccountRises
    <3> QED  BY <3>3 DEF v, b
  <2>3. changers' = [changers EXCEPT ![h].at = "saved"] /\ logins' = logins /\ sessions' = sessions
    BY <1>3 DEF incrementVersion
  <2>5. /\ account'.version <= account'.bumps
        /\ account'.version = account'.bumps => account.version = account.bumps
    BY <1>b, <2>2
  <2> QED  BY <1>0, <1>b, <2>2, <2>3, <2>5, CredentialSaved
<1>4. CASE resetPassword(h)
  <2>2. account' \in Account /\ account'.bumps = account.bumps + 1
        /\ account'.version = account.version + 1
    <3> DEFINE p == account.password + 1
               v == account.version + 1
               b == account.bumps + 1
    <3>1. account' = [account EXCEPT !.password = p, !.version = v, !.bumps = b]
      BY <1>4 DEF resetPassword
    <3>2. p \in Nat /\ v \in Nat /\ b \in Nat
      BY <1>b
    <3> HIDE DEF p, v, b
    <3>3. account' \in Account /\ account'.version = v /\ account'.bumps = b
      BY <1>0, <3>1, <3>2, AccountRises
    <3> QED  BY <3>3 DEF v, b
  <2>3. /\ changers' = [changers EXCEPT ![h].at = "committed"] /\ logins' = logins
        /\ sessions' = revoked(Sids)
    BY <1>4 DEF resetPassword
  <2>4. sessions' \in [Sids -> Session]
    BY <2>3, Revoking DEF PasswordInv
  <2>5. /\ account'.version <= account'.bumps
        /\ account'.version = account'.bumps => account.version = account.bumps
    BY <1>b, <2>2
  <2> QED  BY <1>0, <1>b, <1>c, <2>2, <2>3, <2>4, <2>5, CredentialSaved
<1>5. CASE revokeAllSessions(h) \/ disconnectUserSessions(h) \/ crash(h)
  <2>1. /\ changers' = [changers EXCEPT ![h] = IdleChanger]
        /\ account' = account /\ logins' = logins
        /\ sessions' \in {sessions, revoked(Sids)}
    BY <1>5 DEF revokeAllSessions, disconnectUserSessions, crash
  <2>2. IdleChanger \in Changer /\ IdleChanger.at = "idle" /\ IdleChanger.version = 0
    BY DEF IdleChanger, Changer
  <2>3. /\ changers' \in [Changers -> Changer] /\ changers'[h] = IdleChanger
        /\ \A g \in Changers \ {h} : changers'[g] = changers[g]
    BY <1>0, <2>1, <2>2
  <2>4. sessions' \in [Sids -> Session] /\ SessionFits(sessions')
    BY <1>0, <2>1, Revoking, SessionsFit DEF PasswordInv
  <2> QED  BY <1>0, <1>a, <1>b, <2>1, <2>2, <2>3, <2>4, Quiet
<1> QED  BY <1>1, <1>2, <1>3, <1>4, <1>5

(* The invariant holds in every reachable state.                           *)
LEMMA PasswordInvHolds == Spec => []PasswordInv
<1>1. Init => PasswordInv
  <2> SUFFICES ASSUME Init PROVE PasswordInv
    OBVIOUS
  <2>1. /\ IdleLogin \in Login /\ IdleLogin.at = "idle" /\ IdleLogin.version = 0
        /\ IdleChanger \in Changer /\ IdleChanger.at = "idle" /\ IdleChanger.version = 0
        /\ NoSession \in Session /\ NoSession.state = "none" /\ NoSession.version = 0
    BY DEF IdleLogin, Login, IdleChanger, Changer, NoSession, Session
  <2>2. account \in Account /\ account.version = 0 /\ account.bumps = 0
    BY DEF Init, Account
  <2> QED
    BY <2>1, <2>2
    DEF Init, PasswordInv, AccountsTypeOK, VersionsCounted, ReadSinceLastChange, NewestIsTrue
<1>2. PasswordInv /\ [Next]_vars => PasswordInv'
  BY LoginStep, BrowserStep, ChangerStep DEF Next
<1> QED  BY <1>1, <1>2, PTL DEF Spec

(* Once the password is changed or reset, no session made with the old one *)
(* is accepted (authenticateAccessToken), whichever sign-ins were under    *)
(* way and wherever a process died, unless two changes that overlapped     *)
(* made one rise of the version.                                           *)
THEOREM PasswordEndsSignInsCorrect == Spec => []PasswordEndsSignIns
<1>1. PasswordInv => PasswordEndsSignIns
  BY DEF PasswordInv, NewestIsTrue, PasswordEndsSignIns, Accepted
<1> QED  BY <1>1, PasswordInvHolds, PTL

-----------------------------------------------------------------------------
(* The limit on sessions.  Whoever makes a session lists them afterwards,  *)
(* and the list only grows when a session is made.                         *)

(* Who is past the limit will be met: by a sign-in that has yet to list    *)
(* the sessions, or by one that has listed it.                             *)
PastLimitIsListed ==
    \A s \in BeyondLimit : \E l \in Logins :
        \/ logins[l].at = "created"
        \/ logins[l].at = "listed" /\ s \in logins[l].stale


(* The sessions that are past the limit are live sessions.                 *)
LEMMA LiveAreFinite == IsFiniteSet(Sids) /\ IsFiniteSet(Live) /\ Live \in SUBSET Sids
<1>1. IsFiniteSet(Sids)
  BY AccountsAssumption, FS_CardinalityType, FS_Interval DEF Sids
<1> QED  BY <1>1, FS_Subset DEF Live

(* When no session comes to life, none gets past the limit.                *)
LEMMA LimitShrinks ==
    ASSUME \A s \in Sids : sessions'[s].state = "live" => sessions[s].state = "live"
    PROVE  BeyondLimit' \in SUBSET BeyondLimit
<1>1. Live' \in SUBSET Live
  BY DEF Live, Sids
<1>2. ASSUME NEW s \in BeyondLimit' PROVE s \in BeyondLimit
  <2> DEFINE Newer == {t \in Live : t > s}
             Newer1 == {t \in Live' : t > s}
  <2>1. s \in Live' /\ Cardinality(Newer1) >= MaxSessions
    BY <1>2 DEF BeyondLimit
  <2>2. Newer1 \in SUBSET Newer
    BY <1>1
  <2>3. IsFiniteSet(Newer)
    BY LiveAreFinite, FS_Subset
  <2>4. Cardinality(Newer1) <= Cardinality(Newer) /\ Cardinality(Newer1) \in Nat
        /\ Cardinality(Newer) \in Nat
    BY <2>2, <2>3, FS_Subset, FS_CardinalityType
  <2> HIDE DEF Newer1
  <2>5. Cardinality(Newer) >= MaxSessions
    BY <2>1, <2>4, AccountsAssumption
  <2> QED  BY <1>1, <2>1, <2>5 DEF BeyondLimit
<1> QED  BY <1>2

(* A finite set of natural numbers that is not empty has a least one.      *)
LEMMA LeastSession ==
    ASSUME Live # {}
    PROVE  \E s \in Live : \A t \in Live : s <= t
<1>1. Live # {} /\ Live \in SUBSET Nat
  BY LiveAreFinite DEF Sids
<1> DEFINE R == OpToRel(<, Nat)
<1>2. IsWellFoundedOn(R, Nat)
  BY NatLessThanWellFounded
<1>3. \A a, b \in Nat : a < b => <<a, b>> \in R
  BY DEF OpToRel
<1> HIDE DEF R
<1>4. PICK s \in Live : \A t \in Live : ~(<<t, s>> \in R)
  BY <1>1, <1>2, WFMin
<1>5. \A t \in Live : s \in Nat /\ t \in Nat
  BY <1>1
<1>6. \A t \in Live : ~(t < s)
  BY <1>3, <1>4, <1>5, Zenon
<1>7. \A t \in Live : s <= t
  BY <1>5, <1>6
<1> QED  BY <1>7

(* When nobody is past the limit, the limit is kept: of too many sessions, *)
(* the oldest would be past it.                                            *)
LEMMA NobodyPastLimit ==
    ASSUME BeyondLimit = {}
    PROVE  Cardinality(Live) <= MaxSessions
<1> SUFFICES ASSUME ~(Cardinality(Live) <= MaxSessions) PROVE FALSE
  OBVIOUS
<1>1. Cardinality(Live) \in Nat /\ Cardinality(Live) > MaxSessions
  BY LiveAreFinite, FS_CardinalityType, AccountsAssumption
<1>2. Live # {}
  BY <1>1, FS_EmptySet, AccountsAssumption
<1>3. PICK s \in Live : \A t \in Live : s <= t
  BY <1>2, LeastSession
<1>a. \A t \in Live : t \in Int
  BY LiveAreFinite DEF Sids
<1>4. {t \in Live : t > s} = Live \ {s}
  BY <1>3, <1>a
<1>5. Cardinality(Live \ {s}) = Cardinality(Live) - 1
  BY <1>3, LiveAreFinite, FS_RemoveElement
<1> QED  BY <1>1, <1>3, <1>4, <1>5, AccountsAssumption DEF BeyondLimit

(* A step that brings no session to life and ends no sign-in keeps the     *)
(* witnesses.                                                              *)
LEMMA LimitQuiet ==
    ASSUME PastLimitIsListed, logins' = logins,
           \A s \in Sids : sessions'[s].state = "live" => sessions[s].state = "live"
    PROVE  PastLimitIsListed'
BY LimitShrinks DEF PastLimitIsListed

(* Revoking brings nothing to life.                                        *)
LEMMA RevokedFewer ==
    ASSUME AccountsTypeOK, NEW sids
    PROVE  \A s \in Sids : /\ revoked(sids)[s].state = "live" => revoked(sids)[s] = sessions[s]
                           /\ revoked(sids)[s].state = "live" => s \notin sids
                           /\ revoked(sids)[s].state = "none" <=> sessions[s].state = "none"
<1>1. RevokedSession.state = "revoked"
  BY Revoking
<1> QED  BY <1>1 DEF revoked, AccountsTypeOK

(* Every step keeps the witnesses.                                         *)
LEMMA LimitStep ==
    ASSUME PasswordInv, PastLimitIsListed, [Next]_vars
    PROVE  PastLimitIsListed'
<1>0. sessions \in [Sids -> Session] /\ logins \in [Logins -> Login] /\ AccountsTypeOK
  BY DEF PasswordInv, AccountsTypeOK
<1>1. ASSUME NEW l \in Logins, login(l) PROVE PastLimitIsListed'
  <2>1. PICK r : logins' = [logins EXCEPT ![l] = r]
    BY <1>1, Zenon DEF login
  <2>2. logins[l].at = "idle" /\ sessions' = sessions
    BY <1>1 DEF login
  <2>3. BeyondLimit' \in SUBSET BeyondLimit
    BY <2>2, LimitShrinks
  <2>4. \A k \in Logins \ {l} : logins'[k] = logins[k]
    BY <1>0, <2>1
  <2> QED  BY <2>2, <2>3, <2>4 DEF PastLimitIsListed
<1>2. ASSUME NEW l \in Logins, createSession(l) PROVE PastLimitIsListed'
  <2>1. PICK r \in Login : logins' = [logins EXCEPT ![l] = r] /\ r.at = "created"
    BY <1>2, NewSid, LoginRecords DEF createSession
  <2>2. logins'[l].at = "created"
    BY <1>0, <2>1
  <2> QED  BY <2>2 DEF PastLimitIsListed
<1>3. ASSUME NEW l \in Logins, listSessions(l) PROVE PastLimitIsListed'
  <2>1. /\ logins' = [logins EXCEPT ![l] = [logins[l] EXCEPT !.at = "listed", !.stale = BeyondLimit]]
        /\ sessions' = sessions
    BY <1>3 DEF listSessions
  <2>2. logins'[l].at = "listed" /\ logins'[l].stale = BeyondLimit
    BY <1>0, <2>1 DEF Login
  <2>3. BeyondLimit' \in SUBSET BeyondLimit
    BY <2>1, LimitShrinks
  <2> QED  BY <2>2, <2>3 DEF PastLimitIsListed
<1>4. ASSUME NEW l \in Logins, pruneSessions(l) PROVE PastLimitIsListed'
  <2>1. PICK r : logins' = [logins EXCEPT ![l] = r]
    BY <1>4, Zenon DEF pruneSessions
  <2>2. logins[l].at = "listed" /\ sessions' = revoked(logins[l].stale)
    BY <1>4 DEF pruneSessions
  <2>3. \A s \in Sids : sessions'[s].state = "live" => sessions[s].state = "live"
    BY <1>0, <2>2, RevokedFewer
  <2>4. BeyondLimit' \in SUBSET BeyondLimit
    BY <2>3, LimitShrinks
  <2>5. \A k \in Logins \ {l} : logins'[k] = logins[k]
    BY <1>0, <2>1
  <2>6. ASSUME NEW s \in BeyondLimit' PROVE s \notin logins[l].stale
    <3>1. s \in Sids /\ sessions'[s].state = "live"
      BY <2>6 DEF BeyondLimit, Live, Sids
    <3> QED  BY <1>0, <2>2, <3>1, RevokedFewer
  <2>7. ASSUME NEW s \in BeyondLimit'
        PROVE  \E k \in Logins : \/ logins'[k].at = "created"
                                 \/ logins'[k].at = "listed" /\ s \in logins'[k].stale
    <3>1. PICK k \in Logins : \/ logins[k].at = "created"
                              \/ logins[k].at = "listed" /\ s \in logins[k].stale
      BY <2>4, <2>7 DEF PastLimitIsListed
    <3>2. k # l
      BY <2>2, <2>6, <3>1
    <3> QED  BY <2>5, <3>1, <3>2
  <2> QED  BY <2>7 DEF PastLimitIsListed
<1>5. ASSUME UNCHANGED logins,
             \/ sessions' = sessions
             \/ \E sids : sessions' = revoked(sids)
             \/ \E s : sessions' = [sessions EXCEPT ![s].hash = @ + 1]
      PROVE  PastLimitIsListed'
  <2>1. CASE \E s : sessions' = [sessions EXCEPT ![s].hash = @ + 1]
    <3>1. \A s \in Sids : sessions'[s].state = sessions[s].state
      BY <1>0, <2>1 DEF Session
    <3> QED  BY <1>5, <3>1, LimitQuiet
  <2>2. CASE \E sids : sessions' = revoked(sids)
    BY <1>0, <1>5, <2>2, RevokedFewer, LimitQuiet
  <2> QED  BY <1>5, <2>1, <2>2, LimitQuiet
<1>6. ASSUME \/ \E t \in Tabs : \/ startRefresh(t) \/ readAccount(t) \/ rotateSession(t)
                               \/ answer(t) \/ loseAnswer(t)
             \/ logout
             \/ \E k \in Sockets : admit(k) \/ join(k) \/ revalidate(k) \/ hangUp(k)
             \/ UNCHANGED vars
      PROVE  PastLimitIsListed'
  <2>1. UNCHANGED logins
    BY <1>6 DEF startRefresh, readAccount, rotateSession, answer, loseAnswer, logout, admit, join,
         revalidate, hangUp, vars
  <2>2. \/ sessions' = sessions
        \/ \E sids : sessions' = revoked(sids)
        \/ \E s : sessions' = [sessions EXCEPT ![s].hash = @ + 1]
    BY <1>6 DEF startRefresh, readAccount, rotateSession, answer, loseAnswer, logout, admit, join,
         revalidate, hangUp, vars
  <2> QED  BY <1>5, <2>1, <2>2
<1>7. ASSUME NEW h \in Changers,
             \/ openPasswordChange(h) \/ savePassword(h)
             \/ \E status \in {"active", "banned"} : incrementVersion(h, status)
             \/ revokeAllSessions(h) \/ resetPassword(h)
             \/ disconnectUserSessions(h) \/ crash(h)
      PROVE  PastLimitIsListed'
  <2>1. UNCHANGED logins /\ sessions' \in {sessions, revoked(Sids)}
    BY <1>7 DEF openPasswordChange, savePassword, incrementVersion, revokeAllSessions,
                resetPassword, disconnectUserSessions, crash
  <2> QED  BY <1>5, <2>1
<1> QED  BY <1>1, <1>2, <1>3, <1>4, <1>6, <1>7 DEF Next

(* createSession keeps at most MaxSessions sessions: whenever no sign-in   *)
(* is half done, no more are live, however many overlapped and in whatever *)
(* order they made, listed and pruned the sessions.                        *)
THEOREM SessionsAreBounded == Spec => []SessionsBounded
<1>1. Init => PastLimitIsListed
  <2>1. NoSession.state = "none"
    BY DEF NoSession
  <2> QED  BY <2>1 DEF Init, PastLimitIsListed, BeyondLimit, Live
<1>2. PasswordInv /\ PastLimitIsListed /\ [Next]_vars => PastLimitIsListed'
  BY LimitStep
<1>3. ASSUME PastLimitIsListed PROVE SessionsBounded
  BY <1>3, NobodyPastLimit DEF PastLimitIsListed, SessionsBounded
<1> QED  BY <1>1, <1>2, <1>3, PasswordInvHolds, PTL DEF Spec

-----------------------------------------------------------------------------
(* The browser's tokens.  A session has one newest token; it is in the     *)
(* jar, or with the one tab it was granted to, or lost.                    *)

Created == {s \in Sids : sessions[s].state # "none"}

Tab == [at : {"idle", "asked", "read", "granted", "refused"}, sid : Sids \cup {None}, hash : Nat]

(* Sessions are numbered without a gap, each by the sign-in that made it.  *)
SessionsNumbered ==
    /\ Created = 1..Cardinality(Created)
    /\ \A s \in Created : \E l \in Logins : logins[l].sid = s
    /\ \A l \in Logins : /\ logins[l].sid \in Created \cup {None}
                         /\ logins[l].at = "checked" => logins[l].sid = None
                         /\ logins[l].at \in {"created", "listed"} => logins[l].sid # None
    /\ \A l, m \in Logins : logins[l].sid = logins[m].sid /\ logins[l].sid # None => l = m

(* The tokens that tabs and jar hold are of sessions there are, and of     *)
(* none that is still being signed in.                                     *)
TokensKnown ==
    /\ tabs \in [Tabs -> Tab]
    /\ \A t \in Tabs : tabs[t].at # "idle" => tabs[t].sid \in Created
    /\ jar # None => jar \in [sid : Created, hash : Nat]
    /\ \A l \in Logins : logins[l].at \in {"created", "listed"} =>
           /\ sessions[logins[l].sid].state = "live" => sessions[logins[l].sid].hash = 0
           /\ \A t \in Tabs : tabs[t].at # "idle" => tabs[t].sid # logins[l].sid
           /\ jar # None => jar.sid # logins[l].sid

(* A token that is on its way to a tab is the session's, every other token *)
(* of the session is older, and no token is newer than the session's.      *)
Holds(t) == tabs[t].at \in {"asked", "read", "granted"}

GrantedIsNewest ==
    /\ \A t \in Tabs : Holds(t) /\ sessions[tabs[t].sid].state = "live" =>
           tabs[t].hash <= sessions[tabs[t].sid].hash
    /\ jar # None /\ sessions[jar.sid].state = "live" => jar.hash <= sessions[jar.sid].hash
    /\ \A t \in Tabs : tabs[t].at = "granted" /\ sessions[tabs[t].sid].state = "live" =>
           /\ tabs[t].hash = sessions[tabs[t].sid].hash
           /\ \A u \in Tabs \ {t} : Holds(u) /\ tabs[u].sid = tabs[t].sid
                                        => tabs[u].hash < tabs[t].hash
           /\ jar # None /\ jar.sid = tabs[t].sid => jar.hash < tabs[t].hash

JarInv == SessionsNumbered /\ TokensKnown /\ GrantedIsNewest /\ JarIsNewest

(* Being live is being created, and the sessions created are finite.       *)
LEMMA CreatedAreFinite ==
    /\ IsFiniteSet(Created) /\ Created \in SUBSET Sids /\ Cardinality(Created) \in Nat
    /\ Cardinality(Logins) \in Nat /\ Sids \in SUBSET Nat /\ None \notin Sids
    /\ \A s \in Sids : sessions[s].state = "live" => s \in Created
<1>1. Created \in SUBSET Sids
  BY DEF Created
<1>2. IsFiniteSet(Created) /\ Cardinality(Created) \in Nat
  BY <1>1, LiveAreFinite, FS_Subset, FS_CardinalityType
<1>3. Cardinality(Logins) \in Nat
  BY AccountsAssumption, FS_CardinalityType
<1>4. Sids \in SUBSET Nat /\ None \notin Sids
  BY <1>3, AccountsAssumption DEF Sids
<1> QED  BY <1>1, <1>2, <1>3, <1>4 DEF Created

(* A sign-in that has no session yet finds a number free: the others have  *)
(* made at most one session each.                                          *)
LEMMA NumberIsFree ==
    ASSUME SessionsNumbered, NEW l \in Logins, logins[l].sid = None
    PROVE  1 + Cardinality(Created) \in Sids \ Created
<1>1. Cardinality(Logins \ {l}) = Cardinality(Logins) - 1 /\ IsFiniteSet(Logins \ {l})
  BY AccountsAssumption, FS_RemoveElement
<1> DEFINE maker == [s \in Created |-> CHOOSE k \in Logins : logins[k].sid = s]
<1>2. \A s \in Created : maker[s] \in Logins /\ logins[maker[s]].sid = s
  BY DEF SessionsNumbered
<1>3. \A s \in Created : s # None
  BY CreatedAreFinite
<1>4. maker \in [Created -> Logins \ {l}]
  BY <1>2, <1>3
<1>5. \A s, t \in Created : maker[s] = maker[t] => s = t
  BY <1>2
<1> HIDE DEF maker
<1>6. Cardinality(Created) <= Cardinality(Logins \ {l})
  <2> SUFFICES ASSUME ~(Cardinality(Created) <= Cardinality(Logins \ {l})) PROVE FALSE
    OBVIOUS
  <2>1. Cardinality(Logins \ {l}) < Cardinality(Created)
    BY <1>1, CreatedAreFinite, FS_CardinalityType
  <2>2. IsFiniteSet(Created) /\ IsFiniteSet(Logins \ {l})
    BY <1>1, CreatedAreFinite
  <2>3. \E s, t \in Created : s # t /\ maker[s] = maker[t]
    BY <1>4, <2>1, <2>2, FS_PigeonHole
  <2> QED  BY <1>5, <2>3
<1>7. 1 + Cardinality(Created) \in Sids
  BY <1>1, <1>6, CreatedAreFinite DEF Sids
<1>8. 1 + Cardinality(Created) \notin 1..Cardinality(Created)
  BY CreatedAreFinite
<1> QED  BY <1>7, <1>8 DEF SessionsNumbered

(* Sessions only end: none is made, and none that lives on is changed.     *)
SessionsOnlyEnd ==
    \A s \in Sids : /\ sessions'[s].state = "live" => sessions'[s] = sessions[s]
                    /\ sessions'[s].state = "none" <=> sessions[s].state = "none"

(* Tokens are not touched by a step that only ends sessions, and may clear *)
(* the jar.                                                                *)
LEMMA TokensQuiet ==
    ASSUME JarInv, SessionsOnlyEnd, UNCHANGED <<logins, tabs, lost>>, jar' \in {jar, None}
    PROVE  JarInv'
<1>1. Created' = Created
  BY DEF SessionsOnlyEnd, Created, Sids
<1>2. Created \in SUBSET Sids /\ None \notin Sids /\ Sids' = Sids
  BY CreatedAreFinite DEF Sids
<1>3. SessionsNumbered'
  BY <1>1 DEF JarInv, SessionsNumbered
<1>4. TokensKnown'
  BY <1>1, <1>2, <1>3 DEF JarInv, TokensKnown, SessionsOnlyEnd, SessionsNumbered, Tab
<1>5. GrantedIsNewest'
  BY <1>1, <1>2 DEF JarInv, TokensKnown, GrantedIsNewest, SessionsOnlyEnd, Holds
<1>6. JarIsNewest'
  BY <1>1, <1>2 DEF JarInv, TokensKnown, JarIsNewest, SessionsOnlyEnd
<1> QED  BY <1>3, <1>4, <1>5, <1>6 DEF JarInv

(* A sign-in's step touches the tokens only by what it makes: a session    *)
(* nobody holds a token of, whose first token then goes to the jar.        *)
LEMMA TokensSigned ==
    ASSUME PasswordInv, JarInv, NEW l \in Logins,
           login(l) \/ createSession(l) \/ listSessions(l) \/ pruneSessions(l)
    PROVE  JarInv'
<1>0. sessions \in [Sids -> Session] /\ logins \in [Logins -> Login] /\ AccountsTypeOK
  BY DEF PasswordInv, AccountsTypeOK
<1>a. SessionsNumbered /\ TokensKnown /\ GrantedIsNewest /\ JarIsNewest
  BY DEF JarInv
<1>b. /\ IdleLogin \in Login /\ IdleLogin.sid = None /\ IdleLogin.at = "idle"
  BY DEF IdleLogin, Login
<1>c. Created \in SUBSET Sids /\ None \notin Sids /\ Sids' = Sids /\ Sids \in SUBSET Nat
  BY CreatedAreFinite DEF Sids
<1>1. CASE login(l) \/ listSessions(l)
  <2>1. UNCHANGED <<sessions, tabs, jar, lost>>
    BY <1>1 DEF login, listSessions
  <2>2. PICK r : /\ logins' = [logins EXCEPT ![l] = r] /\ r.sid = logins[l].sid
                 /\ \/ logins[l].sid = None /\ r.at = "checked"
                    \/ logins[l].at = "created" /\ r.at = "listed"
    <3>1. CASE login(l)
      <4> DEFINE r == [IdleLogin EXCEPT !.at = "checked", !.version = account.version,
                                        !.password = account.password]
      <4>1. logins' = [logins EXCEPT ![l] = r] /\ logins[l].sid = None
        BY <3>1 DEF login
      <4>2. r.at = "checked" /\ r.sid = None
        BY <1>b DEF Login
      <4> QED  BY <4>1, <4>2
    <3>2. CASE listSessions(l)
      <4> DEFINE r == [logins[l] EXCEPT !.at = "listed", !.stale = BeyondLimit]
      <4>1. logins' = [logins EXCEPT ![l] = r] /\ logins[l].at = "created"
        BY <3>2 DEF listSessions
      <4>2. r.at = "listed" /\ r.sid = logins[l].sid
        BY <1>0 DEF Login
      <4> QED  BY <4>1, <4>2
    <3> QED  BY <1>1, <3>1, <3>2
  <2>3. /\ \A k \in Logins : logins'[k].sid = logins[k].sid
        /\ \A k \in Logins : logins'[k].at \in {"created", "listed"} =>
                                 logins[k].at \in {"created", "listed"}
        /\ \A k \in Logins : logins'[k].at = "checked" => logins[k].sid = None
    BY <1>0, <1>a, <2>2 DEF SessionsNumbered
  <2>4. Created' = Created
    BY <2>1 DEF Created, Sids
  <2>5. SessionsNumbered'
    BY <1>a, <2>3, <2>4 DEF SessionsNumbered
  <2>6. TokensKnown'
    BY <1>a, <1>c, <2>1, <2>3, <2>4 DEF TokensKnown, Tab
  <2>7. GrantedIsNewest' /\ JarIsNewest'
    BY <1>a, <2>1 DEF GrantedIsNewest, JarIsNewest, Holds
  <2> QED  BY <2>5, <2>6, <2>7 DEF JarInv
<1>2. CASE createSession(l)
  <2> DEFINE n == 1 + Cardinality(Created)
             new == [state |-> "live", hash |-> 0, version |-> logins[l].version,
                     password |-> logins[l].password]
  <2>1. logins[l].at = "checked" /\ sessions' = [sessions EXCEPT ![n] = new]
        /\ UNCHANGED <<tabs, jar, lost>>
    BY <1>2 DEF createSession, Created
  <2>2. n \in Sids \ Created
    BY <1>a, <2>1, NumberIsFree DEF SessionsNumbered
  <2>3. PICK r : /\ logins' = [logins EXCEPT ![l] = r] /\ r.sid = n /\ r.at = "created"
    <3> DEFINE r == [IdleLogin EXCEPT !.at = "created", !.sid = n]
    <3>1. logins' = [logins EXCEPT ![l] = r]
      BY <1>2 DEF createSession, Created
    <3>2. r.sid = n /\ r.at = "created"
      BY <1>b DEF Login
    <3> QED  BY <3>1, <3>2
  <2>4. new.state = "live" /\ new.hash = 0
    OBVIOUS
  <2> HIDE DEF new
  <2>5. /\ sessions'[n] = new
        /\ \A s \in Created : sessions'[s] = sessions[s] /\ s # n
        /\ \A s \in Sids \ {n} : sessions'[s] = sessions[s]
    BY <1>0, <1>c, <2>1, <2>2
  <2>6. Created' = Created \cup {n}
    BY <1>c, <2>2, <2>4, <2>5 DEF Created
  <2>7. /\ logins'[l].sid = n /\ logins'[l].at = "created"
        /\ \A k \in Logins \ {l} : logins'[k] = logins[k]
    BY <1>0, <2>3
  <2>8. SessionsNumbered'
    <3>1. Cardinality(Created') = Cardinality(Created) + 1
      BY <2>2, <2>6, CreatedAreFinite, FS_AddElement
    <3>2. Created' = 1..Cardinality(Created')
      BY <1>a, <2>6, <3>1, CreatedAreFinite DEF SessionsNumbered
    <3>3. \A s \in Created' : \E k \in Logins : logins'[k].sid = s
      <4>1. \A s \in Created : \E k \in Logins \ {l} : logins[k].sid = s
        BY <1>a, <1>c, <2>1 DEF SessionsNumbered
      <4> QED  BY <2>6, <2>7, <4>1
    <3> HIDE DEF n
    <3>4. \A k \in Logins : /\ logins'[k].sid \in Created' \cup {None}
                            /\ logins'[k].at = "checked" => logins'[k].sid = None
                            /\ logins'[k].at \in {"created", "listed"} => logins'[k].sid # None
      BY <1>a, <1>c, <2>2, <2>6, <2>7 DEF SessionsNumbered
    <3>5. \A k, m \in Logins : logins'[k].sid = logins'[m].sid /\ logins'[k].sid # None => k = m
      BY <1>a, <1>c, <2>2, <2>7 DEF SessionsNumbered
    <3> QED  BY <3>2, <3>3, <3>4, <3>5 DEF SessionsNumbered
  <2> HIDE DEF n
  <2>9. TokensKnown'
    <3>1. tabs' \in [Tabs -> Tab]' /\ \A t \in Tabs : tabs'[t].at # "idle" => tabs'[t].sid \in Created'
      BY <1>a, <1>c, <2>1, <2>6 DEF TokensKnown, Tab
    <3>2. jar' # None => jar' \in [sid : Created', hash : Nat]
      BY <1>a, <2>1, <2>6 DEF TokensKnown
    <3>3. ASSUME NEW k \in Logins, logins'[k].at \in {"created", "listed"}
          PROVE  /\ sessions'[logins'[k].sid].state = "live" => sessions'[logins'[k].sid].hash = 0
                 /\ \A t \in Tabs : tabs'[t].at # "idle" => tabs'[t].sid # logins'[k].sid
                 /\ jar' # None => jar'.sid # logins'[k].sid
      <4>1. CASE k = l
        BY <1>a, <2>1, <2>2, <2>4, <2>5, <2>7, <4>1 DEF TokensKnown
      <4>2. CASE k # l
        <5>1. logins[k].sid \in Created /\ logins'[k] = logins[k]
          BY <1>a, <2>7, <3>3, <4>2 DEF SessionsNumbered
        <5> QED  BY <1>a, <2>1, <2>5, <3>3, <5>1 DEF TokensKnown
      <4> QED  BY <4>1, <4>2
    <3> QED  BY <3>1, <3>2, <3>3 DEF TokensKnown
  <2>10. GrantedIsNewest' /\ JarIsNewest'
    BY <1>a, <2>1, <2>5 DEF TokensKnown, GrantedIsNewest, JarIsNewest, Holds
  <2> QED  BY <2>8, <2>9, <2>10 DEF JarInv
<1>3. CASE pruneSessions(l)
  <2>1. /\ logins[l].at = "listed" /\ sessions' = revoked(logins[l].stale)
        /\ UNCHANGED <<tabs, lost>>
        /\ jar' \in {jar, [sid |-> logins[l].sid, hash |-> 0]}
    BY <1>3 DEF pruneSessions
  <2>2. SessionsOnlyEnd
    BY <1>0, <2>1, RevokedFewer DEF SessionsOnlyEnd
  <2>3. Created' = Created
    BY <2>2 DEF SessionsOnlyEnd, Created, Sids
  <2>4. PICK r : logins' = [logins EXCEPT ![l] = r] /\ r.sid = logins[l].sid /\ r.at = "idle"
    <3> DEFINE r == [IdleLogin EXCEPT !.sid = logins[l].sid]
    <3>1. logins' = [logins EXCEPT ![l] = r]
      BY <1>3 DEF pruneSessions
    <3>2. r.sid = logins[l].sid /\ r.at = "idle"
      BY <1>b DEF Login
    <3> QED  BY <3>1, <3>2
  <2>5. /\ \A k \in Logins : logins'[k].sid = logins[k].sid
        /\ \A k \in Logins : logins'[k].at # "idle" => k # l /\ logins'[k] = logins[k]
    BY <1>0, <2>4
  <2>6. SessionsNumbered'
    BY <1>a, <2>3, <2>5 DEF SessionsNumbered
  <2>7. logins[l].sid \in Created
    BY <1>a, <2>1 DEF SessionsNumbered
  <2> DEFINE first == [sid |-> logins[l].sid, hash |-> 0]
  <2>8. first.sid = logins[l].sid /\ first.hash = 0 /\ first \in [sid : Created, hash : Nat]
    BY <2>7
  <2>9. jar' \in {jar, first}
    BY <2>1
  <2> HIDE DEF first
  <2>10. TokensKnown'
    <3>1. tabs' \in [Tabs -> Tab]' /\ \A t \in Tabs : tabs'[t].at # "idle" => tabs'[t].sid \in Created'
      BY <1>a, <1>c, <2>1, <2>3 DEF TokensKnown, Tab
    <3>2. jar' # None => jar' \in [sid : Created', hash : Nat]
      BY <1>a, <2>3, <2>8, <2>9 DEF TokensKnown
    <3>3. ASSUME NEW k \in Logins, logins'[k].at \in {"created", "listed"}
          PROVE  /\ sessions'[logins'[k].sid].state = "live" => sessions'[logins'[k].sid].hash = 0
                 /\ \A t \in Tabs : tabs'[t].at # "idle" => tabs'[t].sid # logins'[k].sid
                 /\ jar' # None => jar'.sid # logins'[k].sid
      <4>1. k # l /\ logins'[k] = logins[k]
        BY <2>5, <3>3
      <4>2. logins[k].sid \in Created /\ logins[k].sid # logins[l].sid
        BY <1>a, <1>c, <2>7, <3>3, <4>1 DEF SessionsNumbered
      <4>3. logins[k].sid \in Sids
        BY <1>c, <4>2
      <4>4. sessions'[logins'[k].sid].state = "live" => sessions'[logins'[k].sid].hash = 0
        BY <1>a, <2>2, <3>3, <4>1, <4>3 DEF TokensKnown, SessionsOnlyEnd
      <4>5. \A t \in Tabs : tabs'[t].at # "idle" => tabs'[t].sid # logins'[k].sid
        BY <1>a, <2>1, <3>3, <4>1 DEF TokensKnown
      <4>6. jar' # None => jar'.sid # logins'[k].sid
        BY <1>a, <2>8, <2>9, <3>3, <4>1, <4>2 DEF TokensKnown
      <4> QED  BY <4>4, <4>5, <4>6
    <3> QED  BY <3>1, <3>2, <3>3 DEF TokensKnown
  <2>11. /\ sessions[logins[l].sid].state = "live" => sessions[logins[l].sid].hash = 0
         /\ \A t \in Tabs : tabs[t].at # "idle" => tabs[t].sid # logins[l].sid
    BY <1>a, <2>1 DEF TokensKnown
  <2>12. \A t \in Tabs : Holds(t) => tabs[t].at # "idle" /\ tabs[t].sid \in Created
    BY <1>a DEF TokensKnown, Holds
  <2>a. /\ \A t \in Tabs : Holds(t) => tabs[t].sid \in Sids /\ tabs[t].sid # logins[l].sid
        /\ logins[l].sid \in Sids
        /\ jar # None => jar.sid \in Sids
    BY <1>a, <1>c, <2>7, <2>11, <2>12 DEF TokensKnown
  <2>b. \A s \in Sids : sessions'[s].state = "live" => sessions'[s] = sessions[s]
    BY <2>2 DEF SessionsOnlyEnd
  <2>13. GrantedIsNewest'
    <3>1. \A t \in Tabs : Holds(t) /\ sessions'[tabs[t].sid].state = "live" =>
              tabs[t].hash <= sessions'[tabs[t].sid].hash
      BY <1>a, <2>a, <2>b DEF GrantedIsNewest
    <3>2. jar' # None /\ sessions'[jar'.sid].state = "live" => jar'.hash <= sessions'[jar'.sid].hash
      BY <1>a, <2>8, <2>9, <2>11, <2>a, <2>b DEF GrantedIsNewest
    <3>3. ASSUME NEW t \in Tabs, tabs[t].at = "granted", sessions'[tabs[t].sid].state = "live"
          PROVE  /\ tabs[t].hash = sessions'[tabs[t].sid].hash
                 /\ \A u \in Tabs \ {t} : Holds(u) /\ tabs[u].sid = tabs[t].sid
                                              => tabs[u].hash < tabs[t].hash
                 /\ jar' # None /\ jar'.sid = tabs[t].sid => jar'.hash < tabs[t].hash
      <4>1. Holds(t)
        BY <3>3 DEF Holds
      <4>2. sessions'[tabs[t].sid] = sessions[tabs[t].sid]
        BY <2>a, <2>b, <3>3, <4>1
      <4> QED  BY <1>a, <2>8, <2>9, <2>a, <3>3, <4>1, <4>2 DEF GrantedIsNewest
    <3> QED  BY <2>1, <3>1, <3>2, <3>3 DEF GrantedIsNewest, Holds
  <2>14. JarIsNewest'
    <3>1. CASE jar' = jar
      BY <1>a, <2>1, <2>a, <2>b, <3>1 DEF JarIsNewest
    <3>2. CASE jar' = first
      BY <2>8, <2>11, <2>a, <2>b, <3>2 DEF JarIsNewest
    <3> QED  BY <2>9, <3>1, <3>2
  <2> QED  BY <2>6, <2>10, <2>13, <2>14 DEF JarInv
<1> QED  BY <1>1, <1>2, <1>3

(* A tab that learns nothing new about a session, and was not handed the   *)
(* newest token, disturbs nobody: what it holds afterwards it held before, *)
(* or had from the jar.                                                    *)
LEMMA TokensRead ==
    ASSUME JarInv, UNCHANGED <<sessions, logins>>, jar' \in {jar, None}, lost => lost',
           NEW t \in Tabs, NEW r \in Tab, tabs' = [tabs EXCEPT ![t] = r],
           tabs[t].at # "granted", r.at # "granted",
           \/ r.at = "idle"
           \/ tabs[t].at # "idle" /\ r.sid = tabs[t].sid /\ r.at = "refused"
           \/ Holds(t) /\ r.sid = tabs[t].sid /\ r.hash = tabs[t].hash
           \/ jar # None /\ r.sid = jar.sid /\ r.hash = jar.hash
    PROVE  JarInv'
<1>a. SessionsNumbered /\ TokensKnown /\ GrantedIsNewest /\ JarIsNewest
  BY DEF JarInv
<1>b. tabs \in [Tabs -> Tab]
  BY <1>a DEF TokensKnown
<1>1. /\ tabs'[t] = r /\ tabs' \in [Tabs -> Tab]
      /\ \A u \in Tabs \ {t} : tabs'[u] = tabs[u]
  BY <1>b
<1>2. Created' = Created /\ Sids' = Sids
  BY DEF Created, Sids
<1>3. SessionsNumbered'
  BY <1>a, <1>2 DEF SessionsNumbered
<1>4. TokensKnown'
  <2>1. tabs' \in [Tabs -> Tab]'
    BY <1>1, <1>2 DEF Tab
  <2>2. jar' # None => jar' \in [sid : Created', hash : Nat]
    BY <1>a, <1>2 DEF TokensKnown
  <2>3. \A u \in Tabs : tabs'[u].at # "idle" => tabs'[u].sid \in Created'
    BY <1>a, <1>1, <1>2 DEF TokensKnown, Holds
  <2>4. ASSUME NEW l \in Logins, logins[l].at \in {"created", "listed"}
        PROVE  /\ sessions[logins[l].sid].state = "live" => sessions[logins[l].sid].hash = 0
               /\ \A u \in Tabs : tabs'[u].at # "idle" => tabs'[u].sid # logins[l].sid
               /\ jar' # None => jar'.sid # logins[l].sid
    BY <1>a, <1>1, <2>4 DEF TokensKnown, Holds
  <2> QED  BY <2>1, <2>2, <2>3, <2>4 DEF TokensKnown
<1>5. GrantedIsNewest'
  <2>1. \A u \in Tabs : Holds(u)' /\ sessions[tabs'[u].sid].state = "live" =>
            tabs'[u].hash <= sessions[tabs'[u].sid].hash
    BY <1>a, <1>1 DEF GrantedIsNewest, Holds
  <2>2. jar' # None /\ sessions[jar'.sid].state = "live" => jar'.hash <= sessions[jar'.sid].hash
    BY <1>a DEF GrantedIsNewest
  <2>3. ASSUME NEW u \in Tabs, tabs'[u].at = "granted", sessions[tabs'[u].sid].state = "live"
        PROVE  /\ tabs'[u].hash = sessions[tabs'[u].sid].hash
               /\ \A w \in Tabs \ {u} : Holds(w)' /\ tabs'[w].sid = tabs'[u].sid
                                            => tabs'[w].hash < tabs'[u].hash
               /\ jar' # None /\ jar'.sid = tabs'[u].sid => jar'.hash < tabs'[u].hash
    <3>1. u # t /\ tabs'[u] = tabs[u]
      BY <1>1, <2>3
    <3>2. \A w \in Tabs \ {u, t} : Holds(w)' /\ tabs'[w].sid = tabs[u].sid
                                       => tabs[w].hash < tabs[u].hash /\ tabs'[w] = tabs[w]
      BY <1>a, <1>1, <2>3, <3>1 DEF GrantedIsNewest, Holds
    <3>3. Holds(t)' /\ r.sid = tabs[u].sid => r.hash < tabs[u].hash
      BY <1>a, <1>1, <2>3, <3>1 DEF GrantedIsNewest, Holds
    <3>4. /\ tabs[u].hash = sessions[tabs[u].sid].hash
          /\ jar # None /\ jar.sid = tabs[u].sid => jar.hash < tabs[u].hash
      BY <1>a, <2>3, <3>1 DEF GrantedIsNewest
    <3> QED  BY <1>1, <3>1, <3>2, <3>3, <3>4
  <2> QED  BY <2>1, <2>2, <2>3 DEF GrantedIsNewest
<1>6. JarIsNewest'
  BY <1>a, <1>1 DEF JarIsNewest
<1> QED  BY <1>3, <1>4, <1>5, <1>6 DEF JarInv

(* A rotation makes a newer token, and the tab that asked for it is the    *)
(* only one to have it; nobody else was to be handed one, since the filter *)
(* had found the tab's own to be the newest.                               *)
LEMMA TokensRotated ==
    ASSUME PasswordInv, JarInv, NEW t \in Tabs, rotateSession(t), TokenIsCurrent(t)
    PROVE  JarInv'
<1>a. SessionsNumbered /\ TokensKnown /\ GrantedIsNewest /\ JarIsNewest
  BY DEF JarInv
<1>b. tabs \in [Tabs -> Tab] /\ sessions \in [Sids -> Session]
  BY <1>a DEF TokensKnown, PasswordInv, AccountsTypeOK
<1> DEFINE s == tabs[t].sid
           new == [sessions[s] EXCEPT !.hash = sessions[s].hash + 1]
           r == [tabs[t] EXCEPT !.at = "granted", !.hash = sessions[s].hash + 1]
<1>1. /\ tabs[t].at = "read" /\ sessions[s].state = "live" /\ sessions[s].hash = tabs[t].hash
      /\ sessions' = [sessions EXCEPT ![s] = new]
      /\ tabs' = [tabs EXCEPT ![t] = r]
      /\ UNCHANGED <<logins, jar, lost>>
  BY DEF rotateSession, TokenIsCurrent
<1>2. Created \in SUBSET Sids /\ None \notin Sids /\ Sids' = Sids
  BY CreatedAreFinite DEF Sids
<1>3. s \in Created /\ s \in Sids /\ sessions[s].hash \in Nat
  BY <1>a, <1>b, <1>1, <1>2 DEF TokensKnown, Session
<1>4. new.state = "live" /\ new.hash = sessions[s].hash + 1
  BY <1>b, <1>1, <1>3 DEF Session
<1>5. r \in Tab /\ r.at = "granted" /\ r.sid = s /\ r.hash = sessions[s].hash + 1
  <2>1. sessions[s].hash + 1 \in Nat /\ tabs[t] \in Tab
    BY <1>b, <1>3
  <2> QED  BY <2>1 DEF Tab
<1> HIDE DEF new, r, s
<1>6. /\ sessions'[s] = new
      /\ \A x \in Sids \ {s} : sessions'[x] = sessions[x]
      /\ \A x \in Sids : sessions'[x].state = sessions[x].state
  BY <1>b, <1>1, <1>3, <1>4
<1>7. /\ tabs'[t] = r /\ tabs' \in [Tabs -> Tab]
      /\ \A u \in Tabs \ {t} : tabs'[u] = tabs[u]
  BY <1>b, <1>1, <1>5
<1>8. Created' = Created
  BY <1>2, <1>6 DEF Created
<1>9. SessionsNumbered'
  BY <1>a, <1>1, <1>8 DEF SessionsNumbered
<1>10. \A u \in Tabs : tabs[u].at # "idle" => tabs[u].sid \in Sids
  BY <1>a, <1>2 DEF TokensKnown
<1>11. jar # None => jar.sid \in Sids
  BY <1>a, <1>2 DEF TokensKnown
<1>12. TokensKnown'
  <2>1. tabs' \in [Tabs -> Tab]'
    BY <1>2, <1>7 DEF Tab
  <2>2. jar' # None => jar' \in [sid : Created', hash : Nat]
    BY <1>a, <1>1, <1>8 DEF TokensKnown
  <2>3. \A u \in Tabs : tabs'[u].at # "idle" => tabs'[u].sid \in Created'
    BY <1>a, <1>3, <1>5, <1>7, <1>8 DEF TokensKnown
  <2>4. ASSUME NEW l \in Logins, logins[l].at \in {"created", "listed"}
        PROVE  /\ sessions'[logins[l].sid].state = "live" => sessions'[logins[l].sid].hash = 0
               /\ \A u \in Tabs : tabs'[u].at # "idle" => tabs'[u].sid # logins[l].sid
               /\ jar # None => jar.sid # logins[l].sid
    <3>1. logins[l].sid # s
      BY <1>a, <1>1, <2>4 DEF TokensKnown, s
    <3>2. logins[l].sid \in Sids
      BY <1>a, <1>2, <2>4 DEF SessionsNumbered
    <3>3. sessions'[logins[l].sid] = sessions[logins[l].sid]
      BY <1>6, <3>1, <3>2
    <3> QED  BY <1>a, <1>5, <1>7, <2>4, <3>1, <3>3 DEF TokensKnown
  <2> QED  BY <1>1, <2>1, <2>2, <2>3, <2>4 DEF TokensKnown
<1>13. \A u \in Tabs : tabs[u].at # "idle" => tabs[u].hash \in Nat
  BY <1>b DEF Tab
<1>14. jar # None => jar.hash \in Nat
  BY <1>a DEF TokensKnown
<1>15. \A u \in Tabs : tabs[u].at = "granted" => tabs[u].sid # s
  <2> SUFFICES ASSUME NEW u \in Tabs, tabs[u].at = "granted", tabs[u].sid = s PROVE FALSE
    OBVIOUS
  <2>1. t # u /\ Holds(t)
    BY <1>1 DEF Holds
  <2>2. tabs[u].hash = sessions[s].hash /\ tabs[t].hash < tabs[u].hash
    BY <1>a, <1>1, <2>1 DEF GrantedIsNewest, s
  <2> QED  BY <1>1, <1>3, <2>2
<1>16. GrantedIsNewest'
  <2>1. \A u \in Tabs : Holds(u)' /\ sessions'[tabs'[u].sid].state = "live" =>
            tabs'[u].hash <= sessions'[tabs'[u].sid].hash
    <3> SUFFICES ASSUME NEW u \in Tabs, Holds(u)', sessions'[tabs'[u].sid].state = "live"
                 PROVE  tabs'[u].hash <= sessions'[tabs'[u].sid].hash
      OBVIOUS
    <3>1. CASE u = t
      BY <1>3, <1>4, <1>5, <1>6, <1>7, <3>1
    <3>2. CASE u # t
      <4>1. tabs'[u] = tabs[u] /\ Holds(u) /\ tabs[u].at # "idle"
        BY <1>7, <3>2 DEF Holds
      <4>2. tabs[u].sid \in Sids /\ tabs[u].hash \in Nat
        BY <1>10, <1>13, <4>1
      <4>3. tabs[u].hash <= sessions[tabs[u].sid].hash
        BY <1>a, <1>6, <4>1, <4>2 DEF GrantedIsNewest
      <4> QED  BY <1>3, <1>4, <1>6, <4>1, <4>2, <4>3
    <3> QED  BY <3>1, <3>2
  <2>2. jar # None /\ sessions'[jar.sid].state = "live" => jar.hash <= sessions'[jar.sid].hash
    BY <1>a, <1>3, <1>4, <1>6, <1>11, <1>14 DEF GrantedIsNewest
  <2>3. ASSUME NEW u \in Tabs, tabs'[u].at = "granted", sessions'[tabs'[u].sid].state = "live"
        PROVE  /\ tabs'[u].hash = sessions'[tabs'[u].sid].hash
               /\ \A w \in Tabs \ {u} : Holds(w)' /\ tabs'[w].sid = tabs'[u].sid
                                            => tabs'[w].hash < tabs'[u].hash
               /\ jar # None /\ jar.sid = tabs'[u].sid => jar.hash < tabs'[u].hash
    <3>1. CASE u = t
      <4>1. tabs'[u].sid = s /\ tabs'[u].hash = sessions[s].hash + 1
        BY <1>5, <1>7, <3>1
      <4>2. ASSUME NEW w \in Tabs \ {u}, Holds(w)', tabs'[w].sid = s
            PROVE  tabs'[w].hash < tabs'[u].hash
        <5>1. tabs'[w] = tabs[w] /\ Holds(w) /\ tabs[w].at # "idle"
          BY <1>7, <3>1, <4>2 DEF Holds
        <5>2. tabs[w].hash <= sessions[s].hash
          BY <1>a, <1>1, <4>2, <5>1 DEF GrantedIsNewest
        <5> QED  BY <1>3, <1>13, <4>1, <5>1, <5>2
      <4>3. jar # None /\ jar.sid = s => jar.hash <= sessions[s].hash
        BY <1>a, <1>1 DEF GrantedIsNewest
      <4> QED  BY <1>3, <1>4, <1>6, <1>14, <4>1, <4>2, <4>3
    <3>2. CASE u # t
      <4>1. tabs'[u] = tabs[u] /\ tabs[u].at = "granted"
        BY <1>7, <2>3, <3>2
      <4>2. tabs[u].sid \in Sids /\ tabs[u].sid # s
        BY <1>10, <1>15, <4>1
      <4>3. sessions'[tabs[u].sid] = sessions[tabs[u].sid]
        BY <1>6, <4>2
      <4>4. \A w \in Tabs \ {u} : Holds(w)' /\ tabs'[w].sid = tabs[u].sid
                                      => Holds(w) /\ tabs'[w] = tabs[w]
        BY <1>5, <1>7, <4>2 DEF Holds
      <4> QED  BY <1>a, <2>3, <4>1, <4>3, <4>4 DEF GrantedIsNewest
    <3> QED  BY <3>1, <3>2
  <2> QED  BY <1>1, <2>1, <2>2, <2>3 DEF GrantedIsNewest
<1>17. JarIsNewest'
  <2> SUFFICES ASSUME jar # None, sessions'[jar.sid].state = "live", ~lost
               PROVE  \/ jar.hash = sessions'[jar.sid].hash
                      \/ \E u \in Tabs : /\ tabs'[u].at = "granted" /\ tabs'[u].sid = jar.sid
                                         /\ tabs'[u].hash = sessions'[jar.sid].hash
    BY <1>1 DEF JarIsNewest
  <2>1. CASE jar.sid = s
    BY <1>4, <1>5, <1>6, <1>7, <2>1
  <2>2. CASE jar.sid # s
    <3>1. sessions'[jar.sid] = sessions[jar.sid]
      BY <1>6, <1>11, <2>2
    <3>2. CASE jar.hash = sessions[jar.sid].hash
      BY <3>1, <3>2
    <3>3. CASE \E u \in Tabs : /\ tabs[u].at = "granted" /\ tabs[u].sid = jar.sid
                               /\ tabs[u].hash = sessions[jar.sid].hash
      <4>1. PICK u \in Tabs : /\ tabs[u].at = "granted" /\ tabs[u].sid = jar.sid
                              /\ tabs[u].hash = sessions[jar.sid].hash
        BY <3>3
      <4>2. u # t
        BY <1>1, <4>1
      <4> QED  BY <1>7, <3>1, <4>1, <4>2
    <3> QED  BY <1>a, <3>1, <3>2, <3>3 DEF JarIsNewest
  <2> QED  BY <2>1, <2>2
<1> QED  BY <1>9, <1>12, <1>16, <1>17 DEF JarInv

(* A granted token is the newest there is: it goes to the jar, or nobody   *)
(* has it.                                                                 *)
LEMMA TokensAnswered ==
    ASSUME JarInv, NEW t \in Tabs, tabs[t].at = "granted", answer(t) \/ loseAnswer(t)
    PROVE  JarInv'
<1>a. SessionsNumbered /\ TokensKnown /\ GrantedIsNewest /\ JarIsNewest
  BY DEF JarInv
<1>b. tabs \in [Tabs -> Tab]
  BY <1>a DEF TokensKnown
<1> DEFINE cookie == [sid |-> tabs[t].sid, hash |-> tabs[t].hash]
<1>1. /\ tabs' = [tabs EXCEPT ![t] = IdleTab]
      /\ UNCHANGED <<sessions, logins>>
      /\ \/ jar' = cookie /\ lost' = lost
         \/ jar' = jar /\ lost' = TRUE
  BY DEF answer, loseAnswer
<1>2. cookie.sid = tabs[t].sid /\ cookie.hash = tabs[t].hash
      /\ cookie \in [sid : Created, hash : Nat]
  <2>1. tabs[t].sid \in Created /\ tabs[t].hash \in Nat
    BY <1>a, <1>b DEF TokensKnown, Tab
  <2> QED  BY <2>1
<1> HIDE DEF cookie
<1>3. IdleTab \in Tab /\ IdleTab.at = "idle"
  BY DEF IdleTab, Tab
<1>4. /\ tabs'[t] = IdleTab /\ tabs' \in [Tabs -> Tab]
      /\ \A u \in Tabs \ {t} : tabs'[u] = tabs[u]
  BY <1>b, <1>1, <1>3
<1>5. Created' = Created /\ Sids' = Sids
  BY <1>1 DEF Created, Sids
<1>6. SessionsNumbered'
  BY <1>a, <1>1, <1>5 DEF SessionsNumbered
<1>7. TokensKnown'
  <2>1. tabs' \in [Tabs -> Tab]'
    BY <1>4, <1>5 DEF Tab
  <2>2. jar' # None => jar' \in [sid : Created', hash : Nat]
    BY <1>a, <1>1, <1>2, <1>5 DEF TokensKnown
  <2>3. \A u \in Tabs : tabs'[u].at # "idle" => u # t /\ tabs'[u] = tabs[u]
    BY <1>3, <1>4
  <2>4. ASSUME NEW l \in Logins, logins[l].at \in {"created", "listed"}
        PROVE  jar' # None => jar'.sid # logins[l].sid
    BY <1>a, <1>1, <1>2, <2>4 DEF TokensKnown
  <2> QED  BY <1>a, <1>1, <1>5, <2>1, <2>2, <2>3, <2>4 DEF TokensKnown
<1>8. Holds(t) /\ \A u \in Tabs : Holds(u)' => u # t /\ Holds(u) /\ tabs'[u] = tabs[u]
  BY <1>3, <1>4 DEF Holds
<1>9. GrantedIsNewest'
  <2>1. \A u \in Tabs : Holds(u)' /\ sessions[tabs'[u].sid].state = "live" =>
            tabs'[u].hash <= sessions[tabs'[u].sid].hash
    BY <1>a, <1>8 DEF GrantedIsNewest
  <2>2. jar' # None /\ sessions[jar'.sid].state = "live" => jar'.hash <= sessions[jar'.sid].hash
    BY <1>a, <1>1, <1>2, <1>8 DEF GrantedIsNewest
  <2>3. ASSUME NEW u \in Tabs, tabs'[u].at = "granted", sessions[tabs'[u].sid].state = "live"
        PROVE  /\ tabs'[u].hash = sessions[tabs'[u].sid].hash
               /\ \A w \in Tabs \ {u} : Holds(w)' /\ tabs'[w].sid = tabs'[u].sid
                                            => tabs'[w].hash < tabs'[u].hash
               /\ jar' # None /\ jar'.sid = tabs'[u].sid => jar'.hash < tabs'[u].hash
    <3>1. u # t /\ tabs'[u] = tabs[u]
      BY <1>3, <1>4, <2>3
    <3>2. \A w \in Tabs \ {u} : Holds(w)' /\ tabs'[w].sid = tabs[u].sid
                                    => tabs'[w].hash < tabs[u].hash
      BY <1>a, <1>8, <2>3, <3>1 DEF GrantedIsNewest
    <3>3. tabs[u].hash = sessions[tabs[u].sid].hash
      BY <1>a, <2>3, <3>1 DEF GrantedIsNewest
    <3>4. tabs[t].sid = tabs[u].sid => tabs[t].hash < tabs[u].hash
      BY <1>a, <1>8, <2>3, <3>1 DEF GrantedIsNewest
    <3>5. jar # None /\ jar.sid = tabs[u].sid => jar.hash < tabs[u].hash
      BY <1>a, <2>3, <3>1 DEF GrantedIsNewest
    <3> QED  BY <1>1, <1>2, <3>1, <3>2, <3>3, <3>4, <3>5
  <2> QED  BY <1>1, <2>1, <2>2, <2>3 DEF GrantedIsNewest
<1>10. JarIsNewest'
  <2>1. sessions[tabs[t].sid].state = "live" => tabs[t].hash = sessions[tabs[t].sid].hash
    BY <1>a DEF GrantedIsNewest
  <2> QED  BY <1>1, <1>2, <2>1 DEF JarIsNewest
<1> QED  BY <1>6, <1>7, <1>9, <1>10 DEF JarInv

(* Every step keeps the tokens in order.                                   *)
LEMMA TokensStep ==
    ASSUME PasswordInv, JarInv, [Next]_vars
    PROVE  JarInv'
<1>0. AccountsTypeOK /\ tabs \in [Tabs -> Tab]
  BY DEF PasswordInv, JarInv, TokensKnown
<1>1. ASSUME NEW t \in Tabs, startRefresh(t) PROVE JarInv'
  <2> DEFINE r == [at |-> "asked", sid |-> jar.sid, hash |-> jar.hash]
  <2>1. /\ tabs[t].at = "idle" /\ jar # None /\ tabs' = [tabs EXCEPT ![t] = r]
        /\ UNCHANGED <<sessions, logins, jar, lost>>
    BY <1>1 DEF startRefresh
  <2>2. jar.sid \in Sids /\ jar.hash \in Nat
    BY <2>1, CreatedAreFinite DEF JarInv, TokensKnown
  <2>3. r \in Tab /\ r.at = "asked" /\ r.sid = jar.sid /\ r.hash = jar.hash
    BY <2>2 DEF Tab
  <2> HIDE DEF r
  <2> QED  BY <2>1, <2>3, TokensRead
<1>2. ASSUME NEW t \in Tabs, tabs[t].at \in {"asked", "read"}, NEW place \in {"read", "refused"},
             tabs' = [tabs EXCEPT ![t].at = place], UNCHANGED <<sessions, logins, jar, lost>>
      PROVE  JarInv'
  <2> DEFINE r == [tabs[t] EXCEPT !.at = place]
  <2>1. r \in Tab /\ r.at = place /\ r.sid = tabs[t].sid /\ r.hash = tabs[t].hash
    BY <1>0 DEF Tab
  <2>2. tabs' = [tabs EXCEPT ![t] = r]
    BY <1>2
  <2> HIDE DEF r
  <2>3. Holds(t) /\ tabs[t].at # "granted"
    BY <1>2 DEF Holds
  <2> QED  BY <1>2, <2>1, <2>2, <2>3, TokensRead
<1>3. ASSUME NEW t \in Tabs, readAccount(t) PROVE JarInv'
  <2>1. /\ tabs[t].at = "asked" /\ UNCHANGED <<sessions, logins, jar, lost>>
        /\ \/ tabs' = [tabs EXCEPT ![t].at = "read"]
           \/ tabs' = [tabs EXCEPT ![t].at = "refused"]
    BY <1>3 DEF readAccount, Answer
  <2> QED  BY <1>2, <2>1
<1>4. ASSUME NEW t \in Tabs, rotateSession(t) PROVE JarInv'
  <2>1. CASE TokenIsCurrent(t)
    BY <1>4, <2>1, TokensRotated
  <2>2. CASE ~TokenIsCurrent(t)
    <3>1. /\ tabs[t].at = "read" /\ UNCHANGED <<sessions, logins, jar, lost>>
          /\ tabs' = [tabs EXCEPT ![t].at = "refused"]
      BY <1>4, <2>2 DEF rotateSession, Answer
    <3> QED  BY <1>2, <3>1
  <2> QED  BY <2>1, <2>2
<1>5. ASSUME NEW t \in Tabs, answer(t) \/ loseAnswer(t) PROVE JarInv'
  <2>1. CASE tabs[t].at = "granted"
    BY <1>5, <2>1, TokensAnswered
  <2>2. CASE tabs[t].at # "granted"
    <3>1. /\ tabs[t].at = "refused" /\ UNCHANGED <<sessions, logins>>
          /\ tabs' = [tabs EXCEPT ![t] = IdleTab]
          /\ jar' \in {jar, None}
      BY <1>5, <2>2 DEF answer, loseAnswer
    <3>3. lost => lost'
      BY <1>5 DEF answer, loseAnswer
    <3>2. IdleTab \in Tab /\ IdleTab.at = "idle"
      BY DEF IdleTab, Tab
    <3> QED  BY <2>2, <3>1, <3>2, <3>3, TokensRead
  <2> QED  BY <2>1, <2>2
<1>6. ASSUME UNCHANGED <<logins, tabs, lost>>, jar' \in {jar, None},
             sessions' = sessions \/ \E sids : sessions' = revoked(sids)
      PROVE  JarInv'
  <2>1. SessionsOnlyEnd
    BY <1>0, <1>6, RevokedFewer DEF SessionsOnlyEnd
  <2> QED  BY <1>6, <2>1, TokensQuiet
<1>7. ASSUME logout \/ UNCHANGED vars PROVE JarInv'
  BY <1>6, <1>7 DEF logout, vars
<1>8. ASSUME NEW k \in Sockets, admit(k) \/ join(k) \/ revalidate(k) \/ hangUp(k) PROVE JarInv'
  BY <1>6, <1>8 DEF admit, join, revalidate, hangUp
<1>9. ASSUME NEW h \in Changers,
             \/ openPasswordChange(h) \/ savePassword(h)
             \/ \E status \in {"active", "banned"} : incrementVersion(h, status)
             \/ revokeAllSessions(h) \/ resetPassword(h)
             \/ disconnectUserSessions(h) \/ crash(h)
      PROVE  JarInv'
  <2>1. UNCHANGED <<logins, tabs, lost, jar>> /\ sessions' \in {sessions, revoked(Sids)}
    BY <1>9 DEF openPasswordChange, savePassword, incrementVersion, revokeAllSessions,
                resetPassword, disconnectUserSessions, crash
  <2> QED  BY <1>6, <2>1
<1> QED  BY <1>1, <1>3, <1>4, <1>5, <1>7, <1>8, <1>9, TokensSigned DEF Next

(* At the start there is no session and no token.                          *)
LEMMA TokensAtStart == Init => JarInv
<1> SUFFICES ASSUME Init PROVE JarInv
  OBVIOUS
<1>1. NoSession.state = "none" /\ IdleLogin.at = "idle" /\ IdleLogin.sid = None
      /\ IdleTab.at = "idle" /\ IdleTab \in Tab
  BY DEF NoSession, IdleLogin, IdleTab, Tab
<1>2. /\ \A s \in Sids : sessions[s].state = "none"
      /\ \A l \in Logins : logins[l].at = "idle" /\ logins[l].sid = None
      /\ tabs \in [Tabs -> Tab] /\ \A t \in Tabs : tabs[t].at = "idle"
      /\ jar = None
  BY <1>1 DEF Init
<1>3. Created = {} /\ Cardinality(Created) = 0
  BY <1>2, FS_EmptySet DEF Created
<1>4. SessionsNumbered
  BY <1>2, <1>3 DEF SessionsNumbered
<1>5. TokensKnown /\ GrantedIsNewest /\ JarIsNewest
  BY <1>2 DEF TokensKnown, GrantedIsNewest, JarIsNewest, Holds
<1> QED  BY <1>4, <1>5 DEF JarInv

(* However many tabs refresh at once, and in whatever order the answers    *)
(* come, the browser is never left with a refresh token that was replaced  *)
(* (rotateSession's conditional update), unless an answer was lost.        *)
THEOREM JarStaysNewest == Spec => []JarIsNewest
<1>1. PasswordInv /\ JarInv /\ [Next]_vars => JarInv'
  BY TokensStep
<1>2. JarInv => JarIsNewest
  BY DEF JarInv
<1> QED  BY <1>1, <1>2, TokensAtStart, PasswordInvHolds, PTL DEF Spec

-----------------------------------------------------------------------------
(* Uploaded images.                                                        *)

(* The kinds of document that take an image and are stored with it, or     *)
(* take it before.                                                         *)
Careful == {"book", "review", "return"}

Statuses == Recorded \union {"none", "gone"}
Record == [status : Statuses, entity : Documents \union {Nil}, due : BOOLEAN]
Upkeep == [at : {"idle", "delete", "deleted", "failed"}, image : Images \union {Nil}]
Handler == [at : {"idle", "claim", "create", "release"}, doc : Documents \union {Nil},
            urls : SUBSET Images, legacy : {{}}]

AssetsTypeOK ==
    /\ asset \in [Images -> Record]
    /\ shown \in [Documents -> (SUBSET Images) \union {Nil, Gone}]
    /\ cleaner \in [Cleaners -> Upkeep]
    /\ req \in [Requests -> Handler]

(* What can still be taken has its file, and what a pass is about to       *)
(* delete can be taken no more.                                            *)
Usable(i) == asset[i].status \in {"temporary", "attached"}

FilesAreThere ==
    /\ \A i \in Images : Usable(i) => i \in files
    /\ \A c \in Cleaners : cleaner[c].at = "delete" =>
           cleaner[c].image \in Images /\ ~Usable(cleaner[c].image)
              /\ asset[cleaner[c].image].status # "none"

(* A return that is being filed has an id of its own, and before it is     *)
(* saved it has all of its images.                                         *)
ReturnsFiled ==
    /\ \A r \in Requests : req[r].at # "idle" =>
           /\ purpose = "return"
           /\ req[r].doc \in Documents /\ shown[req[r].doc] = Gone
           /\ \A q \in Requests : req[q].at # "idle" /\ req[q].doc = req[r].doc => q = r
    /\ \A r \in Requests : req[r].at = "create" =>
           \A i \in req[r].urls : asset[i] = Attached(req[r].doc)

AssetInv ==
    /\ purpose \in Careful
    /\ AssetsTypeOK /\ FilesAreThere /\ ReturnsFiled
    /\ \A d \in Documents : Keeps(d)


(* What one cannot use one may not show: an image that a document shows is *)
(* attached to it.                                                         *)
LEMMA ShownIsMine ==
    ASSUME AssetInv, NEW d \in Documents, Stored(d)
    PROVE  shown[d] \subseteq Mine(d)
<1>1. shown[d] \subseteq Images
  BY DEF AssetInv, AssetsTypeOK, Stored
<1>2. \A i \in shown[d] : asset[i] = Attached(d)
  BY DEF AssetInv, Keeps
<1> QED  BY <1>1, <1>2 DEF Mine, Attached

(* The records there are.                                                  *)
LEMMA AssetRecords ==
    /\ \A d \in Documents : /\ Attached(d) \in Record /\ Attached(d).status = "attached"
                            /\ Attached(d).entity = d
    /\ Temporary \in Record /\ Temporary.status = "temporary"
    /\ NoAsset \in Record /\ NoAsset.status = "none"
    /\ \A i \in Images : asset[i] \in Record =>
           /\ Queued(i) \in Record /\ Queued(i).status = "pending_delete"
    /\ IdleRequest \in Handler /\ IdleRequest.at = "idle"
    /\ IdleCleaner \in Upkeep /\ IdleCleaner.at = "idle"
BY DEF Attached, Temporary, NoAsset, Queued, Record, Statuses, Recorded, IdleRequest, Handler,
       IdleCleaner, Upkeep

(* A document other than the one at hand keeps its images, since the step  *)
(* changes no image that is attached to it.                                *)
LEMMA OthersKeep ==
    ASSUME AssetInv, NEW d \in Documents, Stored(d)', shown'[d] = shown[d],
           \A i \in Images : asset[i] = Attached(d) => asset'[i] = asset[i],
           \A i \in Images : i \in files /\ Usable(i) => i \in files'
    PROVE  Keeps(d)'
<1>1. Stored(d) /\ shown[d] \subseteq Images
  BY DEF AssetInv, AssetsTypeOK, Stored
<1>2. ASSUME NEW i \in shown[d] PROVE i \in files' /\ asset'[i] = Attached(d)
  <2>1. i \in files /\ asset[i] = Attached(d) /\ i \in Images
    BY <1>1 DEF AssetInv, Keeps
  <2>2. Usable(i)
    BY <2>1, AssetRecords DEF Usable
  <2> QED  BY <2>1, <2>2
<1> QED  BY <1>2 DEF Keeps, Attached

(* A document of the first two kinds is saved, or deleted, together with   *)
(* the records of its images.                                              *)
LEMMA SaveKeeps ==
    ASSUME AssetInv, purpose \in {"book", "review"}, NEW d \in Documents,
           NEW urls \in SUBSET Images, urls \subseteq Mine(d),
           NEW now, shown' = [shown EXCEPT ![d] = now], now = urls \/ now = Gone,
           asset' \in [Images -> Record],
           \A i \in Images : \/ i \in urls /\ asset'[i] = Attached(d)
                             \/ i \notin urls /\ asset'[i] = asset[i]
                             \/ i \notin urls /\ asset[i].entity = d /\ asset'[i] = Queued(i),
           UNCHANGED <<purpose, files, req, cleaner>>
    PROVE  AssetInv'
<1>1. AssetsTypeOK /\ FilesAreThere /\ ReturnsFiled
  BY DEF AssetInv
<1>2. AssetsTypeOK'
  BY <1>1 DEF AssetsTypeOK
<1>a. \A i \in Images : asset[i] \in Record
  BY <1>1 DEF AssetsTypeOK
<1>3. \A i \in Images : Usable(i)' => Usable(i)
  <2>1. \A i \in urls : Usable(i)
    BY DEF Mine, Usable
  <2> QED  BY <1>a, <2>1, AssetRecords DEF Usable
<1>4. \A i \in Images : asset'[i].status # "none" \/ asset[i].status = "none"
  BY <1>a, AssetRecords
<1>5. FilesAreThere'
  BY <1>1, <1>3, <1>4 DEF FilesAreThere
<1>6. ReturnsFiled'
  BY <1>1 DEF ReturnsFiled
<1>7. ASSUME NEW e \in Documents PROVE Keeps(e)'
  <2>1. CASE e = d
    <3>1. shown'[d] = now
      BY <1>1 DEF AssetsTypeOK
    <3>2. \A i \in urls : i \in files /\ asset'[i] = Attached(d)
      BY <1>1, <1>3 DEF FilesAreThere, Mine, Usable
    <3> QED  BY <2>1, <3>1, <3>2 DEF Keeps, Stored, Attached
  <2>2. CASE e # d
    <3>1. shown'[e] = shown[e]
      BY <1>1, <2>2 DEF AssetsTypeOK
    <3>2. \A i \in Images : asset[i] = Attached(e) => asset'[i] = asset[i]
      <4> SUFFICES ASSUME NEW i \in Images, asset[i] = Attached(e) PROVE asset'[i] = asset[i]
        OBVIOUS
      <4>1. asset[i].entity = e
        BY AssetRecords
      <4>2. asset[i].entity \notin {Nil, d}
        BY <2>2, <4>1, AssetsAssumption
      <4>3. i \notin urls
        BY <4>2 DEF Mine
      <4> QED  BY <4>2, <4>3
    <3> SUFFICES ASSUME Stored(e)' PROVE Keeps(e)'
      BY DEF Keeps
    <3> QED  BY <3>1, <3>2, OthersKeep
  <2> QED  BY <2>1, <2>2
<1> QED  BY <1>2, <1>5, <1>6, <1>7 DEF AssetInv

(* A step that leaves documents, returns and what is attached alone.       *)
LEMMA UpkeepKeeps ==
    ASSUME AssetInv, UNCHANGED <<purpose, shown, req>>,
           asset' \in [Images -> Record], cleaner' \in [Cleaners -> Upkeep], FilesAreThere',
           \A i \in Images : asset[i].status = "attached" => asset'[i] = asset[i],
           \A i \in Images : i \in files /\ Usable(i) => i \in files'
    PROVE  AssetInv'
<1>1. AssetsTypeOK /\ ReturnsFiled
  BY DEF AssetInv
<1>2. AssetsTypeOK'
  BY <1>1 DEF AssetsTypeOK
<1>3. ReturnsFiled'
  <2> SUFFICES ASSUME NEW r \in Requests, req[r].at = "create", NEW i \in req[r].urls
               PROVE  asset'[i] = Attached(req[r].doc)
    BY <1>1 DEF ReturnsFiled, Attached
  <2>1. i \in Images /\ req[r].doc \in Documents /\ asset[i] = Attached(req[r].doc)
    BY <1>1 DEF ReturnsFiled, AssetsTypeOK, Handler
  <2>2. asset[i].status = "attached"
    BY <2>1, AssetRecords
  <2> QED  BY <2>1, <2>2
<1>4. ASSUME NEW d \in Documents, Stored(d)' PROVE Keeps(d)'
  <2>1. \A i \in Images : asset[i] = Attached(d) => asset'[i] = asset[i]
    BY AssetRecords
  <2> QED  BY <1>4, <2>1, OthersKeep
<1>5. \A d \in Documents : Keeps(d)'
  BY <1>4 DEF Keeps
<1> QED  BY <1>2, <1>3, <1>5 DEF AssetInv

(* Uploading: an image gets its record while its file is there.            *)
LEMMA UploadStep ==
    ASSUME AssetInv, Upload
    PROVE  AssetInv'
<1>1. AssetsTypeOK /\ FilesAreThere /\ ReturnsFiled
  BY DEF AssetInv
<1>2. PICK i \in Images : storeImage(i) \/ registerUploadedAsset(i) \/ registrationFails(i)
  BY DEF Upload
<1>3. asset[i] = NoAsset /\ UNCHANGED <<purpose, shown, req, cleaner>>
  BY <1>2 DEF storeImage, registerUploadedAsset, registrationFails
<1>4. asset[i].status = "none"
  BY <1>3, AssetRecords
<1>5. CASE storeImage(i) \/ registrationFails(i)
  <2>1. asset' = asset /\ files' \in {files \union {i}, files \ {i}}
    BY <1>5 DEF storeImage, registrationFails
  <2>2. \A j \in Images : j \in files /\ Usable(j) => j \in files'
    BY <1>4, <2>1 DEF Usable
  <2>3. FilesAreThere'
    BY <1>1, <1>3, <2>1, <2>2 DEF FilesAreThere, Usable
  <2> QED  BY <1>1, <1>3, <2>1, <2>2, <2>3, UpkeepKeeps DEF AssetsTypeOK
<1>6. CASE registerUploadedAsset(i)
  <2>1. asset' = [asset EXCEPT ![i] = Temporary] /\ i \in files /\ files' = files
    BY <1>6 DEF registerUploadedAsset
  <2>2. /\ asset' \in [Images -> Record] /\ asset'[i] = Temporary
        /\ \A j \in Images \ {i} : asset'[j] = asset[j]
    BY <1>1, <2>1, AssetRecords DEF AssetsTypeOK
  <2>3. \A c \in Cleaners : cleaner[c].at = "delete" => cleaner[c].image # i
    BY <1>1, <1>4 DEF FilesAreThere
  <2>4. FilesAreThere'
    BY <1>1, <1>3, <2>1, <2>2, <2>3 DEF FilesAreThere, Usable
  <2>5. \A j \in Images : asset[j].status = "attached" => asset'[j] = asset[j]
    BY <1>4, <2>2
  <2> QED  BY <1>1, <1>3, <2>1, <2>2, <2>4, <2>5, UpkeepKeeps DEF AssetsTypeOK
<1> QED  BY <1>2, <1>5, <1>6

(* The record of one image changes, which is not attached and does not     *)
(* become usable.                                                          *)
LEMMA OneRecord ==
    ASSUME AssetInv, NEW i \in Images, NEW record \in Record,
           asset' = [asset EXCEPT ![i] = record],
           UNCHANGED <<purpose, files, shown, req>>, asset[i].status # "attached",
           record.status \in {"temporary", "attached"} => Usable(i),
           record.status = "none" => asset[i].status = "none",
           cleaner' \in [Cleaners -> Upkeep],
           \A c \in Cleaners : cleaner'[c].at = "delete" =>
               \/ cleaner'[c] = cleaner[c]
               \/ cleaner'[c].image = i /\ record.status = "deleting"
    PROVE  AssetInv'
<1>1. AssetsTypeOK /\ FilesAreThere
  BY DEF AssetInv
<1>2. /\ asset' \in [Images -> Record] /\ asset'[i] = record
      /\ \A j \in Images \ {i} : asset'[j] = asset[j]
  BY <1>1 DEF AssetsTypeOK
<1>3. \A j \in Images : Usable(j)' => Usable(j)
  BY <1>2 DEF Usable
<1>4. \A j \in Images : asset'[j].status = "none" => asset[j].status = "none"
  BY <1>2
<1>5. FilesAreThere'
  <2>1. \A j \in Images : Usable(j)' => j \in files'
    BY <1>1, <1>3 DEF FilesAreThere
  <2>2. ASSUME NEW c \in Cleaners, cleaner'[c].at = "delete"
        PROVE  /\ cleaner'[c].image \in Images /\ ~Usable(cleaner[c].image)'
               /\ asset'[cleaner'[c].image].status # "none"
    <3>1. CASE cleaner'[c] = cleaner[c]
      BY <1>1, <1>3, <1>4, <2>2, <3>1 DEF FilesAreThere, Usable
    <3>2. CASE cleaner'[c].image = i /\ record.status = "deleting"
      BY <1>2, <3>2 DEF Usable
    <3> QED  BY <2>2, <3>1, <3>2
  <2> QED  BY <2>1, <2>2 DEF FilesAreThere
<1> QED  BY <1>2, <1>5, UpkeepKeeps

(* A pass goes on to another place, and takes away the file of what nobody *)
(* can use.                                                                *)
LEMMA OnePlace ==
    ASSUME AssetInv, UNCHANGED <<purpose, asset, shown, req>>,
           NEW c \in Cleaners, NEW place \in Upkeep, place.at # "delete",
           cleaner' = [cleaner EXCEPT ![c] = place],
           \/ files' = files
           \/ cleaner[c].at = "delete" /\ files' = files \ {cleaner[c].image}
    PROVE  AssetInv'
<1>1. AssetsTypeOK /\ FilesAreThere
  BY DEF AssetInv
<1>2. /\ cleaner' \in [Cleaners -> Upkeep] /\ cleaner'[c] = place
      /\ \A b \in Cleaners \ {c} : cleaner'[b] = cleaner[b]
  BY <1>1 DEF AssetsTypeOK
<1>3. \A j \in Images : j \in files /\ Usable(j) => j \in files'
  BY <1>1 DEF FilesAreThere
<1>4. FilesAreThere'
  BY <1>1, <1>2, <1>3 DEF FilesAreThere, Usable
<1> QED  BY <1>1, <1>2, <1>3, <1>4, UpkeepKeeps DEF AssetsTypeOK

(* The job's passes, and the dates they wait for.                          *)
LEMMA CleanUpStep ==
    ASSUME AssetInv, CleanUp
    PROVE  AssetInv'
<1>1. AssetsTypeOK /\ FilesAreThere
  BY DEF AssetInv
<1>a. \A i \in Images : asset[i] \in Record
  BY <1>1 DEF AssetsTypeOK
<1>b. \A c \in Cleaners : cleaner[c] \in Upkeep
  BY <1>1 DEF AssetsTypeOK
<1>2. ASSUME NEW c \in Cleaners, NEW i \in Images, claimDueAsset(c, i) PROVE AssetInv'
  <2> DEFINE record == [asset[i] EXCEPT !.status = "deleting", !.due = FALSE]
             place == [at |-> "delete", image |-> i]
  <2>1. /\ asset' = [asset EXCEPT ![i] = record] /\ cleaner' = [cleaner EXCEPT ![c] = place]
        /\ asset[i].status # "attached" /\ UNCHANGED <<purpose, files, shown, req>>
    BY <1>2 DEF claimDueAsset, Due
  <2>2. record \in Record /\ record.status = "deleting"
    BY <1>a DEF Record, Statuses, Recorded
  <2>3. place \in Upkeep /\ place.image = i
    BY DEF Upkeep
  <2> HIDE DEF record, place
  <2>4. /\ cleaner' \in [Cleaners -> Upkeep] /\ cleaner'[c] = place
        /\ \A b \in Cleaners \ {c} : cleaner'[b] = cleaner[b]
    BY <1>1, <2>1, <2>3 DEF AssetsTypeOK
  <2> QED  BY <2>1, <2>2, <2>3, <2>4, OneRecord
<1>3. ASSUME NEW i \in Images, DateComes(i) PROVE AssetInv'
  <2> DEFINE record == [asset[i] EXCEPT !.due = TRUE]
  <2>1. /\ asset' = [asset EXCEPT ![i] = record] /\ UNCHANGED <<purpose, files, shown, req, cleaner>>
        /\ asset[i].status \in {"temporary", "pending_delete", "deleting"}
    BY <1>3 DEF DateComes
  <2>2. record \in Record /\ record.status = asset[i].status
    BY <1>a DEF Record
  <2> HIDE DEF record
  <2> QED  BY <1>1, <2>1, <2>2, OneRecord DEF AssetsTypeOK, Usable
<1>4. ASSUME NEW c \in Cleaners, deleteImage(c) \/ deleteFails(c) PROVE AssetInv'
  <2>1. PICK at \in {"deleted", "failed"} : cleaner' = [cleaner EXCEPT ![c].at = at]
    BY <1>4 DEF deleteImage, deleteFails, Step
  <2> DEFINE place == [cleaner[c] EXCEPT !.at = at]
  <2>2. /\ UNCHANGED <<purpose, asset, shown, req>> /\ cleaner[c].at = "delete"
        /\ files' \in {files, files \ {cleaner[c].image}}
    BY <1>4 DEF deleteImage, deleteFails
  <2>3. place \in Upkeep /\ place.at # "delete"
    BY <1>b DEF Upkeep
  <2>4. cleaner' = [cleaner EXCEPT ![c] = place]
    BY <2>1
  <2> HIDE DEF place
  <2> QED  BY <2>2, <2>3, <2>4, OnePlace
<1>5. ASSUME NEW c \in Cleaners, cleanerDies(c) PROVE AssetInv'
  <2>1. cleaner' = [cleaner EXCEPT ![c] = IdleCleaner] /\ UNCHANGED <<purpose, asset, files, shown, req>>
    BY <1>5 DEF cleanerDies
  <2>2. IdleCleaner \in Upkeep /\ IdleCleaner.at # "delete"
    BY AssetRecords
  <2> QED  BY <2>1, <2>2, OnePlace
<1>6. ASSUME NEW c \in Cleaners, finish(c) PROVE AssetInv'
  <2> DEFINE i == cleaner[c].image
             record == IF asset[i].status # "deleting" THEN asset[i]
                       ELSE IF cleaner[c].at = "deleted" THEN [NoAsset EXCEPT !.status = "gone"]
                       ELSE [asset[i] EXCEPT !.status = "pending_delete", !.due = FALSE]
  <2>1. /\ asset' = [asset EXCEPT ![i] = record]
        /\ cleaner' = [cleaner EXCEPT ![c] = IdleCleaner]
        /\ UNCHANGED <<purpose, files, shown, req>>
    BY <1>6 DEF finish
  <2>2. IdleCleaner \in Upkeep /\ IdleCleaner.at # "delete"
    BY AssetRecords
  <2>3. CASE asset' = asset
    BY <2>1, <2>2, <2>3, OnePlace
  <2>4. CASE asset' # asset
    <3>1. i \in Images
      BY <1>1, <2>1, <2>4 DEF AssetsTypeOK
    <3>2. asset[i].status = "deleting"
      BY <1>1, <2>1, <2>4 DEF AssetsTypeOK
    <3>3. record \in Record /\ record.status \in {"gone", "pending_delete"}
      <4>1. [NoAsset EXCEPT !.status = "gone"] \in Record
            /\ [NoAsset EXCEPT !.status = "gone"].status = "gone"
        BY DEF NoAsset, Record, Statuses
      <4>2. LET r == [asset[i] EXCEPT !.status = "pending_delete", !.due = FALSE]
            IN  r \in Record /\ r.status = "pending_delete"
        BY <1>a, <3>1 DEF Record, Statuses, Recorded
      <4> QED  BY <3>2, <4>1, <4>2
    <3> HIDE DEF record, i
    <3>4. /\ cleaner' \in [Cleaners -> Upkeep] /\ cleaner'[c] = IdleCleaner
          /\ \A b \in Cleaners \ {c} : cleaner'[b] = cleaner[b]
      BY <1>1, <2>1, <2>2 DEF AssetsTypeOK
    <3> QED  BY <2>1, <2>2, <3>1, <3>2, <3>3, <3>4, OneRecord
  <2> QED  BY <2>3, <2>4
<1> QED  BY <1>2, <1>3, <1>4, <1>5, <1>6 DEF CleanUp, Pass

(* Books and reviews are saved, and deleted, in one transaction.           *)
LEMMA DocumentStep ==
    ASSUME AssetInv, NEW d \in Documents, NEW urls \in SUBSET Images,
           \/ purpose = "book" /\ saveBook(d, urls)
           \/ purpose = "review" /\ saveReview(d, urls)
           \/ purpose \in {"book", "review"} /\ deleteDocument(d)
    PROVE  AssetInv'
<1>1. AssetsTypeOK
  BY DEF AssetInv
<1>a. \A i \in Images : asset[i] \in Record /\ Queued(i) \in Record
  BY <1>1, AssetRecords DEF AssetsTypeOK
<1>b. Attached(d) \in Record
  BY AssetRecords
<1>2. CASE saveBook(d, urls) /\ purpose = "book"
  <2>1. urls \subseteq Mine(d)
    BY <1>2, ShownIsMine DEF saveBook, New
  <2>2. /\ asset' = sync(d, urls) /\ shown' = [shown EXCEPT ![d] = urls]
        /\ UNCHANGED <<purpose, files, req, cleaner>>
    BY <1>2 DEF saveBook
  <2>3. asset' \in [Images -> Record]
    BY <1>a, <1>b, <2>2 DEF sync
  <2>4. \A i \in Images : \/ i \in urls /\ asset'[i] = Attached(d)
                          \/ i \notin urls /\ asset'[i] = asset[i]
                          \/ i \notin urls /\ asset[i].entity = d /\ asset'[i] = Queued(i)
    BY <2>1, <2>2 DEF sync
  <2> QED  BY <1>2, <2>1, <2>2, <2>3, <2>4, SaveKeeps
<1>3. CASE saveReview(d, urls) /\ purpose = "review"
  <2>1. /\ asset' = [i \in Images |-> IF i \in urls THEN Attached(d) ELSE queue(d, urls)[i]]
        /\ shown' = [shown EXCEPT ![d] = urls] /\ urls \subseteq Mine(d)
        /\ UNCHANGED <<purpose, files, req, cleaner>>
    BY <1>3 DEF saveReview
  <2>2. asset' \in [Images -> Record]
    BY <1>a, <1>b, <2>1 DEF queue
  <2>3. \A i \in Images : \/ i \in urls /\ asset'[i] = Attached(d)
                          \/ i \notin urls /\ asset'[i] = asset[i]
                          \/ i \notin urls /\ asset[i].entity = d /\ asset'[i] = Queued(i)
    BY <2>1 DEF queue
  <2> QED  BY <1>3, <2>1, <2>2, <2>3, SaveKeeps
<1>4. CASE deleteDocument(d) /\ purpose \in {"book", "review"}
  <2>1. /\ asset' = queue(d, {}) /\ shown' = [shown EXCEPT ![d] = Gone]
        /\ UNCHANGED <<purpose, files, req, cleaner>>
    BY <1>4 DEF deleteDocument
  <2>2. asset' \in [Images -> Record]
    BY <1>a, <2>1 DEF queue
  <2> DEFINE urls0 == {}
  <2>3. \A i \in Images : \/ i \in urls0 /\ asset'[i] = Attached(d)
                          \/ i \notin urls0 /\ asset'[i] = asset[i]
                          \/ i \notin urls0 /\ asset[i].entity = d /\ asset'[i] = Queued(i)
    BY <2>1 DEF queue
  <2>4. urls0 \in SUBSET Images /\ urls0 \subseteq Mine(d)
    OBVIOUS
  <2> HIDE DEF urls0
  <2> QED  BY <1>4, <2>1, <2>2, <2>3, <2>4, SaveKeeps
<1> QED  BY <1>2, <1>3, <1>4

(* No other request is about this document.                                *)
Alone(r, d) == \A q \in Requests \ {r} : req[q].at # "idle" => req[q].doc # d

(* A request for a return goes on: its images are its own.  The records    *)
(* that change are those of images it asked for that nobody else has.      *)
LEMMA ReturnGoesOn ==
    ASSUME AssetInv, NEW r \in Requests, NEW next \in Handler,
           req' = [req EXCEPT ![r] = next],
           UNCHANGED <<purpose, files, cleaner>>,
           asset' \in [Images -> Record],
           NEW d \in Documents,
           \A i \in Images : asset'[i] = asset[i] \/ asset[i].entity \in {Nil, d},
           \A i \in Images : Usable(i)' => Usable(i),
           \A i \in Images : asset'[i].status = "none" => asset[i].status = "none",
           shown' \in [Documents -> (SUBSET Images) \union {Nil, Gone}],
           \A e \in Documents \ {d} : shown'[e] = shown[e],
           Alone(r, d),
           next.at # "idle" => /\ purpose = "return" /\ next.doc = d /\ shown'[d] = Gone,
           next.at = "create" => \A i \in next.urls : asset'[i] = Attached(d),
           Keeps(d)'
    PROVE  AssetInv'
<1>1. AssetsTypeOK /\ FilesAreThere /\ ReturnsFiled
  BY DEF AssetInv
<1>2. /\ req' \in [Requests -> Handler] /\ req'[r] = next
      /\ \A q \in Requests \ {r} : req'[q] = req[q]
  BY <1>1 DEF AssetsTypeOK
<1>3. AssetsTypeOK'
  BY <1>1, <1>2 DEF AssetsTypeOK
<1>a. \A q \in Requests \ {r} : req[q].at # "idle" => req[q].doc # d
  BY DEF Alone
<1>4. FilesAreThere'
  BY <1>1 DEF FilesAreThere
<1>5. ASSUME NEW e \in Documents \ {d}, NEW i \in Images, asset[i] = Attached(e)
      PROVE  asset'[i] = asset[i]
  <2>1. asset[i].entity = e
    BY <1>5, AssetRecords
  <2> QED  BY <2>1, AssetsAssumption
<1>6. ReturnsFiled'
  <2>1. ASSUME NEW q \in Requests \ {r}, req[q].at # "idle"
        PROVE  /\ purpose = "return"
               /\ req[q].doc \in Documents \ {d} /\ shown'[req[q].doc] = Gone
               /\ \A p \in Requests : req'[p].at # "idle" /\ req'[p].doc = req[q].doc => p = q
               /\ req[q].at = "create" => \A i \in req[q].urls : asset'[i] = Attached(req[q].doc)
    <3>1. req[q].doc \in Documents \ {d} /\ purpose = "return"
      BY <1>1, <1>a, <2>1 DEF ReturnsFiled
    <3>2. shown'[req[q].doc] = Gone
      BY <1>1, <2>1, <3>1 DEF ReturnsFiled
    <3>3. \A p \in Requests : req'[p].at # "idle" /\ req'[p].doc = req[q].doc => p = q
      BY <1>1, <1>2, <1>a, <2>1, <3>1 DEF ReturnsFiled
    <3>4. ASSUME req[q].at = "create", NEW i \in req[q].urls PROVE asset'[i] = Attached(req[q].doc)
      <4>1. i \in Images /\ asset[i] = Attached(req[q].doc)
        BY <1>1, <3>4 DEF ReturnsFiled, AssetsTypeOK, Handler
      <4> QED  BY <1>5, <3>1, <4>1
    <3> QED  BY <3>1, <3>2, <3>3, <3>4
  <2>2. ASSUME NEW q \in Requests, req'[q].at # "idle"
        PROVE  /\ purpose = "return"
               /\ req'[q].doc \in Documents /\ shown'[req'[q].doc] = Gone
               /\ \A p \in Requests : req'[p].at # "idle" /\ req'[p].doc = req'[q].doc => p = q
    <3>1. CASE q = r
      BY <1>2, <1>a, <2>2, <3>1
    <3>2. CASE q # r
      BY <1>2, <2>1, <2>2, <3>2
    <3> QED  BY <3>1, <3>2
  <2>3. ASSUME NEW q \in Requests, req'[q].at = "create", NEW i \in req'[q].urls
        PROVE  asset'[i] = Attached(req'[q].doc)
    <3>1. CASE q = r
      BY <1>2, <2>3, <3>1
    <3>2. CASE q # r
      BY <1>2, <2>1, <2>3, <3>2
    <3> QED  BY <3>1, <3>2
  <2> QED  BY <2>2, <2>3 DEF ReturnsFiled, Attached
<1>7. ASSUME NEW e \in Documents PROVE Keeps(e)'
  <2>1. CASE e = d
    BY <2>1
  <2>2. CASE e # d /\ Stored(e)'
    <3>1. shown'[e] = shown[e] /\ \A i \in Images : asset[i] = Attached(e) => asset'[i] = asset[i]
      BY <1>5, <2>2
    <3> QED  BY <2>2, <3>1, OthersKeep
  <2>3. CASE ~Stored(e)'
    BY <2>3 DEF Keeps
  <2> QED  BY <2>1, <2>2, <2>3
<1> QED  BY <1>3, <1>4, <1>6, <1>7 DEF AssetInv

(* A return takes its images, is saved, or gives them back.                *)
LEMMA ReturnStep ==
    ASSUME AssetInv, NEW r \in Requests,
           \/ \E d \in Documents, urls \in SUBSET Images :
                 purpose = "return" /\ findCandidates(r, d, urls)
           \/ Request(r)
    PROVE  AssetInv'
<1>1. AssetsTypeOK /\ FilesAreThere /\ ReturnsFiled
  BY DEF AssetInv
<1>a. req[r] \in Handler /\ \A i \in Images : asset[i] \in Record
  BY <1>1 DEF AssetsTypeOK
<1>b. IdleRequest \in Handler /\ IdleRequest.at = "idle"
  BY AssetRecords
<1>c. \A e \in Documents : Keeps(e) /\ shown[e] \in (SUBSET Images) \union {Nil, Gone}
  BY <1>1 DEF AssetInv, AssetsTypeOK
<1>2. ASSUME NEW d \in Documents, NEW urls \in SUBSET Images, purpose = "return",
             findCandidates(r, d, urls)
      PROVE  AssetInv'
  <2> DEFINE next == [at |-> "claim", doc |-> d, urls |-> urls, legacy |-> {}]
  <2>1. /\ req' = [req EXCEPT ![r] = next] /\ shown' = [shown EXCEPT ![d] = Gone]
        /\ UNCHANGED <<purpose, files, asset, cleaner>> /\ shown[d] = Nil
    BY <1>2 DEF findCandidates, beginRequest, New
  <2>2. next \in Handler /\ next.at = "claim" /\ next.doc = d
    BY DEF Handler
  <2> HIDE DEF next
  <2>3. /\ shown'[d] = Gone /\ shown' \in [Documents -> (SUBSET Images) \union {Nil, Gone}]
        /\ \A e \in Documents \ {d} : shown'[e] = shown[e]
    BY <1>1, <2>1 DEF AssetsTypeOK
  <2>4. Keeps(d)'
    BY <2>3 DEF Keeps, Stored
  <2>5. Alone(r, d)
    BY <1>1, <2>1, AssetsAssumption DEF ReturnsFiled, Alone
  <2>6. asset' \in [Images -> Record] /\ \A i \in Images : Usable(i)' => Usable(i)
    BY <1>1, <2>1 DEF AssetsTypeOK, Usable
  <2> QED  BY <1>2, <2>1, <2>2, <2>3, <2>4, <2>5, <2>6, ReturnGoesOn
<1>3. ASSUME req[r].at # "idle"
      PROVE  LET d == req[r].doc
             IN  /\ d \in Documents /\ shown[d] = Gone /\ purpose = "return"
                 /\ Alone(r, d)
  BY <1>1, <1>3 DEF ReturnsFiled, Alone
<1>d. \A place \in {"create", "release"} :
          LET next == [req[r] EXCEPT !.at = place]
          IN  next \in Handler /\ next.at = place /\ next.doc = req[r].doc /\ next.urls = req[r].urls
  BY <1>a DEF Handler
<1>4. CASE claimAssets(r)
  <2>0. PICK d : d = req[r].doc
    OBVIOUS
  <2> DEFINE mine == req[r].urls \intersect Mine(d)
             place == IF req[r].urls \subseteq Mine(d) THEN "create" ELSE "release"
  <2>a. PICK next : next = [req[r] EXCEPT !.at = place]
    OBVIOUS
  <2>1. /\ asset' = [i \in Images |-> IF i \in mine THEN Attached(d) ELSE asset[i]]
        /\ req' = [req EXCEPT ![r] = next] /\ req[r].at = "claim"
        /\ UNCHANGED <<purpose, files, shown, cleaner>>
    BY <1>4, <2>0, <2>a DEF claimAssets, Goto
  <2>2. /\ d \in Documents /\ shown[d] = Gone /\ purpose = "return"
        /\ Alone(r, d)
    BY <1>3, <2>0, <2>1
  <2>3. next \in Handler /\ next.at = place /\ next.doc = d /\ next.urls = req[r].urls
    BY <1>d, <2>0, <2>a
  <2>4. Attached(d) \in Record /\ Attached(d).status = "attached"
    BY <2>2, AssetRecords
  <2>5. \A i \in mine : asset[i].entity \in {Nil, d} /\ Usable(i)
    BY DEF Mine, Usable
  <2>6. place = "create" => req[r].urls = mine
    OBVIOUS
  <2>b. req[r].urls \subseteq Images
    BY <1>a DEF Handler
  <2> HIDE DEF mine, place
  <2>7. asset' \in [Images -> Record]
    BY <1>a, <2>1, <2>4
  <2>8. /\ \A i \in Images : asset'[i] = asset[i] \/ asset[i].entity \in {Nil, d}
        /\ \A i \in Images : Usable(i)' => Usable(i)
        /\ \A i \in Images : asset'[i].status = "none" => asset[i].status = "none"
    BY <2>1, <2>4, <2>5 DEF Usable
  <2>9. next.at = "create" => \A i \in next.urls : asset'[i] = Attached(d)
    BY <2>1, <2>3, <2>6, <2>b
  <2>10. Keeps(d)'
    BY <2>1, <2>2 DEF Keeps, Stored
  <2>11. /\ shown' \in [Documents -> (SUBSET Images) \union {Nil, Gone}]
         /\ shown'[d] = Gone /\ \A e \in Documents \ {d} : shown'[e] = shown[e]
    BY <1>1, <2>1, <2>2 DEF AssetsTypeOK
  <2>12. next.at # "idle" => purpose = "return" /\ next.doc = d /\ shown'[d] = Gone
    BY <2>2, <2>3, <2>11
  <2>13. req' = [req EXCEPT ![r] = next] /\ UNCHANGED <<purpose, files, cleaner>>
    BY <2>1
  <2> QED  BY <2>2, <2>3, <2>7, <2>8, <2>9, <2>10, <2>11, <2>12, <2>13, ReturnGoesOn
<1>5. CASE createReturn(r)
  <2>0. PICK d : d = req[r].doc
    OBVIOUS
  <2> DEFINE urls == req[r].urls
  <2>1. /\ req[r].at = "create" /\ shown' = [shown EXCEPT ![d] = urls]
        /\ req' = [req EXCEPT ![r] = IdleRequest] /\ UNCHANGED <<purpose, files, asset, cleaner>>
    BY <1>5, <2>0 DEF createReturn, Finish
  <2>2. /\ d \in Documents /\ shown[d] = Gone /\ purpose = "return"
        /\ Alone(r, d)
    BY <1>3, <2>0, <2>1
  <2>3. urls \subseteq Images
    BY <1>a DEF Handler
  <2>4. \A i \in urls : asset[i] = Attached(d) /\ i \in files
    <3>1. \A i \in urls : asset[i] = Attached(d) /\ i \in Images
      BY <1>1, <2>0, <2>1, <2>3 DEF ReturnsFiled
    <3> QED  BY <1>1, <2>2, <3>1, AssetRecords DEF FilesAreThere, Usable
  <2> HIDE DEF urls
  <2>5. /\ shown'[d] = urls /\ shown' \in [Documents -> (SUBSET Images) \union {Nil, Gone}]
        /\ \A e \in Documents \ {d} : shown'[e] = shown[e]
    BY <1>1, <2>1, <2>2, <2>3 DEF AssetsTypeOK
  <2>6. Keeps(d)'
    BY <2>1, <2>4, <2>5 DEF Keeps, Attached
  <2>7. asset' \in [Images -> Record] /\ \A i \in Images : Usable(i)' => Usable(i)
    BY <1>1, <2>1 DEF AssetsTypeOK, Usable
  <2> QED  BY <1>b, <2>1, <2>2, <2>5, <2>6, <2>7, ReturnGoesOn
<1>6. CASE returnRefused(r)
  <2>0. PICK d : d = req[r].doc
    OBVIOUS
  <2>a. PICK next : next = [req[r] EXCEPT !.at = "release"]
    OBVIOUS
  <2>1. /\ req[r].at = "create" /\ req' = [req EXCEPT ![r] = next]
        /\ UNCHANGED <<purpose, files, asset, shown, cleaner>>
    BY <1>6, <2>a DEF returnRefused, Goto
  <2>2. /\ d \in Documents /\ shown[d] = Gone /\ purpose = "return"
        /\ Alone(r, d)
    BY <1>3, <2>0, <2>1
  <2>3. next \in Handler /\ next.at = "release" /\ next.doc = d
    BY <1>d, <2>0, <2>a
  <2>4. Keeps(d)'
    BY <2>1, <2>2 DEF Keeps, Stored
  <2>5. asset' \in [Images -> Record] /\ \A i \in Images : Usable(i)' => Usable(i)
    BY <1>1, <2>1 DEF AssetsTypeOK, Usable
  <2>6. /\ shown' \in [Documents -> (SUBSET Images) \union {Nil, Gone}]
        /\ shown'[d] = Gone /\ \A e \in Documents \ {d} : shown'[e] = shown[e]
    BY <1>1, <2>1, <2>2 DEF AssetsTypeOK
  <2>7. /\ \A i \in Images : asset'[i] = asset[i] \/ asset[i].entity \in {Nil, d}
        /\ \A i \in Images : asset'[i].status = "none" => asset[i].status = "none"
    BY <2>1
  <2>8. /\ next.at # "idle" => purpose = "return" /\ next.doc = d /\ shown'[d] = Gone
        /\ next.at = "create" => \A i \in next.urls : asset'[i] = Attached(d)
    BY <2>2, <2>3, <2>6
  <2>9. req' = [req EXCEPT ![r] = next] /\ UNCHANGED <<purpose, files, cleaner>>
    BY <2>1
  <2> QED  BY <2>2, <2>3, <2>4, <2>5, <2>6, <2>7, <2>8, <2>9, ReturnGoesOn
<1>7. CASE releaseClaims(r) \/ (requestDies(r) /\ req[r].at # "idle")
  <2>0. PICK d : d = req[r].doc
    OBVIOUS
  <2>1. /\ req[r].at # "idle" /\ req' = [req EXCEPT ![r] = IdleRequest]
        /\ UNCHANGED <<purpose, files, shown, cleaner>>
    BY <1>7 DEF releaseClaims, requestDies, Finish
  <2>2. /\ d \in Documents /\ shown[d] = Gone /\ purpose = "return"
        /\ Alone(r, d)
    BY <1>3, <2>0, <2>1
  <2>3. /\ asset' \in [Images -> Record]
        /\ \A i \in Images : asset'[i] = asset[i] \/ (asset[i] = Attached(d) /\ asset'[i] = Temporary)
    <3>1. CASE releaseClaims(r)
      BY <1>a, <2>0, <3>1, AssetRecords DEF releaseClaims
    <3>2. CASE asset' = asset
      BY <1>1, <3>2 DEF AssetsTypeOK
    <3> QED  BY <1>7, <3>1, <3>2 DEF requestDies
  <2>4. /\ \A i \in Images : asset'[i] = asset[i] \/ asset[i].entity \in {Nil, d}
        /\ \A i \in Images : Usable(i)' => Usable(i)
        /\ \A i \in Images : asset'[i].status = "none" => asset[i].status = "none"
    BY <2>2, <2>3, AssetRecords DEF Usable
  <2>5. Keeps(d)'
    BY <2>1, <2>2 DEF Keeps, Stored
  <2>6. /\ shown' \in [Documents -> (SUBSET Images) \union {Nil, Gone}]
        /\ shown'[d] = Gone /\ \A e \in Documents \ {d} : shown'[e] = shown[e]
    BY <1>1, <2>1, <2>2 DEF AssetsTypeOK
  <2> QED  BY <1>b, <2>1, <2>2, <2>3, <2>4, <2>5, <2>6, ReturnGoesOn
<1>8. CASE requestDies(r) /\ req[r].at = "idle"
  <2>1. UNCHANGED <<purpose, files, asset, shown, cleaner>> /\ req' = [req EXCEPT ![r] = IdleRequest]
    BY <1>8 DEF requestDies, Finish
  <2>2. /\ req' \in [Requests -> Handler]
        /\ \A q \in Requests : req'[q].at # "idle" => q # r /\ req'[q] = req[q]
    BY <1>1, <1>b, <2>1 DEF AssetsTypeOK
  <2>3. AssetsTypeOK' /\ FilesAreThere'
    BY <1>1, <2>1, <2>2 DEF AssetsTypeOK, FilesAreThere, Usable
  <2>4. ReturnsFiled'
    BY <1>1, <2>1, <2>2 DEF ReturnsFiled, Attached
  <2>5. \A e \in Documents : Keeps(e)'
    BY <1>c, <2>1 DEF Keeps, Stored, Attached
  <2> QED  BY <2>1, <2>3, <2>4, <2>5 DEF AssetInv
<1>9. ~(savePost(r) \/ findManaged(r) \/ attachManaged(r) \/ removeTicket(r))
  BY <1>a DEF savePost, findManaged, attachManaged, removeTicket, Handler
<1> QED  BY <1>2, <1>4, <1>5, <1>6, <1>7, <1>8, <1>9 DEF Request

(* Books, reviews and return requests never lose an image they show: what  *)
(* expires, is queued, claimed, deleted and released at the same time      *)
(* (assetLifecycleService and its job) is something else.                  *)
THEOREM UsedImagesAreKept ==
    AssetsSpec => []UsedImageIsKept
<1>1. AssetsInit /\ purpose \in Careful => AssetInv
  <2> SUFFICES ASSUME AssetsInit, purpose \in Careful PROVE AssetInv
    OBVIOUS
  <2>1. AssetsTypeOK /\ FilesAreThere /\ ReturnsFiled
    BY AssetRecords DEF AssetsInit, AssetsTypeOK, FilesAreThere, ReturnsFiled, Usable
  <2>2. \A d \in Documents : Keeps(d)
    BY DEF AssetsInit, Keeps, Stored
  <2> QED  BY <2>1, <2>2 DEF AssetInv
<1>2. AssetInv /\ [AssetsNext]_assetVars => AssetInv'
  <2> SUFFICES ASSUME AssetInv, [AssetsNext]_assetVars PROVE AssetInv'
    OBVIOUS
  <2>1. CASE Upload \/ CleanUp
    BY <2>1, UploadStep, CleanUpStep
  <2>2. ASSUME NEW d \in Documents, Document(d) PROVE AssetInv'
    BY <2>2, DocumentStep, ReturnStep DEF Document, AssetInv, Careful
  <2>3. ASSUME NEW r \in Requests, Request(r) PROVE AssetInv'
    BY <2>3, ReturnStep
  <2>4. CASE UNCHANGED assetVars
    BY <2>4 DEF assetVars, AssetInv, AssetsTypeOK, FilesAreThere, ReturnsFiled, Keeps, Stored,
                Usable, Attached
  <2> QED  BY <2>1, <2>2, <2>3, <2>4 DEF AssetsNext
<1>3. AssetInv => UsedImageIsKept
  BY DEF AssetInv, UsedImageIsKept
<1>4. purpose \notin Careful /\ [AssetsNext]_assetVars => purpose' \notin Careful
  <2>1. [AssetsNext]_assetVars => purpose' = purpose
    BY DEF AssetsNext, assetVars, Upload, CleanUp, Document, Request, Pass, storeImage,
           registerUploadedAsset, registrationFails, saveBook, saveReview, createPost,
           deleteDocument, readPost, savePost, findCandidates, claimAssets, createReturn,
           returnRefused, releaseClaims, createTicket, findManaged, attachManaged, removeTicket,
           requestDies, DateComes, claimDueAsset, deleteImage, deleteFails, finish, cleanerDies
  <2> QED  BY <2>1
<1>5. purpose \notin Careful => UsedImageIsKept
  BY DEF Careful, UsedImageIsKept
<1>6. (AssetInv \/ purpose \notin Careful) /\ [AssetsNext]_assetVars => (AssetInv \/ purpose \notin Careful)'
  BY <1>2, <1>4
<1>7. AssetsInit => AssetInv \/ purpose \notin Careful
  BY <1>1
<1>8. AssetInv \/ purpose \notin Careful => UsedImageIsKept
  BY <1>3, <1>5
<1> QED  BY <1>6, <1>7, <1>8, PTL DEF AssetsSpec

-----------------------------------------------------------------------------
(* Gifts.                                                                  *)

GiftRecord == [status : {"none", "listed", "deleted"}, active : BOOLEAN, stock : Nat, issued : Nat]
Editor == {IdleEditor} \union [at : {"put", "delete"}, gift : Gifts, seen : GiftRecord]

GiftsTypeOK ==
    /\ redeemed \in [Users -> [Gifts -> Nat]]
    /\ gift \in [Gifts -> GiftRecord]
    /\ editor \in [Editors -> Editor]

(* Nobody redeems or edits what was never there, so a new gift starts with *)
(* no redemptions, as its record says.                                     *)
NewIsUnredeemed ==
    \A g \in Gifts : gift[g].status = "none" =>
        /\ \A u \in Users : redeemed[u][g] = 0
        /\ \A e \in Editors : editor[e] # IdleEditor => editor[e].gift # g

(* What each user redeemed of a gift, and what all did.                    *)
Taken(g) == [u \in Users |-> redeemed[u][g]]

IssuedFits == \A g \in Gifts : gift[g].issued = Total(Users, Taken(g))

GiftInv == GiftsTypeOK /\ NewIsUnredeemed /\ IssuedFits

LEMMA NothingTaken ==
    ASSUME NEW f, \A u \in Users : f[u] = 0
    PROVE  Total(Users, f) = 0
<1>1. 1..0 = {}
  OBVIOUS
<1>2. Units(Users, f) = {}
  BY <1>1 DEF Units
<1> QED  BY <1>2, FS_EmptySet DEF Total

(* One redemption more.                                                    *)
LEMMA OneMoreTaken ==
    ASSUME IsFiniteSet(Users), NEW u \in Users, NEW f, NEW k,
           \A v \in Users : f[v] \in Nat /\ k[v] \in Nat,
           k[u] = f[u] + 1, \A v \in Users \ {u} : f[v] = k[v]
    PROVE  Total(Users, k) = Total(Users, f) + 1
<1>1. Total(Users, k) = Total(Users, f) - f[u] + k[u] /\ Total(Users, f) \in Nat
  BY TotalStep
<1> QED  BY <1>1

(* A step on one gift that changes no number of copies.                    *)
LEMMA CopiesStay ==
    ASSUME GiftInv, gift' \in [Gifts -> GiftRecord], redeemed' = redeemed,
           editor' \in [Editors -> Editor],
           \A g \in Gifts : /\ gift'[g].issued = gift[g].issued
                            /\ gift'[g].status = "none" => gift[g].status = "none",
           \A e \in Editors : editor'[e] \in {editor[e], IdleEditor}
    PROVE  GiftInv'
<1>1. GiftsTypeOK /\ NewIsUnredeemed /\ IssuedFits
  BY DEF GiftInv
<1>2. GiftsTypeOK'
  BY <1>1 DEF GiftsTypeOK
<1>3. NewIsUnredeemed'
  BY <1>1 DEF NewIsUnredeemed
<1>4. IssuedFits'
  BY <1>1 DEF IssuedFits, Taken
<1> QED  BY <1>2, <1>3, <1>4 DEF GiftInv

(* One more copy, and one more redemption of it.                           *)
LEMMA RedeemStep ==
    ASSUME GiftInv, NEW u \in Users, NEW g \in Gifts, redeemGift(u, g)
    PROVE  GiftInv'
<1>1. GiftsTypeOK /\ NewIsUnredeemed /\ IssuedFits
  BY DEF GiftInv
<1>a. PICK old \in GiftRecord : old = gift[g]
  BY <1>1 DEF GiftsTypeOK
<1>2. PICK r : r = [old EXCEPT !.issued = old.issued + 1]
  OBVIOUS
<1>3. PICK t : t = [redeemed[u] EXCEPT ![g] = redeemed[u][g] + 1]
  OBVIOUS
<1>4. /\ gift' = [gift EXCEPT ![g] = r] /\ redeemed' = [redeemed EXCEPT ![u] = t]
      /\ editor' = editor /\ gift[g].status = "listed"
  BY <1>a, <1>2, <1>3 DEF redeemGift, Claimable
<1>5. redeemed[u] \in [Gifts -> Nat]
  BY <1>1 DEF GiftsTypeOK
<1>b. r \in GiftRecord /\ r.status = old.status /\ r.issued = old.issued + 1 /\ old.issued \in Nat
  BY <1>2 DEF GiftRecord
<1>6. /\ r \in GiftRecord /\ r.status = "listed" /\ r.issued = gift[g].issued + 1
      /\ gift[g].issued \in Nat
  BY <1>a, <1>b, <1>4
<1>7. /\ t \in [Gifts -> Nat] /\ t[g] = redeemed[u][g] + 1
      /\ \A h \in Gifts \ {g} : t[h] = redeemed[u][h]
  BY <1>3, <1>5
<1>8. /\ gift' \in [Gifts -> GiftRecord] /\ gift'[g] = r
      /\ \A h \in Gifts \ {g} : gift'[h] = gift[h]
  BY <1>1, <1>4, <1>6 DEF GiftsTypeOK
<1>9. /\ redeemed' \in [Users -> [Gifts -> Nat]] /\ redeemed'[u] = t
      /\ \A v \in Users \ {u} : redeemed'[v] = redeemed[v]
  BY <1>1, <1>4, <1>7 DEF GiftsTypeOK
<1>10. GiftsTypeOK'
  BY <1>1, <1>4, <1>8, <1>9 DEF GiftsTypeOK
<1>11. NewIsUnredeemed'
  <2> SUFFICES ASSUME NEW h \in Gifts, gift'[h].status = "none"
               PROVE  /\ \A v \in Users : redeemed'[v][h] = 0
                      /\ \A e \in Editors : editor[e] # IdleEditor => editor[e].gift # h
    BY <1>4 DEF NewIsUnredeemed
  <2>1. h # g /\ gift[h].status = "none"
    BY <1>6, <1>8
  <2>2. \A v \in Users : redeemed'[v][h] = redeemed[v][h]
    BY <1>7, <1>9, <2>1
  <2> QED  BY <1>1, <2>1, <2>2 DEF NewIsUnredeemed
<1>12. IssuedFits'
  <2> SUFFICES ASSUME NEW h \in Gifts PROVE gift'[h].issued = Total(Users, Taken(h)')
    BY DEF IssuedFits
  <2>1. gift[h].issued = Total(Users, Taken(h))
    BY <1>1 DEF IssuedFits, Taken
  <2>2. \A v \in Users : Taken(h)[v] = redeemed[v][h] /\ Taken(h)'[v] = redeemed'[v][h]
    BY DEF Taken
  <2>3. CASE h = g
    <3>1. \A v \in Users : Taken(g)[v] \in Nat /\ Taken(g)'[v] \in Nat
      BY <1>1, <1>9, <2>2, <2>3 DEF GiftsTypeOK
    <3>2. /\ Taken(g)'[u] = Taken(g)[u] + 1
          /\ \A v \in Users \ {u} : Taken(g)[v] = Taken(g)'[v]
      BY <1>7, <1>9, <2>2, <2>3
    <3>3. IsFiniteSet(Users)
      BY LoyaltyAssumption
    <3>4. Total(Users, Taken(g)') = Total(Users, Taken(g)) + 1
      BY <3>1, <3>2, <3>3, OneMoreTaken
    <3> QED  BY <1>6, <1>8, <2>1, <2>3, <3>4
  <2>4. CASE h # g
    <3>1. \A v \in Users : Taken(h)[v] = Taken(h)'[v]
      BY <1>7, <1>9, <2>2, <2>4
    <3>2. Total(Users, Taken(h)) = Total(Users, Taken(h)')
      BY <3>1, TotalSame
    <3> QED  BY <1>8, <2>1, <2>4, <3>2
  <2> QED  BY <2>3, <2>4
<1> QED  BY <1>10, <1>11, <1>12 DEF GiftInv

(* A gift comes into the catalogue.                                        *)
LEMMA CreateStep ==
    ASSUME GiftInv, NEW g \in Gifts, NEW n \in Nat, createGift(g, n)
    PROVE  GiftInv'
<1>1. GiftsTypeOK /\ NewIsUnredeemed /\ IssuedFits
  BY DEF GiftInv
<1>2. PICK r : r = [status |-> "listed", active |-> TRUE, stock |-> n, issued |-> 0]
  OBVIOUS
<1>3. /\ gift' = [gift EXCEPT ![g] = r] /\ redeemed' = redeemed /\ editor' = editor
      /\ gift[g].status = "none"
  BY <1>2 DEF createGift
<1>4. r \in GiftRecord /\ r.status = "listed" /\ r.issued = 0
  BY <1>2 DEF GiftRecord
<1>5. /\ gift' \in [Gifts -> GiftRecord] /\ gift'[g] = r
      /\ \A h \in Gifts \ {g} : gift'[h] = gift[h]
  BY <1>1, <1>3, <1>4 DEF GiftsTypeOK
<1>6. gift[g].issued = 0
  <2>1. \A u \in Users : Taken(g)[u] = 0
    BY <1>1, <1>3 DEF NewIsUnredeemed, Taken
  <2>2. Total(Users, Taken(g)) = 0
    BY <2>1, NothingTaken
  <2> QED  BY <1>1, <2>2 DEF IssuedFits
<1>7. \A h \in Gifts : /\ gift'[h].issued = gift[h].issued
                       /\ gift'[h].status = "none" => gift[h].status = "none"
  BY <1>3, <1>4, <1>5, <1>6
<1> QED  BY <1>1, <1>3, <1>5, <1>7, CopiesStay DEF GiftsTypeOK

(* Staff read a gift that is there.                                        *)
LEMMA ReadStep ==
    ASSUME GiftInv, NEW e \in Editors, NEW g \in Gifts, NEW place \in {"put", "delete"},
           readGift(e, g, place)
    PROVE  GiftInv'
<1>1. GiftsTypeOK /\ NewIsUnredeemed /\ IssuedFits
  BY DEF GiftInv
<1>2. PICK n : n = [at |-> place, gift |-> g, seen |-> gift[g]]
  OBVIOUS
<1>3. /\ editor' = [editor EXCEPT ![e] = n] /\ gift' = gift /\ redeemed' = redeemed
      /\ gift[g].status = "listed"
  BY <1>2 DEF readGift
<1>4. n \in Editor /\ n.gift = g
  BY <1>1, <1>2 DEF Editor, GiftsTypeOK
<1>5. /\ editor' \in [Editors -> Editor] /\ editor'[e] = n
      /\ \A k \in Editors \ {e} : editor'[k] = editor[k]
  BY <1>1, <1>3, <1>4 DEF GiftsTypeOK
<1>6. GiftsTypeOK' /\ IssuedFits'
  BY <1>1, <1>3, <1>5 DEF GiftsTypeOK, IssuedFits, Taken
<1>7. NewIsUnredeemed'
  BY <1>1, <1>3, <1>4, <1>5 DEF NewIsUnredeemed
<1> QED  BY <1>6, <1>7 DEF GiftInv

(* What is saved over an older reading changes no number of copies.        *)
LEMMA SaveStep ==
    ASSUME GiftInv, NEW e \in Editors, editor[e].at \in {"put", "delete"},
           NEW new \in GiftRecord, new.issued = editor[e].seen.issued,
           new.status = editor[e].seen.status, save(e, new)
    PROVE  GiftInv'
<1>1. GiftsTypeOK /\ NewIsUnredeemed /\ IssuedFits
  BY DEF GiftInv
<1>2. editor[e] \in [at : {"put", "delete"}, gift : Gifts, seen : GiftRecord]
  BY <1>1 DEF GiftsTypeOK, Editor, IdleEditor
<1>3. PICK g \in Gifts : g = editor[e].gift
  BY <1>2
<1>4. PICK seen \in GiftRecord : seen = editor[e].seen
  BY <1>2
<1>5. PICK now \in GiftRecord : now = gift[g]
  BY <1>1 DEF GiftsTypeOK
<1>6. PICK r : r = IF Valid(new) THEN Merge(now, seen, new) ELSE now
  OBVIOUS
<1>7. /\ gift' = [gift EXCEPT ![g] = r] /\ redeemed' = redeemed
      /\ editor' = [editor EXCEPT ![e] = IdleEditor]
  BY <1>3, <1>4, <1>5, <1>6 DEF save
<1>8. r \in GiftRecord /\ r.issued = now.issued /\ r.status = now.status
  BY <1>4, <1>6 DEF Merge, GiftRecord
<1>9. /\ gift' \in [Gifts -> GiftRecord] /\ gift'[g] = r
      /\ \A h \in Gifts \ {g} : gift'[h] = gift[h]
  BY <1>1, <1>7, <1>8 DEF GiftsTypeOK
<1>10. \A h \in Gifts : /\ gift'[h].issued = gift[h].issued
                        /\ gift'[h].status = "none" => gift[h].status = "none"
  BY <1>5, <1>8, <1>9
<1>11. /\ editor' \in [Editors -> Editor]
       /\ \A k \in Editors : editor'[k] \in {editor[k], IdleEditor}
  BY <1>1, <1>7 DEF GiftsTypeOK, Editor
<1> QED  BY <1>7, <1>9, <1>10, <1>11, CopiesStay

(* Staff save a gift, or take it out of the catalogue.                     *)
LEMMA EditorStep ==
    ASSUME GiftInv, NEW e \in Editors,
           \/ \E active \in BOOLEAN, n \in Stocks : putGift(e, active, n)
           \/ deleteGift(e)
    PROVE  GiftInv'
<1>1. GiftsTypeOK
  BY DEF GiftInv
<1>2. editor[e].at \in {"put", "delete"}
  BY DEF putGift, deleteGift
<1>3. editor[e] \in [at : {"put", "delete"}, gift : Gifts, seen : GiftRecord]
  BY <1>1, <1>2 DEF GiftsTypeOK, Editor, IdleEditor
<1>4. PICK seen \in GiftRecord : seen = editor[e].seen
  BY <1>3
<1>5. ASSUME NEW active \in BOOLEAN, NEW n \in Stocks, putGift(e, active, n)
      PROVE  GiftInv'
  <2>1. PICK new : new = [seen EXCEPT !.active = active, !.stock = n]
    OBVIOUS
  <2>2. new \in GiftRecord /\ new.issued = seen.issued /\ new.status = seen.status
    BY <2>1, LoyaltyAssumption DEF GiftRecord
  <2>3. save(e, new)
    BY <1>4, <1>5, <2>1 DEF putGift
  <2> QED  BY <1>2, <1>4, <2>2, <2>3, SaveStep
<1>6. CASE deleteGift(e) /\ seen.issued > 0
  <2>1. PICK new : new = [seen EXCEPT !.active = FALSE]
    OBVIOUS
  <2>2. new \in GiftRecord /\ new.issued = seen.issued /\ new.status = seen.status
    BY <2>1 DEF GiftRecord
  <2>3. save(e, new)
    BY <1>4, <1>6, <2>1 DEF deleteGift
  <2> QED  BY <1>2, <1>4, <2>2, <2>3, SaveStep
<1>7. CASE deleteGift(e) /\ ~(seen.issued > 0)
  <2>1. PICK g \in Gifts : g = editor[e].gift
    BY <1>3
  <2>2. PICK r : r = [gift[g] EXCEPT !.status = "deleted"]
    OBVIOUS
  <2>3. /\ gift' = [gift EXCEPT ![g] = r] /\ redeemed' = redeemed
        /\ editor' = [editor EXCEPT ![e] = IdleEditor]
    BY <1>4, <1>7, <2>1, <2>2 DEF deleteGift
  <2>4. r \in GiftRecord /\ r.issued = gift[g].issued /\ r.status = "deleted"
    BY <1>1, <2>2 DEF GiftsTypeOK, GiftRecord
  <2>5. /\ gift' \in [Gifts -> GiftRecord] /\ gift'[g] = r
        /\ \A h \in Gifts \ {g} : gift'[h] = gift[h]
    BY <1>1, <2>3, <2>4 DEF GiftsTypeOK
  <2>6. \A h \in Gifts : /\ gift'[h].issued = gift[h].issued
                         /\ gift'[h].status = "none" => gift[h].status = "none"
    BY <2>4, <2>5
  <2>7. /\ editor' \in [Editors -> Editor]
        /\ \A k \in Editors : editor'[k] \in {editor[k], IdleEditor}
    BY <1>1, <2>3 DEF GiftsTypeOK, Editor
  <2> QED  BY <2>3, <2>5, <2>6, <2>7, CopiesStay
<1> QED  BY <1>5, <1>6, <1>7

(* No copy of a gift is issued that nobody redeemed, and none redeemed     *)
(* that was not counted, whatever staff save over it meanwhile: redeemGift *)
(* raises the number in the database, and the catalogue's handlers         *)
(* (loyaltyService's gifts) write only what they changed.                  *)
THEOREM IssuedAreRedeemed ==
    LoyaltySpec => []IssuedIsRedeemed
<1>1. LoyaltyInit => GiftInv
  <2> SUFFICES ASSUME LoyaltyInit PROVE GiftInv
    OBVIOUS
  <2>1. GiftsTypeOK
    BY DEF LoyaltyInit, GiftsTypeOK, GiftRecord, Editor
  <2>2. NewIsUnredeemed
    BY DEF LoyaltyInit, NewIsUnredeemed
  <2>3. IssuedFits
    <3> SUFFICES ASSUME NEW g \in Gifts PROVE gift[g].issued = Total(Users, Taken(g))
      BY DEF IssuedFits
    <3>1. gift[g].issued = 0 /\ \A u \in Users : Taken(g)[u] = 0
      BY DEF LoyaltyInit, Taken
    <3> QED  BY <3>1, NothingTaken
  <2> QED  BY <2>1, <2>2, <2>3 DEF GiftInv
<1>2. GiftInv /\ [LoyaltyNext]_loyaltyVars => GiftInv'
  <2> SUFFICES ASSUME GiftInv, [LoyaltyNext]_loyaltyVars PROVE GiftInv'
    OBVIOUS
  <2>1. ASSUME UNCHANGED <<gift, redeemed, editor>> PROVE GiftInv'
    BY <2>1 DEF GiftInv, GiftsTypeOK, NewIsUnredeemed, IssuedFits, Taken
  <2>2. CASE Catalogue
    <3>1. ASSUME NEW u \in Users, adjustPoints(u, Cost) \/ adjustPoints(u, -Cost) PROVE GiftInv'
      BY <2>1, <3>1 DEF adjustPoints
    <3>2. ASSUME NEW g \in Gifts, NEW n \in Stocks, createGift(g, n) PROVE GiftInv'
      BY <3>2, CreateStep, LoyaltyAssumption
    <3> QED  BY <2>2, <3>1, <3>2, RedeemStep, ReadStep, EditorStep DEF Catalogue
  <2>3. CASE Ladder \/ UNCHANGED loyaltyVars
    BY <2>1, <2>3 DEF Ladder, loyaltyVars, giftVars, deliver, leave, refundPart, tick,
                      recalculate, begin, readUser, recalcTier, recalcFails, DayPasses,
                      GraceEnds
  <2> QED  BY <2>2, <2>3 DEF LoyaltyNext
<1>3. GiftInv => IssuedIsRedeemed
  BY DEF GiftInv, IssuedFits, IssuedIsRedeemed, Taken
<1> QED  BY <1>1, <1>2, <1>3, PTL DEF LoyaltySpec

=============================================================================
