------------------------------ MODULE Sessions ------------------------------
(***************************************************************************)
(* Staff sessions: AuthService (login, refresh, logout), the guards of the *)
(* admin endpoints (JwtStrategy.validate, RolesGuard) and StaffService     *)
(* (create, update).  Every handler reads before it writes, and other      *)
(* handlers run between the two.                                           *)
(*                                                                         *)
(* A refresh token and the access token that goes with it are named by the *)
(* request that issued them.  Passwords are compared by the client: a      *)
(* wrong one ends a login and changes nothing.                             *)
(***************************************************************************)
EXTENDS Naturals, FiniteSets

CONSTANTS
  Staff,        \* accounts that exist or may be created
  Request,      \* HTTP requests
  InitialRole,  \* InitialRole[s]: the role of s at the start, or NoAccount
  NoAccount, Nobody

Role == {"OWNER_ADMIN", "CATALOG_MANAGER", "ORDER_OPERATOR"}

ASSUME SessionsAssumption ==
  /\ NoAccount \notin Role
  /\ Nobody \notin Staff \cup Request
  /\ InitialRole \in [Staff -> Role \cup {NoAccount}]

VARIABLES
  role,        \* role[s]: staff_users.role, or NoAccount
  active,      \* staff_users."isActive", as the set of active accounts
  holder,      \* holder[t]: "staffUserId" of token t, Nobody before it exists
  revoked,     \* tokens whose "revokedAt" is set
  expired,     \* tokens whose "expiresAt" has passed
  replacedBy,  \* replacedBy[t]: "replacedByTokenId"
  access,      \* tokens whose access token has not expired
  next,        \* next[r]: the next step of the handler of request r
  subject,     \* subject[r]: the account, or the token, that r is about
  actor,       \* actor[r]: the account the guards let in
  change,      \* change[r]: the body of a staff update
  login,       \* history. login[t]: the login that token t descends from
  loggedOut    \* history: logins one of whose tokens a logout revoked

staffVars == <<role, active>>
tokenVars == <<holder, revoked, expired, replacedBy, access, login>>
requestVars == <<next, subject, actor, change>>
sessionVars == <<staffVars, tokenVars, requestVars, loggedOut>>

Token == {t \in Request : holder[t] # Nobody}
Live == Token \ revoked
Owners == {s \in active : role[s] = "OWNER_ADMIN"}

(* UpdateStaffDto: a field that is absent is left as it is.                *)
Absent == "absent"
Change == [role : Role \cup {Absent}, isActive : {"true", "false", Absent}]

Proceed(r, to) == next' = [next EXCEPT ![r] = to]

-----------------------------------------------------------------------------
(* AuthService.  The password is compared between the two steps of login.  *)

CheckLogin(r, s) ==
  /\ next[r] = "start"
  /\ s \in active
  /\ subject' = [subject EXCEPT ![r] = s]
  /\ Proceed(r, "issue")
  /\ UNCHANGED <<staffVars, tokenVars, actor, change, loggedOut>>

(* issueTokenPair, for a request whose session began with login l.         *)
Issue(r, s, l) ==
  /\ holder' = [holder EXCEPT ![r] = s]
  /\ access' = access \cup {r}
  /\ login' = [login EXCEPT ![r] = l]

Login(r) ==
  /\ next[r] = "issue"
  /\ Issue(r, subject[r], r)
  /\ Proceed(r, "done")
  /\ UNCHANGED <<staffVars, revoked, expired, replacedBy, subject, actor,
                 change, loggedOut>>

CheckRefresh(r, t) ==
  /\ next[r] = "start"
  /\ t \in Live \ expired
  /\ holder[t] \in active
  /\ subject' = [subject EXCEPT ![r] = t]
  /\ Proceed(r, "redeem")
  /\ UNCHANGED <<staffVars, tokenVars, actor, change, loggedOut>>

(* Mistaken variant: the token is revoked whatever became of it since.     *)
RedeemAsRead(r) ==
  LET t == subject[r] IN
  /\ next[r] = "redeem"
  /\ revoked' = revoked \cup {t}
  /\ Issue(r, holder[t], login[t])
  /\ replacedBy' = [replacedBy EXCEPT ![t] = r]
  /\ Proceed(r, "done")
  /\ UNCHANGED <<staffVars, expired, subject, actor, change, loggedOut>>

(* The transaction of refresh: other writers of the row wait for its lock. *)
(* The account and the expiry are those read before it.                    *)
Redeem(r) ==
  LET t == subject[r] IN
  /\ next[r] = "redeem"
  /\ t \notin revoked
  /\ revoked' = revoked \cup {t}
  /\ Issue(r, holder[t], login[t])
  /\ replacedBy' = [replacedBy EXCEPT ![t] = r]
  /\ Proceed(r, "done")
  /\ UNCHANGED <<staffVars, expired, subject, actor, change, loggedOut>>

RedeemRefused(r) ==
  /\ next[r] = "redeem"
  /\ subject[r] \in revoked
  /\ Proceed(r, "done")
  /\ UNCHANGED <<staffVars, tokenVars, subject, actor, change, loggedOut>>

(* One conditional update.  The answer is the same when no row matched.    *)
Logout(r, t) ==
  /\ next[r] = "start"
  /\ t \in Live
  /\ revoked' = revoked \cup {t}
  /\ loggedOut' = loggedOut \cup {login[t]}
  /\ Proceed(r, "done")
  /\ UNCHANGED <<staffVars, holder, expired, replacedBy, access, login,
                 subject, actor, change>>

-----------------------------------------------------------------------------
(* JwtStrategy.validate reads the account behind the access token and      *)
(* RolesGuard compares its role: what the token says of either is ignored. *)
Guard(r, t) ==
  /\ next[r] = "start"
  /\ t \in access
  /\ holder[t] \in Owners
  /\ actor' = [actor EXCEPT ![r] = holder[t]]
  /\ Proceed(r, "handler")
  /\ UNCHANGED <<staffVars, tokenVars, subject, change, loggedOut>>

(* StaffService.create: "email" is unique, isActive is true by default.    *)
CreateStaff(r, s, newRole) ==
  /\ next[r] = "handler"
  /\ role[s] = NoAccount
  /\ role' = [role EXCEPT ![s] = newRole]
  /\ active' = active \cup {s}
  /\ Proceed(r, "done")
  /\ UNCHANGED <<tokenVars, subject, actor, change, loggedOut>>

(* Mistaken variant: only the own role is protected.                       *)
CheckUpdateOfRole(r, s, dto) ==
  /\ next[r] = "handler"
  /\ role[s] # NoAccount
  /\ s = actor[r] => dto.role \in {Absent, role[s]}
  /\ subject' = [subject EXCEPT ![r] = s]
  /\ change' = [change EXCEPT ![r] = dto]
  /\ Proceed(r, "write")
  /\ UNCHANGED <<staffVars, tokenVars, actor, loggedOut>>

(* StaffService.update up to its write: no one may deactivate or change    *)
(* the role of the account that asks.                                      *)
CheckUpdate(r, s, dto) ==
  /\ next[r] = "handler"
  /\ role[s] # NoAccount
  /\ s = actor[r] => /\ dto.isActive # "false"
                     /\ dto.role \in {Absent, role[s]}
  /\ subject' = [subject EXCEPT ![r] = s]
  /\ change' = [change EXCEPT ![r] = dto]
  /\ Proceed(r, "write")
  /\ UNCHANGED <<staffVars, tokenVars, actor, loggedOut>>

WriteUpdate(r) ==
  LET s == subject[r]
      dto == change[r]
  IN
  /\ next[r] = "write"
  /\ role' = [role EXCEPT ![s] = IF dto.role = Absent THEN @ ELSE dto.role]
  /\ active' = CASE dto.isActive = "true" -> active \cup {s}
                 [] dto.isActive = "false" -> active \ {s}
                 [] OTHER -> active
  /\ Proceed(r, "done")
  /\ UNCHANGED <<tokenVars, subject, actor, change, loggedOut>>

-----------------------------------------------------------------------------
(* The clock.                                                              *)

RefreshTokenExpires(t) ==
  /\ t \in Token \ expired
  /\ expired' = expired \cup {t}
  /\ UNCHANGED <<staffVars, holder, revoked, replacedBy, access, login,
                 requestVars, loggedOut>>

AccessTokenExpires(t) ==
  /\ t \in access
  /\ access' = access \ {t}
  /\ UNCHANGED <<staffVars, holder, revoked, expired, replacedBy, login,
                 requestVars, loggedOut>>

-----------------------------------------------------------------------------
SessionsInit ==
  /\ role = InitialRole
  /\ active = {s \in Staff : InitialRole[s] # NoAccount}
  /\ holder = [t \in Request |-> Nobody]
  /\ replacedBy = [t \in Request |-> Nobody]
  /\ login = [t \in Request |-> Nobody]
  /\ revoked = {} /\ expired = {} /\ access = {} /\ loggedOut = {}
  /\ next = [r \in Request |-> "start"]
  /\ subject = [r \in Request |-> Nobody]
  /\ actor = [r \in Request |-> Nobody]
  /\ change = [r \in Request |-> [role |-> Absent, isActive |-> Absent]]

SessionsNext ==
  \/ \E r \in Request : \E s \in Staff : CheckLogin(r, s)
  \/ \E r \in Request : \E t \in Token :
       CheckRefresh(r, t) \/ Logout(r, t) \/ Guard(r, t)
  \/ \E r \in Request : Login(r) \/ Redeem(r) \/ RedeemRefused(r)
  \/ \E r \in Request : \E s \in Staff : \E newRole \in Role :
       CreateStaff(r, s, newRole)
  \/ \E r \in Request : \E s \in Staff : \E dto \in Change :
       CheckUpdate(r, s, dto)
  \/ \E r \in Request : WriteUpdate(r)
  \/ \E t \in Token : RefreshTokenExpires(t) \/ AccessTokenExpires(t)

SessionsSpec == SessionsInit /\ [][SessionsNext]_sessionVars

-----------------------------------------------------------------------------
SessionsTypeOK ==
  /\ role \in [Staff -> Role \cup {NoAccount}]
  /\ active \subseteq Staff
  /\ holder \in [Request -> Staff \cup {Nobody}]
  /\ {replacedBy, login} \subseteq [Request -> Request \cup {Nobody}]
  /\ revoked \cup expired \cup access \cup loggedOut \subseteq Request
  /\ next \in [Request -> {"start", "issue", "redeem", "handler", "write", "done"}]
  /\ subject \in [Request -> Staff \cup Request \cup {Nobody}]
  /\ actor \in [Request -> Staff \cup {Nobody}]
  /\ change \in [Request -> Change]

(* A login never has two live tokens, however its tokens are redeemed,     *)
(* also at the same time: a session cannot be forked (the conditional      *)
(* update of refresh), and every redeemed token names its successor.  After*)
(* a logout that found the token live the login has none: a refresh that   *)
(* read the token before it comes too late.                                *)
OneLiveTokenPerLogin ==
  /\ \A t, u \in Live : login[t] = login[u] => t = u
  /\ \A t \in Live : login[t] \notin loggedOut
  /\ \A t \in Token : replacedBy[t] # Nobody =>
       t \in revoked /\ login[replacedBy[t]] = login[t]

(* An update that something overtook since its request was let in: who     *)
(* asks is no owner any more, or was none when the own role was compared.  *)
Overtaken(r) ==
  \/ actor[r] \notin Owners
  \/ subject[r] = actor[r] /\ change[r].role \notin {Absent, "OWNER_ADMIN"}

(* The shop loses its last active owner only to an update that was         *)
(* overtaken: an owner can neither deactivate nor demote the own account,  *)
(* so whoever is an owner from the guard to the write remains one.         *)
OwnerRemains ==
  [][Owners # {} /\ Owners' = {} =>
       \E r \in Request : next[r] = "write" /\ next'[r] = "done" /\ Overtaken(r)]_sessionVars

=============================================================================
