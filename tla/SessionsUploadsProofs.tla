------------------------ MODULE SessionsUploadsProofs ------------------------
(***************************************************************************)
(* Refresh tokens and owners, for any number of accounts and requests; and *)
(* files and the rows that name them, for any number of uploads of any     *)
(* kind, any cap and any number of failures.  The two have nothing to do   *)
(* with each other.                                                        *)
(*                                                                         *)
(* The live token of a login is the last of its chain: redeeming it makes  *)
(* it the last but one.  The induction needs that a token is issued once,  *)
(* by a request that ends with it (TokensAreIssuedOnce).                   *)
(*                                                                         *)
(* Uploads share the disk and nothing else, so the invariant is about one  *)
(* upload (Kept) and a step of another leaves it alone (Untouched).  The   *)
(* cap is about all designs together (Overlap): stored and in flight.      *)
(***************************************************************************)
EXTENDS Sessions, Uploads, FiniteSetTheorems, TLAPS

-----------------------------------------------------------------------------
(* Sessions                                                                *)

USE SessionsAssumption DEF SessionsAssumption

TokensAreIssuedOnce ==
  /\ \A t \in Token : next[t] = "done" /\ login[t] \in Token
  /\ revoked \subseteq Token /\ loggedOut \subseteq Token
  /\ \A t \in Request : replacedBy[t] # Nobody => t \in Token /\ replacedBy[t] \in Token

SubjectsAreKnown ==
  \A r \in Request :
    /\ next[r] = "issue" => subject[r] \in Staff
    /\ next[r] = "redeem" => subject[r] \in Token
    /\ next[r] \in {"handler", "write"} => actor[r] \in Staff
    /\ next[r] = "write" => subject[r] \in Staff

(* StaffService.update has compared the account with the one that asks.    *)
OwnAccountStaysActive ==
  \A r \in Request :
    next[r] = "write" /\ subject[r] = actor[r] => change[r].isActive # "false"

SessionsInv ==
  /\ SessionsTypeOK
  /\ TokensAreIssuedOnce
  /\ SubjectsAreKnown
  /\ OwnAccountStaysActive
  /\ OneLiveTokenPerLogin

-----------------------------------------------------------------------------
(* Types                                                                   *)

LEMMA SessionsStart == SessionsInit => SessionsInv
<1> SUFFICES ASSUME SessionsInit PROVE SessionsInv
  OBVIOUS
<1>1. Token = {}
  BY DEF SessionsInit, Token
<1>2. SessionsTypeOK
  BY DEF SessionsInit, SessionsTypeOK, Change, Absent
<1>3. TokensAreIssuedOnce /\ SubjectsAreKnown /\ OwnAccountStaysActive
  BY <1>1 DEF SessionsInit, TokensAreIssuedOnce, SubjectsAreKnown, OwnAccountStaysActive
<1>4. OneLiveTokenPerLogin
  BY <1>1 DEF OneLiveTokenPerLogin, Live
<1> QED
  BY <1>2, <1>3, <1>4 DEF SessionsInv

LEMMA SessionsTypeStep ==
  ASSUME SessionsInv, [SessionsNext]_sessionVars
  PROVE  SessionsTypeOK'
<1> USE DEF SessionsInv, SessionsTypeOK, Proceed
<1>1. ASSUME NEW r \in Request, NEW s \in Staff, CheckLogin(r, s)
      PROVE  SessionsTypeOK'
  BY <1>1 DEF CheckLogin, staffVars, tokenVars
<1>2. ASSUME NEW r \in Request, NEW t \in Token, CheckRefresh(r, t) \/ Logout(r, t) \/ Guard(r, t)
      PROVE  SessionsTypeOK'
  <2>1. t \in Request /\ holder[t] \in Staff
    BY DEF Token
  <2>2. CASE CheckRefresh(r, t)
    BY <2>1, <2>2 DEF CheckRefresh, staffVars, tokenVars
  <2>3. CASE Logout(r, t)
    <3>1. login[t] \in Request
      BY DEF TokensAreIssuedOnce, Token
    <3> QED
      BY <2>1, <2>3, <3>1 DEF Logout, staffVars
  <2>4. CASE Guard(r, t)
    BY <2>1, <2>4 DEF Guard, staffVars, tokenVars
  <2> QED
    BY <1>2, <2>2, <2>3, <2>4
<1>3. ASSUME NEW r \in Request, Login(r)
      PROVE  SessionsTypeOK'
  <2>1. subject[r] \in Staff
    BY <1>3 DEF Login, SubjectsAreKnown
  <2> QED
    BY <1>3, <2>1 DEF Login, Issue, staffVars
<1>4. ASSUME NEW r \in Request, Redeem(r)
      PROVE  SessionsTypeOK'
  <2>1. subject[r] \in Request /\ holder[subject[r]] \in Staff /\ login[subject[r]] \in Request
    BY <1>4 DEF Redeem, SubjectsAreKnown, TokensAreIssuedOnce, Token
  <2> QED
    BY <1>4, <2>1 DEF Redeem, Issue, staffVars
<1>5. ASSUME NEW r \in Request, RedeemRefused(r)
      PROVE  SessionsTypeOK'
  BY <1>5 DEF RedeemRefused, staffVars, tokenVars
<1>6. ASSUME NEW r \in Request, NEW s \in Staff, NEW newRole \in Role, CreateStaff(r, s, newRole)
      PROVE  SessionsTypeOK'
  BY <1>6 DEF CreateStaff, tokenVars
<1>7. ASSUME NEW r \in Request, NEW s \in Staff, NEW dto \in Change, CheckUpdate(r, s, dto)
      PROVE  SessionsTypeOK'
  BY <1>7 DEF CheckUpdate, staffVars, tokenVars
<1>8. ASSUME NEW r \in Request, WriteUpdate(r)
      PROVE  SessionsTypeOK'
  <2>1. subject[r] \in Staff /\ change[r] \in Change
    BY <1>8 DEF WriteUpdate, SubjectsAreKnown
  <2>2. role' \in [Staff -> Role \cup {NoAccount}]
    BY <1>8, <2>1 DEF WriteUpdate, Change
  <2>3. active' \subseteq Staff
    BY <1>8, <2>1 DEF WriteUpdate
  <2> QED
    BY <1>8, <2>2, <2>3 DEF WriteUpdate, tokenVars
<1>9. ASSUME NEW t \in Token, RefreshTokenExpires(t) \/ AccessTokenExpires(t)
      PROVE  SessionsTypeOK'
  BY <1>9 DEF RefreshTokenExpires, AccessTokenExpires, Token, staffVars, requestVars
<1>10. CASE UNCHANGED sessionVars
  BY <1>10 DEF sessionVars, staffVars, tokenVars, requestVars
<1> QED
  BY <1>1, <1>2, <1>3, <1>4, <1>5, <1>6, <1>7, <1>8, <1>9, <1>10 DEF SessionsNext

-----------------------------------------------------------------------------
(* Tokens                                                                  *)

LEMMA SubjectsStep ==
  ASSUME SessionsInv, [SessionsNext]_sessionVars
  PROVE  SubjectsAreKnown' /\ OwnAccountStaysActive'
<1> USE DEF SessionsInv, SessionsTypeOK, SubjectsAreKnown, OwnAccountStaysActive, Proceed, Token
<1>1. ASSUME NEW r \in Request, NEW s \in Staff, CheckLogin(r, s)
      PROVE  SubjectsAreKnown' /\ OwnAccountStaysActive'
  BY <1>1 DEF CheckLogin, tokenVars
<1>2. ASSUME NEW r \in Request, NEW t \in Token, CheckRefresh(r, t) \/ Logout(r, t) \/ Guard(r, t)
      PROVE  SubjectsAreKnown' /\ OwnAccountStaysActive'
  <2>1. CASE CheckRefresh(r, t)
    BY <2>1 DEF CheckRefresh, tokenVars
  <2>2. CASE Logout(r, t)
    BY <2>2 DEF Logout
  <2>3. CASE Guard(r, t)
    BY <2>3 DEF Guard, Owners, tokenVars
  <2> QED
    BY <1>2, <2>1, <2>2, <2>3
<1>3. ASSUME NEW r \in Request, Login(r)
      PROVE  SubjectsAreKnown' /\ OwnAccountStaysActive'
  BY <1>3 DEF Login, Issue
<1>4. ASSUME NEW r \in Request, Redeem(r)
      PROVE  SubjectsAreKnown' /\ OwnAccountStaysActive'
  BY <1>4 DEF Redeem, Issue
<1>5. ASSUME NEW r \in Request, RedeemRefused(r)
      PROVE  SubjectsAreKnown' /\ OwnAccountStaysActive'
  BY <1>5 DEF RedeemRefused, tokenVars
<1>6. ASSUME NEW r \in Request, NEW s \in Staff, NEW newRole \in Role, CreateStaff(r, s, newRole)
      PROVE  SubjectsAreKnown' /\ OwnAccountStaysActive'
  BY <1>6 DEF CreateStaff, tokenVars
<1>7. ASSUME NEW r \in Request, NEW s \in Staff, NEW dto \in Change, CheckUpdate(r, s, dto)
      PROVE  SubjectsAreKnown' /\ OwnAccountStaysActive'
  BY <1>7 DEF CheckUpdate, tokenVars
<1>8. ASSUME NEW r \in Request, WriteUpdate(r)
      PROVE  SubjectsAreKnown' /\ OwnAccountStaysActive'
  BY <1>8 DEF WriteUpdate, tokenVars
<1>9. ASSUME NEW t \in Token, RefreshTokenExpires(t) \/ AccessTokenExpires(t)
      PROVE  SubjectsAreKnown' /\ OwnAccountStaysActive'
  BY <1>9 DEF RefreshTokenExpires, AccessTokenExpires, requestVars
<1>10. CASE UNCHANGED sessionVars
  BY <1>10 DEF sessionVars, tokenVars, requestVars
<1> QED
  BY <1>1, <1>2, <1>3, <1>4, <1>5, <1>6, <1>7, <1>8, <1>9, <1>10 DEF SessionsNext

(* A request that has not ended is no token yet.                           *)
LEMMA NotYetAToken ==
  ASSUME SessionsInv, NEW r \in Request, next[r] # "done"
  PROVE  r \notin Token /\ r \notin revoked /\ r \notin loggedOut /\ replacedBy[r] = Nobody
BY DEF SessionsInv, TokensAreIssuedOnce

(* Login starts a chain under a name that no token has.                    *)
LEMMA LoginKeepsTokens ==
  ASSUME SessionsInv, NEW r \in Request, Login(r)
  PROVE  TokensAreIssuedOnce' /\ OneLiveTokenPerLogin'
<1> USE DEF SessionsInv, SessionsTypeOK
<1>1. next[r] # "done" /\ subject[r] \in Staff
  BY DEF Login, SubjectsAreKnown
<1>2. r \notin Token /\ r \notin revoked /\ r \notin loggedOut /\ replacedBy[r] = Nobody
  BY <1>1, NotYetAToken
<1>3. Token' = Token \cup {r}
  BY <1>1 DEF Login, Issue, Token
<1>4. \A t \in Token : t # r /\ login'[t] = login[t] /\ login[t] \in Token
  BY <1>2 DEF Login, Issue, TokensAreIssuedOnce, Token
<1>5. login'[r] = r
  BY DEF Login, Issue
<1>6. UNCHANGED <<revoked, replacedBy, loggedOut>>
  BY DEF Login
<1>7. TokensAreIssuedOnce'
  BY <1>2, <1>3, <1>4, <1>5, <1>6 DEF Login, Proceed, TokensAreIssuedOnce
<1>8. Live' = Live \cup {r}
  BY <1>2, <1>3, <1>6 DEF Live
<1>9. OneLiveTokenPerLogin'
  <2>1. \A t \in Live : t \in Token
    BY DEF Live
  <2>2. \A t \in Token : replacedBy[t] # Nobody => replacedBy[t] \in Token
    BY DEF TokensAreIssuedOnce, Token
  <2> QED
    BY <1>2, <1>3, <1>4, <1>5, <1>6, <1>8, <2>1, <2>2 DEF OneLiveTokenPerLogin
<1> QED
  BY <1>7, <1>9

(* The conditional update finds the token live: its successor takes its    *)
(* place, for a login that no logout has ended.                            *)
LEMMA RedeemKeepsTokens ==
  ASSUME SessionsInv, NEW r \in Request, Redeem(r)
  PROVE  TokensAreIssuedOnce' /\ OneLiveTokenPerLogin'
<1> USE DEF SessionsInv, SessionsTypeOK
<1> DEFINE old == subject[r]
<1>1. next[r] # "done" /\ old \in Live
  BY DEF Redeem, SubjectsAreKnown, Live
<1>2. r \notin Token /\ r \notin revoked /\ r \notin loggedOut /\ replacedBy[r] = Nobody
  BY <1>1, NotYetAToken
<1>3. Token' = Token \cup {r}
  <2>1. holder[old] \in Staff
    BY <1>1 DEF Live, Token
  <2> QED
    BY <2>1 DEF Redeem, Issue, Token
<1>4. \A t \in Token : t # r /\ login'[t] = login[t] /\ login[t] \in Token
  BY <1>2 DEF Redeem, Issue, TokensAreIssuedOnce, Token
<1>5. login'[r] = login[old]
  BY DEF Redeem, Issue
<1>6. /\ revoked' = revoked \cup {old}
      /\ replacedBy' = [replacedBy EXCEPT ![old] = r]
      /\ loggedOut' = loggedOut
      /\ next' = [next EXCEPT ![r] = "done"]
  BY DEF Redeem, Proceed
<1>7. old \in Token /\ old \in Request /\ old # r
  BY <1>1, <1>2 DEF Live, Token
<1> HIDE DEF old
<1>8. \A t \in Request : replacedBy'[t] = IF t = old THEN r ELSE replacedBy[t]
  BY <1>6
<1>9. TokensAreIssuedOnce'
  BY <1>2, <1>3, <1>4, <1>5, <1>6, <1>7, <1>8 DEF TokensAreIssuedOnce
<1>10. Live' = (Live \ {old}) \cup {r}
  BY <1>2, <1>3, <1>6, <1>7 DEF Live
<1>11. OneLiveTokenPerLogin'
  <2>1. \A t \in Live : t \in Token /\ t \in Request
    BY DEF Live, Token
  <2>2. \A t \in Token : replacedBy[t] # Nobody => replacedBy[t] \in Token
    BY DEF TokensAreIssuedOnce, Token
  <2>3. \A t, u \in Live' : login'[t] = login'[u] => t = u
    BY <1>1, <1>4, <1>5, <1>10, <2>1 DEF OneLiveTokenPerLogin
  <2>4. \A t \in Live' : login'[t] \notin loggedOut'
    BY <1>1, <1>4, <1>5, <1>6, <1>10, <2>1 DEF OneLiveTokenPerLogin
  <2>5. ASSUME NEW t \in Token', replacedBy'[t] # Nobody
        PROVE  t \in revoked' /\ login'[replacedBy'[t]] = login'[t]
    <3>1. t \in Request
      BY <1>3 DEF Token
    <3>2. CASE t = old
      BY <1>4, <1>5, <1>6, <1>7, <1>8, <3>2
    <3>3. CASE t # old
      <4>1. t \in Token /\ replacedBy[t] # Nobody /\ replacedBy'[t] = replacedBy[t]
        BY <1>2, <1>3, <1>8, <2>5, <3>1, <3>3
      <4> QED
        BY <1>4, <1>6, <2>2, <4>1 DEF OneLiveTokenPerLogin
    <3> QED
      BY <3>2, <3>3
  <2> QED
    BY <2>3, <2>4, <2>5 DEF OneLiveTokenPerLogin
<1> QED
  BY <1>9, <1>11

LEMMA LogoutKeepsTokens ==
  ASSUME SessionsInv, NEW r \in Request, NEW t \in Token, Logout(r, t)
  PROVE  TokensAreIssuedOnce' /\ OneLiveTokenPerLogin'
<1> USE DEF SessionsInv, SessionsTypeOK
<1>1. Token' = Token
  BY DEF Logout, Token
<1>2. t \in Live /\ Live' = Live \ {t} /\ loggedOut' = loggedOut \cup {login[t]}
  BY <1>1 DEF Logout, Live
<1>3. TokensAreIssuedOnce'
  BY <1>1, <1>2 DEF Logout, Proceed, TokensAreIssuedOnce
<1>4. OneLiveTokenPerLogin'
  BY <1>1, <1>2 DEF Logout, OneLiveTokenPerLogin
<1> QED
  BY <1>3, <1>4

LEMMA OthersKeepTokens ==
  ASSUME SessionsInv, UNCHANGED <<holder, revoked, replacedBy, login, loggedOut>>,
         \A t \in Token : next[t] = "done" => next'[t] = "done"
  PROVE  TokensAreIssuedOnce' /\ OneLiveTokenPerLogin'
<1>1. Token' = Token /\ Live' = Live
  BY DEF Token, Live
<1> QED
  BY <1>1 DEF SessionsInv, TokensAreIssuedOnce, OneLiveTokenPerLogin

LEMMA TokensStep ==
  ASSUME SessionsInv, [SessionsNext]_sessionVars
  PROVE  TokensAreIssuedOnce' /\ OneLiveTokenPerLogin'
<1>1. next \in [Request -> {"start", "issue", "redeem", "handler", "write", "done"}]
  BY DEF SessionsInv, SessionsTypeOK
<1>2. ASSUME NEW r \in Request, NEW s \in Staff,
             \/ CheckLogin(r, s)
             \/ \E newRole \in Role : CreateStaff(r, s, newRole)
             \/ \E dto \in Change : CheckUpdate(r, s, dto)
      PROVE  TokensAreIssuedOnce' /\ OneLiveTokenPerLogin'
  BY <1>1, <1>2, OthersKeepTokens DEF CheckLogin, CreateStaff, CheckUpdate, Proceed, Token, tokenVars
<1>3. ASSUME NEW r \in Request, NEW t \in Token, CheckRefresh(r, t) \/ Guard(r, t)
      PROVE  TokensAreIssuedOnce' /\ OneLiveTokenPerLogin'
  BY <1>1, <1>3, OthersKeepTokens DEF CheckRefresh, Guard, Proceed, Token, tokenVars
<1>4. ASSUME NEW r \in Request, RedeemRefused(r) \/ WriteUpdate(r)
      PROVE  TokensAreIssuedOnce' /\ OneLiveTokenPerLogin'
  BY <1>1, <1>4, OthersKeepTokens DEF RedeemRefused, WriteUpdate, Proceed, Token, tokenVars
<1>5. ASSUME NEW t \in Token, RefreshTokenExpires(t) \/ AccessTokenExpires(t)
      PROVE  TokensAreIssuedOnce' /\ OneLiveTokenPerLogin'
  BY <1>5, OthersKeepTokens DEF RefreshTokenExpires, AccessTokenExpires, requestVars
<1>6. CASE UNCHANGED sessionVars
  BY <1>6, OthersKeepTokens DEF sessionVars, tokenVars, requestVars
<1> QED
  BY <1>2, <1>3, <1>4, <1>5, <1>6, LoginKeepsTokens, RedeemKeepsTokens, LogoutKeepsTokens
     DEF SessionsNext

LEMMA SessionsInvariant == SessionsSpec => []SessionsInv
<1>1. SessionsInv /\ [SessionsNext]_sessionVars => SessionsInv'
  BY SessionsTypeStep, SubjectsStep, TokensStep DEF SessionsInv
<1> QED
  BY <1>1, SessionsStart, PTL DEF SessionsSpec

(* A session of AuthService is never forked and never outlives its logout, *)
(* however many requests redeem one of its tokens at the same time.        *)
THEOREM LoginsAlwaysHaveOneLiveToken == SessionsSpec => []OneLiveTokenPerLogin
BY SessionsInvariant, PTL DEF SessionsInv

-----------------------------------------------------------------------------
(* Owners                                                                  *)

(* Whoever asks and is an owner from the guard to the write remains one.   *)
LEMMA OwnersOutliveTheirUpdates ==
  ASSUME SessionsInv, NEW r \in Request, WriteUpdate(r), ~Overtaken(r)
  PROVE  actor[r] \in Owners'
<1> USE DEF SessionsInv, SessionsTypeOK
<1>1. /\ actor[r] \in Owners
      /\ subject[r] = actor[r] => /\ change[r].role \in {Absent, "OWNER_ADMIN"}
                                  /\ change[r].isActive # "false"
  BY DEF Overtaken, OwnAccountStaysActive, WriteUpdate
<1>2. actor[r] \in active /\ actor[r] \in Staff /\ role[actor[r]] = "OWNER_ADMIN"
  BY <1>1 DEF Owners
<1>3. actor[r] \in active'
  BY <1>1, <1>2 DEF WriteUpdate
<1>4. role'[actor[r]] = "OWNER_ADMIN"
  BY <1>1, <1>2 DEF WriteUpdate
<1> QED
  BY <1>3, <1>4 DEF Owners

(* StaffService loses the last owner only to an update that something      *)
(* overtook: the checks of update are sound for all that run alone.        *)
THEOREM OwnersAlwaysRemain == SessionsSpec => OwnerRemains
<1> DEFINE Remains ==
      Owners # {} /\ Owners' = {} =>
        \E r \in Request : next[r] = "write" /\ next'[r] = "done" /\ Overtaken(r)
<1>1. ASSUME SessionsInv, [SessionsNext]_sessionVars
      PROVE  Remains
  <2>1. ASSUME NEW r \in Request, WriteUpdate(r)
        PROVE  Remains
    <3>1. next[r] = "write" /\ next'[r] = "done"
      BY <1>1, <2>1 DEF WriteUpdate, Proceed, SessionsInv, SessionsTypeOK
    <3> QED
      BY <1>1, <2>1, <3>1, OwnersOutliveTheirUpdates
  <2>2. ASSUME NEW r \in Request, NEW s \in Staff, NEW newRole \in Role,
               CreateStaff(r, s, newRole)
        PROVE  Owners \subseteq Owners'
    <3>1. role[s] # "OWNER_ADMIN"
      BY <2>2 DEF CreateStaff, Role
    <3> QED
      BY <1>1, <2>2, <3>1 DEF CreateStaff, Owners, SessionsInv, SessionsTypeOK
  <2>3. UNCHANGED staffVars => Owners' = Owners
    BY DEF staffVars, Owners
  <2>4. UNCHANGED sessionVars => UNCHANGED staffVars
    BY DEF sessionVars
  <2> QED
    BY <1>1, <2>1, <2>2, <2>3, <2>4 DEF SessionsNext, CheckLogin, CheckRefresh, Logout, Guard, Login,
       Redeem, RedeemRefused, CheckUpdate, RefreshTokenExpires, AccessTokenExpires
<1>2. SessionsInv /\ [SessionsNext]_sessionVars => [Remains]_sessionVars
  BY <1>1
<1> QED
  BY <1>2, SessionsInvariant, PTL DEF SessionsSpec, OwnerRemains

-----------------------------------------------------------------------------
(* Uploads                                                                 *)

USE UploadsAssumption DEF UploadsAssumption

OnDisk(u) == FilesOf(u) \cap disk

(* Where each step of the handler leaves the files of its upload.          *)
NotYetStored(u) ==
  pc[u] \in {"start", "frame", "save", "insert"} =>
    /\ row[u] = "NONE" /\ removal[u] = "none"
    /\ OnDisk(u) = Saved(u)
    /\ FilesOf(u) \cap partial = {}

FilesWritten(u) ==
  /\ pc[u] \in {"start", "frame"} => written[u] = 0
  /\ pc[u] = "save" => written[u] < Len(Files(u))
  /\ pc[u] = "insert" => written[u] = Len(Files(u))

(* What is still to be removed covers what is left on the disk.            *)
Removed(u) ==
  /\ toRemove[u] \subseteq FilesOf(u)
  /\ pc[u] = "cleanup" => removal[u] = "none" /\ (row[u] = "STORED" => u \in excused)
  /\ pc[u] = "cleanup" \/ removal[u] = "unlink" =>
       u \in excused \/ OnDisk(u) \subseteq toRemove[u]

Deleted(u) ==
  /\ removal[u] # "none" => pc[u] = "done"
  /\ removal[u] = "found" => row[u] = "STORED"
  /\ removal[u] \in {"unlink", "done"} => row[u] = "DELETED"

Settled(u) ==
  pc[u] = "done" /\ u \notin excused =>
    /\ row[u] = "STORED" => FilesOf(u) \subseteq disk \ partial
    /\ row[u] # "STORED" /\ removal[u] # "unlink" => OnDisk(u) = {}

Kept(u) == NotYetStored(u) /\ FilesWritten(u) /\ Removed(u) /\ Deleted(u) /\ Settled(u)

StoredDesigns == {u \in Designs : row[u] = "STORED"}

(* A design was let in below the cap, and no more than peak were then on   *)
(* their way.                                                              *)
Overlap ==
  /\ Cardinality(InFlight) <= peak
  /\ Cardinality(StoredDesigns \cup InFlight) < MaxPerCart + peak

KeptInv == UploadsTypeOK /\ \A u \in Upload : Kept(u)

UploadsInv == KeptInv /\ Overlap

-----------------------------------------------------------------------------
(* Files                                                                   *)

(* An upload brings one to three files.                                    *)
LEMMA FilesType ==
  ASSUME NEW u \in Upload
  PROVE  DOMAIN Files(u) = 1 .. Len(Files(u)) /\ Len(Files(u)) \in Nat \ {0}
<1>1. Files(u) \in {<<"main">>, <<"original", "main">>, <<"original", "print", "preview">>}
  BY DEF Files, Kind
<1>2. /\ DOMAIN <<"main">> = 1 .. 1 /\ Len(<<"main">>) = 1
      /\ DOMAIN <<"original", "main">> = 1 .. 2 /\ Len(<<"original", "main">>) = 2
      /\ DOMAIN <<"original", "print", "preview">> = 1 .. 3
      /\ Len(<<"original", "print", "preview">>) = 3
  OBVIOUS
<1> QED
  BY <1>1, <1>2

(* Files are named by their upload.                                        *)
LEMMA FilesDisjoint ==
  ASSUME NEW u \in Upload, NEW v \in Upload, u # v
  PROVE  FilesOf(u) \cap FilesOf(v) = {}
BY DEF FilesOf

(* Before the first file nothing is saved, and after the last all is.      *)
LEMMA SavedBounds ==
  ASSUME NEW u \in Upload, written[u] \in Nat
  PROVE  /\ written[u] = 0 => Saved(u) = {}
         /\ written[u] = Len(Files(u)) => Saved(u) = FilesOf(u)
         /\ written[u] <= Len(Files(u)) => Saved(u) \subseteq FilesOf(u)
<1>1. DOMAIN Files(u) = 1 .. Len(Files(u)) /\ Len(Files(u)) \in Nat
  BY FilesType
<1>2. written[u] = 0 => 1 .. written[u] = {}
  OBVIOUS
<1>3. written[u] <= Len(Files(u)) => 1 .. written[u] \subseteq 1 .. Len(Files(u))
  BY <1>1
<1> QED
  BY <1>1, <1>2, <1>3 DEF Saved, FilesOf

(* The next file joins those that are saved.                               *)
LEMMA SavedNext ==
  ASSUME NEW u \in Upload, written[u] \in Nat, written[u] < Len(Files(u)),
         written'[u] = written[u] + 1
  PROVE  /\ <<u, Files(u)[written[u] + 1]>> \in FilesOf(u)
         /\ Saved(u)' = Saved(u) \cup {<<u, Files(u)[written[u] + 1]>>}
<1>1. DOMAIN Files(u) = 1 .. Len(Files(u)) /\ Len(Files(u)) \in Nat
  BY FilesType
<1>2. written[u] + 1 \in 1 .. Len(Files(u))
  BY <1>1
<1>3. 1 .. (written[u] + 1) = 1 .. written[u] \cup {written[u] + 1}
  OBVIOUS
<1> QED
  BY <1>1, <1>2, <1>3 DEF Saved, FilesOf

(* An upload that a step does not touch keeps what it had.                 *)
LEMMA Untouched ==
  ASSUME NEW u \in Upload, Kept(u),
         pc'[u] = pc[u], row'[u] = row[u], removal'[u] = removal[u],
         written'[u] = written[u], toRemove'[u] = toRemove[u],
         u \in excused' <=> u \in excused,
         FilesOf(u) \cap disk' = FilesOf(u) \cap disk,
         FilesOf(u) \cap partial' = FilesOf(u) \cap partial
  PROVE  Kept(u)'
<1>1. OnDisk(u)' = OnDisk(u) /\ Saved(u)' = Saved(u)
  BY DEF OnDisk, Saved, FilesOf
<1>2. NotYetStored(u)'
  BY <1>1 DEF Kept, NotYetStored, FilesOf
<1>3. FilesWritten(u)' /\ Deleted(u)'
  BY DEF Kept, FilesWritten, Deleted, Files
<1>4. Removed(u)'
  BY <1>1 DEF Kept, Removed, FilesOf
<1>5. Settled(u)'
  BY <1>1 DEF Kept, Settled, FilesOf, OnDisk
<1> QED
  BY <1>2, <1>3, <1>4, <1>5 DEF Kept

-----------------------------------------------------------------------------
(* Types                                                                   *)

LEMMA UploadsInitType == Init => UploadsTypeOK
BY DEF Init, UploadsTypeOK

LEMMA UploadsStepType ==
  ASSUME UploadsTypeOK, \A u \in Upload : FilesWritten(u), [Next]_vars
  PROVE  UploadsTypeOK'
<1> USE DEF UploadsTypeOK, Goto, rowVars, diskVars, Excuse
<1> DEFINE AllFiles == UNION {FilesOf(u) : u \in Upload}
<1>1. ASSUME NEW u \in Upload
      PROVE  FilesOf(u) \subseteq AllFiles
  OBVIOUS
<1>2. ASSUME NEW u \in Upload, pc[u] \in {"save", "insert"}
      PROVE  Saved(u) \subseteq AllFiles
  <2>1. written[u] <= Len(Files(u))
    BY <1>2, FilesType DEF FilesWritten
  <2> QED
    BY <1>1, <2>1, SavedBounds
<1>3. ASSUME NEW u \in Upload, Begin(u)
      PROVE  UploadsTypeOK'
  BY <1>3 DEF Begin
<1>4. ASSUME NEW u \in Upload, Refuse(u)
      PROVE  UploadsTypeOK'
  BY <1>4 DEF Refuse
<1>5. ASSUME NEW u \in Upload, LoadFrame(u)
      PROVE  UploadsTypeOK'
  BY <1>5 DEF LoadFrame
<1>6. ASSUME NEW u \in Upload, UseFrame(u)
      PROVE  UploadsTypeOK'
  BY <1>6 DEF UseFrame
<1>7. ASSUME NEW u \in Upload, SaveFile(u)
      PROVE  UploadsTypeOK'
  BY <1>7 DEF SaveFile
<1>8. ASSUME NEW u \in Upload, Insert(u)
      PROVE  UploadsTypeOK'
  BY <1>8 DEF Insert
<1>9. ASSUME NEW u \in Upload, EndRemoval(u)
      PROVE  UploadsTypeOK'
  BY <1>9 DEF EndRemoval
<1>10. ASSUME NEW u \in Upload, FindAsset(u)
      PROVE  UploadsTypeOK'
  BY <1>10 DEF FindAsset
<1>11. ASSUME NEW u \in Upload, DeleteRow(u)
      PROVE  UploadsTypeOK'
  BY <1>1, <1>11 DEF DeleteRow
<1>12. ASSUME NEW u \in Upload, SaveFails(u)
      PROVE  UploadsTypeOK'
  BY <1>1, <1>2, <1>12 DEF SaveFails
<1>13. ASSUME NEW u \in Upload, InsertFails(u)
      PROVE  UploadsTypeOK'
  BY <1>2, <1>13 DEF InsertFails
<1>14. ASSUME NEW u \in Upload, Attach(u)
      PROVE  UploadsTypeOK'
  BY <1>14 DEF Attach
<1>15. ASSUME NEW u \in Upload, Detach(u)
      PROVE  UploadsTypeOK'
  BY <1>15 DEF Detach
<1>16. ASSUME NEW u \in Upload, NEW file \in toRemove[u], RemoveFile(u, file)
      PROVE  UploadsTypeOK'
  BY <1>16 DEF RemoveFile
<1>17. ASSUME NEW u \in Upload, NEW file \in toRemove[u], RemovalRefused(u, file)
      PROVE  UploadsTypeOK'
  BY <1>17 DEF RemovalRefused
<1>18. CASE FrameLoaded
  BY <1>18 DEF FrameLoaded
<1>19. CASE FrameRejected
  BY <1>19 DEF FrameRejected
<1>20. CASE Crash
  BY <1>20 DEF Crash
<1>21. CASE UNCHANGED vars
  BY <1>21 DEF vars
<1> QED
  BY <1>3, <1>4, <1>5, <1>6, <1>7, <1>8, <1>9, <1>10, <1>11, <1>12, <1>13, <1>14, <1>15, <1>16, <1>17, <1>18, <1>19, <1>20, <1>21
     DEF Next, Handler, Fault

-----------------------------------------------------------------------------
(* One upload                                                              *)

(* A step of one handler that changes no file of another upload.           *)
LEMMA OthersKeep ==
  ASSUME KeptInv, NEW u \in Upload, NEW v \in Upload, v # u,
         pc'[v] = pc[v], row'[v] = row[v], removal'[v] = removal[v],
         written'[v] = written[v], toRemove'[v] = toRemove[v],
         v \in excused' <=> v \in excused,
         \A file : file \notin FilesOf(u) =>
           /\ file \in disk' <=> file \in disk
           /\ file \in partial' <=> file \in partial
  PROVE  Kept(v)'
<1>1. \A file \in FilesOf(v) : file \notin FilesOf(u)
  BY FilesDisjoint
<1>2. FilesOf(v) \cap disk' = FilesOf(v) \cap disk
  BY <1>1
<1>3. FilesOf(v) \cap partial' = FilesOf(v) \cap partial
  BY <1>1
<1> QED
  BY <1>2, <1>3, Untouched DEF KeptInv

LEMMA BeginKeeps ==
  ASSUME KeptInv, NEW u \in Upload, Begin(u), NEW v \in Upload
  PROVE  Kept(v)'
<1> USE DEF KeptInv, UploadsTypeOK
<1>1. CASE v # u
  BY <1>1, Untouched DEF Begin, Goto, rowVars, diskVars
<1>2. CASE v = u
  <2>1. /\ Kept(u) /\ pc[u] = "start" /\ pc'[u] \in {"frame", "save"}
        /\ UNCHANGED <<row, disk, partial, written, toRemove, removal, excused>>
    BY DEF Begin, Goto, rowVars, diskVars
  <2>2. written[u] = 0 /\ written[u] < Len(Files(u))
    BY <2>1, FilesType DEF Kept, FilesWritten
  <2>3. OnDisk(u)' = OnDisk(u) /\ Saved(u)' = Saved(u)
    BY <2>1 DEF OnDisk, Saved, FilesOf
  <2>4. NotYetStored(u)'
    BY <2>1, <2>3 DEF Kept, NotYetStored, FilesOf
  <2>5. FilesWritten(u)'
    BY <2>1, <2>2 DEF FilesWritten, Files
  <2>6. Removed(u)' /\ Deleted(u)' /\ Settled(u)'
    BY <2>1 DEF Kept, NotYetStored, Removed, Deleted, Settled, FilesOf
  <2> QED
    BY <1>2, <2>4, <2>5, <2>6 DEF Kept
<1> QED
  BY <1>1, <1>2

LEMMA RefuseKeeps ==
  ASSUME KeptInv, NEW u \in Upload, Refuse(u), NEW v \in Upload
  PROVE  Kept(v)'
<1> USE DEF KeptInv, UploadsTypeOK
<1>1. CASE v # u
  BY <1>1, Untouched DEF Refuse, Goto, rowVars, diskVars
<1>2. CASE v = u
  <2>1. /\ Kept(u) /\ pc[u] = "start" /\ pc'[u] = "done"
        /\ UNCHANGED <<row, disk, partial, written, toRemove, removal, excused>>
    BY DEF Refuse, Goto, rowVars, diskVars
  <2>2. OnDisk(u) = {} /\ row[u] = "NONE"
    BY <2>1, SavedBounds DEF Kept, NotYetStored, FilesWritten
  <2>3. OnDisk(u)' = OnDisk(u)
    BY <2>1 DEF OnDisk, FilesOf
  <2>4. Settled(u)'
    BY <2>1, <2>2, <2>3 DEF Settled
  <2>5. NotYetStored(u)' /\ FilesWritten(u)' /\ Removed(u)' /\ Deleted(u)'
    BY <2>1 DEF Kept, NotYetStored, FilesWritten, Removed, Deleted, FilesOf
  <2> QED
    BY <1>2, <2>4, <2>5 DEF Kept
<1> QED
  BY <1>1, <1>2

LEMMA UseFrameKeeps ==
  ASSUME KeptInv, NEW u \in Upload, UseFrame(u), NEW v \in Upload
  PROVE  Kept(v)'
<1> USE DEF KeptInv, UploadsTypeOK
<1>1. CASE v # u
  BY <1>1, Untouched DEF UseFrame, Goto, rowVars, diskVars
<1>2. CASE v = u
  <2>1. /\ Kept(u) /\ pc[u] = "frame" /\ pc'[u] = "save"
        /\ UNCHANGED <<row, disk, partial, written, toRemove, removal, excused>>
    BY DEF UseFrame, Goto, rowVars, diskVars
  <2>2. written[u] = 0 /\ written[u] < Len(Files(u))
    BY <2>1, FilesType DEF Kept, FilesWritten
  <2>3. OnDisk(u)' = OnDisk(u) /\ Saved(u)' = Saved(u)
    BY <2>1 DEF OnDisk, Saved, FilesOf
  <2>4. NotYetStored(u)'
    BY <2>1, <2>3 DEF Kept, NotYetStored, FilesOf
  <2>5. FilesWritten(u)'
    BY <2>1, <2>2 DEF FilesWritten, Files
  <2>6. Removed(u)' /\ Deleted(u)' /\ Settled(u)'
    BY <2>1 DEF Kept, NotYetStored, Removed, Deleted, Settled, FilesOf
  <2> QED
    BY <1>2, <2>4, <2>5, <2>6 DEF Kept
<1> QED
  BY <1>1, <1>2

(* All who wait for a frame that is rejected end without a file.           *)
LEMMA FrameRejectedKeeps ==
  ASSUME KeptInv, FrameRejected, NEW v \in Upload
  PROVE  Kept(v)'
<1> USE DEF KeptInv, UploadsTypeOK
<1>1. CASE pc[v] # "frame"
  BY <1>1, Untouched DEF FrameRejected, rowVars, diskVars
<1>2. CASE pc[v] = "frame"
  <2>1. /\ Kept(v) /\ pc[v] = "frame" /\ pc'[v] = "done"
        /\ UNCHANGED <<row, disk, partial, written, toRemove, removal, excused>>
    BY <1>2 DEF FrameRejected, rowVars, diskVars
  <2>2. OnDisk(v) = {} /\ row[v] = "NONE"
    BY <2>1, SavedBounds DEF Kept, NotYetStored, FilesWritten
  <2>3. OnDisk(v)' = OnDisk(v)
    BY <2>1 DEF OnDisk, FilesOf
  <2>4. Settled(v)'
    BY <2>1, <2>2, <2>3 DEF Settled
  <2>5. NotYetStored(v)' /\ FilesWritten(v)' /\ Removed(v)' /\ Deleted(v)'
    BY <2>1 DEF Kept, NotYetStored, FilesWritten, Removed, Deleted, FilesOf
  <2> QED
    BY <2>4, <2>5 DEF Kept
<1> QED
  BY <1>1, <1>2

LEMMA SaveFileKeeps ==
  ASSUME KeptInv, NEW u \in Upload, SaveFile(u), NEW v \in Upload
  PROVE  Kept(v)'
<1> USE DEF KeptInv, UploadsTypeOK
<1> DEFINE file == <<u, Files(u)[written[u] + 1]>>
<1>1. /\ Kept(u) /\ pc[u] = "save" /\ written'[u] = written[u] + 1
      /\ disk' = disk \cup {file} /\ partial' = partial
      /\ pc'[u] = (IF written'[u] = Len(Files(u)) THEN "insert" ELSE "save")
      /\ UNCHANGED <<row, toRemove, removal, excused>>
  BY DEF SaveFile, Goto, rowVars
<1>2. written[u] \in Nat /\ written[u] < Len(Files(u)) /\ Len(Files(u)) \in Nat
  BY <1>1, FilesType DEF Kept, FilesWritten
<1>3. file \in FilesOf(u) /\ Saved(u)' = Saved(u) \cup {file}
  BY <1>1, <1>2, SavedNext
<1> HIDE DEF file
<1>4. CASE v # u
  <2>1. /\ pc'[v] = pc[v] /\ row'[v] = row[v] /\ removal'[v] = removal[v]
        /\ written'[v] = written[v] /\ toRemove'[v] = toRemove[v]
        /\ v \in excused' <=> v \in excused
    BY <1>1, <1>4 DEF SaveFile, Goto
  <2>2. \A other : other \notin FilesOf(u) =>
          /\ other \in disk' <=> other \in disk
          /\ other \in partial' <=> other \in partial
    BY <1>1, <1>3
  <2> QED
    BY <1>4, <2>1, <2>2, OthersKeep
<1>5. CASE v = u
  <2>1. OnDisk(u)' = OnDisk(u) \cup {file}
    BY <1>1, <1>3 DEF OnDisk, FilesOf
  <2>2. OnDisk(u) = Saved(u) /\ row[u] = "NONE" /\ removal[u] = "none"
          /\ FilesOf(u) \cap partial = {}
    BY <1>1 DEF Kept, NotYetStored
  <2>3. NotYetStored(u)'
    BY <1>1, <1>3, <2>1, <2>2 DEF NotYetStored, FilesOf
  <2>4. FilesWritten(u)'
    <3> DEFINE n == written[u]
               m == Len(Files(u))
    <3>1. n \in Nat /\ m \in Nat /\ n < m
      BY <1>2
    <3>2. written'[u] = n + 1 /\ pc'[u] = IF n + 1 = m THEN "insert" ELSE "save"
      BY <1>1
    <3>3. n + 1 = m \/ n + 1 < m
      BY <3>1
    <3> QED
      BY <3>2, <3>3 DEF FilesWritten
  <2>5. Removed(u)' /\ Deleted(u)' /\ Settled(u)'
    BY <1>1, <2>2 DEF Kept, Removed, Deleted, Settled, FilesOf
  <2> QED
    BY <1>5, <2>3, <2>4, <2>5 DEF Kept
<1> QED
  BY <1>4, <1>5

LEMMA InsertKeeps ==
  ASSUME KeptInv, NEW u \in Upload, Insert(u), NEW v \in Upload
  PROVE  Kept(v)'
<1> USE DEF KeptInv, UploadsTypeOK
<1>1. CASE v # u
  BY <1>1, Untouched DEF Insert, Goto, diskVars
<1>2. CASE v = u
  <2>1. /\ Kept(u) /\ pc[u] = "insert" /\ pc'[u] = "done" /\ row'[u] = "STORED"
        /\ UNCHANGED <<disk, partial, written, toRemove, removal, excused>>
    BY DEF Insert, Goto, diskVars
  <2>2. /\ OnDisk(u) = Saved(u) /\ Saved(u) = FilesOf(u) /\ removal[u] = "none"
        /\ FilesOf(u) \cap partial = {}
    BY <2>1, SavedBounds DEF Kept, NotYetStored, FilesWritten
  <2>3. FilesOf(u) \subseteq disk \ partial
    BY <2>2 DEF OnDisk
  <2>4. Settled(u)'
    BY <2>1, <2>3 DEF Settled, FilesOf
  <2>5. NotYetStored(u)' /\ FilesWritten(u)' /\ Removed(u)' /\ Deleted(u)'
    BY <2>1, <2>2 DEF Kept, NotYetStored, FilesWritten, Removed, Deleted, FilesOf
  <2> QED
    BY <1>2, <2>4, <2>5 DEF Kept
<1> QED
  BY <1>1, <1>2

(* A write that fails half way: what was saved before is to be removed, and*)
(* so is the part, unless nobody knows its name.                           *)
LEMMA SaveFailsKeeps ==
  ASSUME KeptInv, NEW u \in Upload, SaveFails(u), NEW v \in Upload
  PROVE  Kept(v)'
<1> USE DEF KeptInv, UploadsTypeOK
<1> DEFINE file == <<u, Files(u)[written[u] + 1]>>
<1>1. /\ Kept(u) /\ pc[u] = "save" /\ pc'[u] = "cleanup"
      /\ \/ UNCHANGED <<disk, partial, excused>>
         \/ /\ disk' = disk \cup {file} /\ partial' = partial \cup {file}
            /\ excused' = excused \cup {u}
         \/ /\ disk' = disk \cup {file} /\ partial' = partial \cup {file}
            /\ UNCHANGED excused /\ KindOf[u] = "derived"
      /\ toRemove'[u] = (IF KindOf[u] = "derived" THEN FilesOf(u) ELSE Saved(u))
      /\ UNCHANGED <<row, written, removal>>
  BY DEF SaveFails, Goto, rowVars, diskVars, Excuse
<1>2. written[u] \in Nat /\ written[u] < Len(Files(u)) /\ Len(Files(u)) \in Nat
  BY <1>1, FilesType DEF Kept, FilesWritten
<1>3. file \in FilesOf(u) /\ Saved(u) \subseteq FilesOf(u)
  <2>1. written[u] + 1 \in DOMAIN Files(u)
    BY <1>2, FilesType
  <2>2. file \in FilesOf(u)
    BY <2>1 DEF FilesOf
  <2>3. written[u] <= Len(Files(u))
    BY <1>2
  <2> QED
    BY <1>2, <2>2, <2>3, SavedBounds
<1> HIDE DEF file
<1>4. CASE v # u
  <2>1. /\ pc'[v] = pc[v] /\ row'[v] = row[v] /\ removal'[v] = removal[v]
        /\ written'[v] = written[v] /\ toRemove'[v] = toRemove[v]
        /\ v \in excused' <=> v \in excused
    BY <1>1, <1>4 DEF SaveFails, Goto
  <2>2. \A other : other \notin FilesOf(u) =>
          /\ other \in disk' <=> other \in disk
          /\ other \in partial' <=> other \in partial
    BY <1>1, <1>3
  <2> QED
    BY <1>4, <2>1, <2>2, OthersKeep
<1>5. CASE v = u
  <2>1. OnDisk(u) = Saved(u) /\ row[u] = "NONE" /\ removal[u] = "none"
    BY <1>1 DEF Kept, NotYetStored
  <2>2. u \in excused' \/ OnDisk(u)' \subseteq toRemove'[u]
    BY <1>1, <1>3, <2>1 DEF OnDisk, FilesOf
  <2>3. toRemove'[u] \subseteq FilesOf(u)
    BY <1>1, <1>3
  <2>4. Removed(u)'
    BY <1>1, <2>1, <2>2, <2>3 DEF Removed, FilesOf
  <2>5. NotYetStored(u)' /\ FilesWritten(u)' /\ Deleted(u)' /\ Settled(u)'
    BY <1>1, <2>1 DEF NotYetStored, FilesWritten, Deleted, Settled
  <2> QED
    BY <1>5, <2>4, <2>5 DEF Kept
<1> QED
  BY <1>4, <1>5

LEMMA InsertFailsKeeps ==
  ASSUME KeptInv, NEW u \in Upload, InsertFails(u), NEW v \in Upload
  PROVE  Kept(v)'
<1> USE DEF KeptInv, UploadsTypeOK
<1>1. /\ Kept(u) /\ pc[u] = "insert" /\ pc'[u] = "cleanup"
      /\ \/ row'[u] = row[u] /\ excused' = excused
         \/ row'[u] = "STORED" /\ excused' = excused \cup {u}
      /\ toRemove'[u] = Saved(u)
      /\ UNCHANGED <<disk, partial, written, removal>>
  BY DEF InsertFails, Goto, diskVars, Excuse
<1>2. CASE v # u
  <2>1. /\ pc'[v] = pc[v] /\ row'[v] = row[v] /\ removal'[v] = removal[v]
        /\ written'[v] = written[v] /\ toRemove'[v] = toRemove[v]
        /\ v \in excused' <=> v \in excused
    BY <1>1, <1>2 DEF InsertFails, Goto
  <2> QED
    BY <1>1, <2>1, Untouched
<1>3. CASE v = u
  <2>1. OnDisk(u) = Saved(u) /\ row[u] = "NONE" /\ removal[u] = "none"
    BY <1>1 DEF Kept, NotYetStored
  <2>2. OnDisk(u)' = OnDisk(u)
    BY <1>1 DEF OnDisk, FilesOf
  <2>3. toRemove'[u] \subseteq FilesOf(u)
    BY <1>1, <2>1 DEF OnDisk
  <2>4. Removed(u)'
    BY <1>1, <2>1, <2>2, <2>3 DEF Removed, FilesOf
  <2>5. NotYetStored(u)' /\ FilesWritten(u)' /\ Deleted(u)' /\ Settled(u)'
    BY <1>1, <2>1 DEF NotYetStored, FilesWritten, Deleted, Settled
  <2> QED
    BY <1>3, <2>4, <2>5 DEF Kept
<1> QED
  BY <1>2, <1>3

LEMMA RemoveFileKeeps ==
  ASSUME KeptInv, NEW u \in Upload, NEW file \in toRemove[u], RemoveFile(u, file),
         NEW v \in Upload
  PROVE  Kept(v)'
<1> USE DEF KeptInv, UploadsTypeOK
<1>1. /\ Kept(u) /\ (pc[u] = "cleanup" \/ removal[u] = "unlink")
      /\ toRemove' = [toRemove EXCEPT ![u] = @ \ {file}]
      /\ disk' = disk \ {file} /\ partial' = partial \ {file}
      /\ UNCHANGED <<row, pc, written, removal, excused>>
  BY DEF RemoveFile, Removing, rowVars
<1>2. file \in FilesOf(u)
  BY <1>1 DEF Kept, Removed
<1>3. CASE v # u
  <2>1. /\ pc'[v] = pc[v] /\ row'[v] = row[v] /\ removal'[v] = removal[v]
        /\ written'[v] = written[v] /\ toRemove'[v] = toRemove[v]
        /\ v \in excused' <=> v \in excused
    BY <1>1, <1>3
  <2>2. \A other : other \notin FilesOf(u) =>
          /\ other \in disk' <=> other \in disk
          /\ other \in partial' <=> other \in partial
    BY <1>1, <1>2
  <2> QED
    BY <1>3, <2>1, <2>2, OthersKeep
<1>4. CASE v = u
  <2>1. toRemove'[u] = toRemove[u] \ {file} /\ OnDisk(u)' = OnDisk(u) \ {file}
    BY <1>1 DEF OnDisk, FilesOf
  <2>2. Removed(u)'
    BY <1>1, <2>1 DEF Kept, Removed, FilesOf
  <2>3. NotYetStored(u)' /\ FilesWritten(u)' /\ Deleted(u)'
    BY <1>1 DEF Kept, NotYetStored, FilesWritten, Deleted
  <2>4. Settled(u)'
    BY <1>1 DEF Kept, Settled, Deleted
  <2> QED
    BY <1>4, <2>2, <2>3, <2>4 DEF Kept
<1> QED
  BY <1>3, <1>4

LEMMA RemovalRefusedKeeps ==
  ASSUME KeptInv, NEW u \in Upload, NEW file \in toRemove[u], RemovalRefused(u, file),
         NEW v \in Upload
  PROVE  Kept(v)'
<1> USE DEF KeptInv, UploadsTypeOK
<1>1. /\ Kept(u) /\ (pc[u] = "cleanup" \/ removal[u] = "unlink")
      /\ toRemove' = [toRemove EXCEPT ![u] = @ \ {file}]
      /\ excused' = excused \cup {u}
      /\ UNCHANGED <<row, pc, written, removal, disk, partial>>
  BY DEF RemovalRefused, Removing, Excuse, rowVars, diskVars
<1>2. CASE v # u
  BY <1>1, <1>2, Untouched
<1>3. CASE v = u
  <2>1. toRemove'[u] = toRemove[u] \ {file}
    BY <1>1
  <2>2. Removed(u)'
    BY <1>1, <2>1 DEF Kept, Removed, FilesOf
  <2>3. NotYetStored(u)' /\ FilesWritten(u)' /\ Deleted(u)' /\ Settled(u)'
    BY <1>1 DEF Kept, NotYetStored, FilesWritten, Deleted, Settled
  <2> QED
    BY <1>3, <2>2, <2>3 DEF Kept
<1> QED
  BY <1>2, <1>3

(* When nothing is left to remove, nothing is left that was not refused.   *)
LEMMA EndRemovalKeeps ==
  ASSUME KeptInv, NEW u \in Upload, EndRemoval(u), NEW v \in Upload
  PROVE  Kept(v)'
<1> USE DEF KeptInv, UploadsTypeOK
<1>1. /\ Kept(u) /\ (pc[u] = "cleanup" \/ removal[u] = "unlink") /\ toRemove[u] = {}
      /\ pc'[u] = (IF pc[u] = "cleanup" THEN "done" ELSE pc[u])
      /\ removal'[u] = (IF removal[u] = "unlink" THEN "done" ELSE removal[u])
      /\ UNCHANGED <<row, written, toRemove, excused, disk, partial>>
  BY DEF EndRemoval, Removing, rowVars, diskVars
<1>2. CASE v # u
  <2>1. pc'[v] = pc[v] /\ removal'[v] = removal[v]
    BY <1>2 DEF EndRemoval
  <2> QED
    BY <1>1, <2>1, Untouched
<1>3. CASE v = u
  <2>1. /\ u \in excused \/ OnDisk(u) = {}
        /\ pc[u] = "cleanup" => removal[u] = "none" /\ (row[u] = "STORED" => u \in excused)
        /\ removal[u] = "unlink" => pc[u] = "done" /\ row[u] = "DELETED"
    BY <1>1 DEF Kept, Removed, Deleted
  <2>2. OnDisk(u)' = OnDisk(u) /\ pc'[u] = "done" /\ removal'[u] # "unlink"
    BY <1>1, <2>1 DEF OnDisk, FilesOf
  <2>3. Settled(u)'
    BY <1>1, <2>1, <2>2 DEF Settled
  <2>4. NotYetStored(u)' /\ FilesWritten(u)'
    BY <2>2 DEF NotYetStored, FilesWritten
  <2>5. Removed(u)' /\ Deleted(u)'
    BY <1>1, <2>1, <2>2 DEF Kept, Removed, Deleted, FilesOf
  <2> QED
    BY <1>3, <2>3, <2>4, <2>5 DEF Kept
<1> QED
  BY <1>2, <1>3

LEMMA FindAssetKeeps ==
  ASSUME KeptInv, NEW u \in Upload, FindAsset(u), NEW v \in Upload
  PROVE  Kept(v)'
<1> USE DEF KeptInv, UploadsTypeOK
<1>1. /\ Kept(u) /\ pc[u] = "done" /\ row[u] = "STORED"
      /\ removal' = [removal EXCEPT ![u] = "found"]
      /\ UNCHANGED <<row, pc, written, toRemove, excused, disk, partial>>
  BY DEF FindAsset, rowVars, diskVars
<1>2. CASE v # u
  BY <1>1, <1>2, Untouched
<1>3. CASE v = u
  <2>1. removal'[u] = "found"
    BY <1>1
  <2>2. NotYetStored(u)' /\ FilesWritten(u)' /\ Deleted(u)' /\ Settled(u)'
    BY <1>1, <2>1 DEF Kept, NotYetStored, FilesWritten, Deleted, Settled, FilesOf
  <2>3. Removed(u)'
    BY <1>1, <2>1 DEF Kept, Removed, FilesOf
  <2> QED
    BY <1>3, <2>2, <2>3 DEF Kept
<1> QED
  BY <1>2, <1>3

(* The row goes before its files, so no row ever names a removed one.      *)
LEMMA DeleteRowKeeps ==
  ASSUME KeptInv, NEW u \in Upload, DeleteRow(u), NEW v \in Upload
  PROVE  Kept(v)'
<1> USE DEF KeptInv, UploadsTypeOK
<1>1. /\ Kept(u) /\ removal[u] = "found"
      /\ \/ /\ removal'[u] = "none" /\ UNCHANGED <<row, toRemove>>
         \/ /\ removal'[u] = "unlink" /\ row'[u] = "DELETED"
            /\ toRemove'[u] = FilesOf(u)
      /\ UNCHANGED <<pc, written, excused, disk, partial>>
  BY DEF DeleteRow, diskVars
<1>2. CASE v # u
  <2>1. removal'[v] = removal[v] /\ row'[v] = row[v] /\ toRemove'[v] = toRemove[v]
    BY <1>2 DEF DeleteRow
  <2> QED
    BY <1>1, <2>1, Untouched
<1>3. CASE v = u
  <2>1. pc[u] = "done" /\ row[u] = "STORED"
    BY <1>1 DEF Kept, Deleted
  <2>2. NotYetStored(u)' /\ FilesWritten(u)'
    BY <1>1, <2>1 DEF NotYetStored, FilesWritten
  <2>3. Deleted(u)'
    BY <1>1, <2>1 DEF Deleted
  <2>4. Removed(u)'
    BY <1>1, <2>1 DEF Kept, Removed, FilesOf, OnDisk
  <2>5. Settled(u)'
    BY <1>1, <2>1 DEF Kept, Settled, FilesOf, OnDisk
  <2> QED
    BY <1>3, <2>2, <2>3, <2>4, <2>5 DEF Kept
<1> QED
  BY <1>2, <1>3

(* A crash excuses what was under way, and what had ended stays as it was. *)
LEMMA CrashKeeps ==
  ASSUME KeptInv, Crash, NEW v \in Upload
  PROVE  Kept(v)'
<1> USE DEF KeptInv, UploadsTypeOK
<1>1. /\ Kept(v)
      /\ pc'[v] = (IF Running(v) THEN "done" ELSE pc[v])
      /\ removal'[v] = (IF removal[v] = "found" THEN "none"
                        ELSE IF removal[v] = "unlink" THEN "done" ELSE removal[v])
      /\ toRemove'[v] = {}
      /\ v \in excused' <=> v \in excused \/ Running(v) \/ removal[v] = "unlink"
      /\ UNCHANGED <<row, written, disk, partial>>
  BY DEF Crash, rowVars, diskVars
<1>2. OnDisk(v)' = OnDisk(v) /\ Saved(v)' = Saved(v)
  BY <1>1 DEF OnDisk, Saved, FilesOf
<1>3. CASE Running(v)
  <2>1. pc'[v] = "done" /\ v \in excused' /\ removal[v] = "none"
    BY <1>1, <1>3 DEF Kept, Deleted, Running
  <2>2. NotYetStored(v)' /\ FilesWritten(v)' /\ Settled(v)'
    BY <2>1 DEF NotYetStored, FilesWritten, Settled
  <2>3. Removed(v)' /\ Deleted(v)'
    BY <1>1, <2>1 DEF Removed, Deleted
  <2> QED
    BY <2>2, <2>3 DEF Kept
<1>4. CASE ~Running(v)
  <2>1. pc'[v] = pc[v] /\ pc[v] \in {"start", "done"}
    BY <1>1, <1>4 DEF Running
  <2>2. NotYetStored(v)' /\ FilesWritten(v)'
    BY <1>1, <1>2, <2>1 DEF Kept, NotYetStored, FilesWritten, FilesOf
  <2>3. Removed(v)' /\ Deleted(v)'
    BY <1>1, <2>1 DEF Kept, Removed, Deleted
  <2>4. Settled(v)'
    BY <1>1, <1>2, <2>1 DEF Kept, Settled, Deleted, FilesOf, Running
  <2> QED
    BY <2>2, <2>3, <2>4 DEF Kept
<1> QED
  BY <1>3, <1>4

LEMMA KeptStep ==
  ASSUME KeptInv, [Next /\ UNCHANGED frameAsset]_vars
  PROVE  KeptInv'
<1>1. UploadsTypeOK'
  <2>1. [Next]_vars
    OBVIOUS
  <2> QED
    BY <2>1, UploadsStepType DEF KeptInv, Kept
<1>2. ASSUME NEW v \in Upload
      PROVE  Kept(v)'
  <2>1. ASSUME UNCHANGED <<row, disk, partial, pc, written, toRemove, removal, excused>>
        PROVE  Kept(v)'
    BY <2>1, Untouched DEF KeptInv
  <2>2. ASSUME NEW u \in Upload, Handler(u)
        PROVE  Kept(v)'
    <3>1. LoadFrame(u) => UNCHANGED <<row, disk, partial, pc, written, toRemove, removal, excused>>
      BY DEF LoadFrame, rowVars, diskVars
    <3> QED
      BY <2>1, <2>2, <3>1, BeginKeeps, RefuseKeeps, UseFrameKeeps, SaveFileKeeps, InsertKeeps,
         RemoveFileKeeps, EndRemovalKeeps, FindAssetKeeps, DeleteRowKeeps DEF Handler
  <2>3. ASSUME NEW u \in Upload, Fault(u)
        PROVE  Kept(v)'
    BY <2>3, SaveFailsKeeps, InsertFailsKeeps, RemovalRefusedKeeps DEF Fault
  <2>4. ASSUME NEW u \in Upload, Attach(u) \/ Detach(u)
        PROVE  Kept(v)'
    BY <2>1, <2>4 DEF Attach, Detach, diskVars
  <2>5. CASE FrameLoaded \/ UNCHANGED vars
    BY <2>1, <2>5 DEF FrameLoaded, rowVars, diskVars, vars
  <2> QED
    BY <2>2, <2>3, <2>4, <2>5, FrameRejectedKeeps, CrashKeeps DEF Next
<1> QED
  BY <1>1, <1>2 DEF KeptInv

LEMMA KeptInit == Init => KeptInv
<1> SUFFICES ASSUME Init
             PROVE  KeptInv
  OBVIOUS
<1>1. UploadsTypeOK
  BY UploadsInitType
<1>2. ASSUME NEW u \in Upload
      PROVE  Kept(u)
  <2>1. /\ row[u] = "NONE" /\ removal[u] = "none" /\ pc[u] = "start" /\ written[u] = 0
        /\ toRemove[u] = {} /\ disk = {} /\ partial = {}
    BY DEF Init
  <2>2. OnDisk(u) = {} /\ Saved(u) = {}
    BY <2>1, SavedBounds DEF OnDisk
  <2> QED
    BY <2>1, <2>2 DEF Kept, NotYetStored, FilesWritten, Removed, Deleted, Settled
<1> QED
  BY <1>1, <1>2 DEF KeptInv

LEMMA KeptInvariant == Spec => []KeptInv
BY KeptInit, KeptStep, PTL DEF Spec

(* An asset or a design that is shown has all of its files, whole, however *)
(* uploads, deletions and failures overlap.                                *)
THEOREM RowsAlwaysHaveTheirFiles == Spec => []RowsHaveTheirFiles
<1>1. KeptInv => RowsHaveTheirFiles
  BY DEF KeptInv, UploadsTypeOK, Kept, NotYetStored, Removed, Settled, RowsHaveTheirFiles
<1> QED
  BY <1>1, KeptInvariant, PTL

(* The compensations of MediaService and CustomDesignsService leave no file*)
(* behind that they could have removed.                                    *)
THEOREM NeverStrayFiles == Spec => []NoStrayFiles
<1>1. KeptInv => NoStrayFiles
  BY DEF KeptInv, UploadsTypeOK, Kept, Settled, OnDisk, NoStrayFiles
<1> QED
  BY <1>1, KeptInvariant, PTL

-----------------------------------------------------------------------------
(* The cap                                                                 *)

LEMMA DesignsFinite ==
  ASSUME NEW S \in SUBSET Upload
  PROVE  IsFiniteSet(S) /\ Cardinality(S) \in Nat
BY FS_Subset, FS_CardinalityType

(* Only the beginning of a design brings one more on its way.              *)
LEMMA DesignSteps ==
  ASSUME KeptInv, [Next /\ UNCHANGED frameAsset]_vars
  PROVE  \/ /\ UNCHANGED peak
            /\ InFlight' \subseteq InFlight
            /\ StoredDesigns' \subseteq StoredDesigns \cup InFlight
         \/ \E u \in Designs : Begin(u)
<1> USE DEF KeptInv, UploadsTypeOK, Designs, StoredDesigns, InFlight, Running, Goto
<1> DEFINE Fewer == /\ UNCHANGED peak
                    /\ InFlight' \subseteq InFlight
                    /\ StoredDesigns' \subseteq StoredDesigns \cup InFlight
<1>1. ASSUME NEW u \in Upload, Begin(u)
      PROVE  Fewer \/ u \in Designs
  BY <1>1 DEF Begin, rowVars
<1>2. ASSUME NEW u \in Upload,
             LoadFrame(u) \/ UseFrame(u) \/ SaveFile(u) \/ SaveFails(u) \/ Refuse(u)
      PROVE  Fewer
  BY <1>2 DEF LoadFrame, UseFrame, SaveFile, SaveFails, Refuse, rowVars
<1>3. ASSUME NEW u \in Upload, Insert(u) \/ InsertFails(u)
      PROVE  Fewer
  BY <1>3 DEF Insert, InsertFails
<1>4. ASSUME NEW u \in Upload, NEW file, RemoveFile(u, file) \/ RemovalRefused(u, file)
      PROVE  Fewer
  BY <1>4 DEF RemoveFile, RemovalRefused, rowVars
<1>5. ASSUME NEW u \in Upload, EndRemoval(u) \/ FindAsset(u) \/ Attach(u) \/ Detach(u)
      PROVE  Fewer
  BY <1>5 DEF EndRemoval, FindAsset, Attach, Detach, rowVars
<1>6. ASSUME NEW u \in Upload, DeleteRow(u)
      PROVE  Fewer
  BY <1>6 DEF DeleteRow
<1>7. ASSUME FrameLoaded \/ FrameRejected \/ Crash \/ UNCHANGED vars
      PROVE  Fewer
  BY <1>7 DEF FrameLoaded, FrameRejected, Crash, vars, rowVars
<1> HIDE DEF KeptInv, UploadsTypeOK, Designs, StoredDesigns, InFlight, Running, Goto, Fewer
<1>8. Fewer \/ \E u \in Designs : Begin(u)
  BY <1>1, <1>2, <1>3, <1>4, <1>5, <1>6, <1>7, Zenon DEF Next, Handler, Fault
<1> QED
  BY <1>8 DEF Fewer

(* A design that begins found fewer than the cap stored.                   *)
LEMMA BeginOverlaps ==
  ASSUME UploadsInv, NEW u \in Designs, Begin(u)
  PROVE  Overlap'
<1> USE DEF UploadsInv, KeptInv, UploadsTypeOK
<1> DEFINE n == Cardinality(InFlight)
           k == Cardinality(StoredDesigns)
<1>1. u \in Upload /\ InFlight \in SUBSET Upload /\ StoredDesigns \in SUBSET Upload
  BY DEF Designs, InFlight, StoredDesigns
<1>2. u \notin InFlight /\ InFlight' = InFlight \cup {u} /\ StoredDesigns' = StoredDesigns
  BY <1>1 DEF Begin, Goto, InFlight, Designs, Running, StoredDesigns, rowVars
<1>3. Cardinality(InFlight') = n + 1
  <2>1. IsFiniteSet(InFlight)
    BY <1>1, DesignsFinite
  <2> QED
    BY <1>2, <2>1, FS_AddElement
<1>4. /\ n \in Nat /\ k \in Nat /\ k < MaxPerCart /\ n <= peak /\ peak \in Nat
      /\ peak' = IF peak <= n THEN peak + 1 ELSE peak
  <2>1. k < MaxPerCart
    BY DEF Begin, BelowCap, StoredDesigns
  <2>2. n <= peak
    BY DEF Overlap
  <2>3. peak' = IF peak <= n THEN peak + 1 ELSE peak
    BY DEF Begin
  <2> QED
    BY <1>1, <2>1, <2>2, <2>3, DesignsFinite
<1>5. Cardinality(StoredDesigns' \cup InFlight') <= k + (n + 1)
  <2> DEFINE S == StoredDesigns
             F == InFlight'
  <2>1. S \in SUBSET Upload /\ F \in SUBSET Upload
    BY <1>1, <1>2
  <2>2. S \cap F \in SUBSET Upload
    BY <2>1
  <2>3. /\ IsFiniteSet(S) /\ IsFiniteSet(F)
        /\ Cardinality(S \cap F) \in Nat
    BY <2>1, <2>2, DesignsFinite
  <2> HIDE DEF S, F
  <2>4. Cardinality(S \cup F) = Cardinality(S) + Cardinality(F) - Cardinality(S \cap F)
    BY <2>3, FS_Union
  <2>5. Cardinality(S) = k /\ Cardinality(F) = n + 1
    BY <1>3 DEF S, F
  <2>6. Cardinality(S \cup F) <= k + (n + 1)
    BY <1>4, <2>3, <2>4, <2>5
  <2> QED
    BY <1>2, <2>6 DEF S, F
<1>6. Cardinality(StoredDesigns' \cup InFlight') \in Nat
  <2>1. StoredDesigns' \cup InFlight' \in SUBSET Upload
    BY <1>1, <1>2
  <2> QED
    BY <2>1, DesignsFinite
<1> HIDE DEF n, k
<1>7. n + 1 <= peak' /\ k + (n + 1) < MaxPerCart + peak' /\ peak' \in Nat
  BY <1>4
<1> QED
  BY <1>3, <1>4, <1>5, <1>6, <1>7 DEF Overlap

LEMMA OverlapStep ==
  ASSUME UploadsInv, [Next /\ UNCHANGED frameAsset]_vars
  PROVE  Overlap'
<1>1. CASE /\ UNCHANGED peak
           /\ InFlight' \subseteq InFlight
           /\ StoredDesigns' \subseteq StoredDesigns \cup InFlight
  <2> DEFINE F == InFlight
             G == InFlight'
             S == StoredDesigns \cup InFlight
             T == StoredDesigns' \cup InFlight'
  <2>1. F \in SUBSET Upload /\ S \in SUBSET Upload /\ G \subseteq F /\ T \subseteq S
    BY <1>1 DEF InFlight, StoredDesigns, Designs
  <2>2. Cardinality(F) <= peak /\ Cardinality(S) < MaxPerCart + peak
    BY DEF UploadsInv, Overlap
  <2> HIDE DEF F, G, S, T
  <2>3. /\ Cardinality(F) \in Nat /\ Cardinality(S) \in Nat
        /\ Cardinality(G) \in Nat /\ Cardinality(T) \in Nat
        /\ IsFiniteSet(F) /\ IsFiniteSet(S)
    BY <2>1, DesignsFinite
  <2>4. Cardinality(G) <= Cardinality(F) /\ Cardinality(T) <= Cardinality(S)
    BY <2>1, <2>3, FS_Subset
  <2>5. peak \in Nat
    BY DEF UploadsInv, KeptInv, UploadsTypeOK
  <2>6. Cardinality(G) <= peak /\ Cardinality(T) < MaxPerCart + peak
    BY <2>2, <2>3, <2>4, <2>5
  <2> QED
    BY <1>1, <2>6 DEF Overlap, G, T
<1> QED
  BY <1>1, DesignSteps, BeginOverlaps DEF UploadsInv

(* The designs of a cart pass the cap by no more than those that were on   *)
(* their way together, in spite of failures and crashes.                   *)
THEOREM CapAlwaysHoldsUpToOverlap == Spec => []CapHoldsUpToOverlap
<1>1. Init => Overlap
  <2> SUFFICES ASSUME Init
               PROVE  Overlap
    OBVIOUS
  <2>1. InFlight = {} /\ StoredDesigns \cup InFlight = {}
    BY DEF Init, InFlight, Running, StoredDesigns, Designs
  <2>2. Cardinality(InFlight) = 0 /\ Cardinality(StoredDesigns \cup InFlight) = 0
    BY <2>1, FS_EmptySet
  <2> QED
    BY <2>2 DEF Init, Overlap
<1>2. KeptInv /\ Overlap /\ [Next /\ UNCHANGED frameAsset]_vars => Overlap'
  BY OverlapStep DEF UploadsInv
<1>3. KeptInv /\ Overlap => CapHoldsUpToOverlap
  <2> SUFFICES ASSUME KeptInv, Overlap
               PROVE  CapHoldsUpToOverlap
    OBVIOUS
  <2> DEFINE S == StoredDesigns
             T == StoredDesigns \cup InFlight
  <2>1. S \in SUBSET Upload /\ T \in SUBSET Upload /\ S \subseteq T
    BY DEF InFlight, StoredDesigns, Designs
  <2>2. Cardinality(T) < MaxPerCart + peak
    BY DEF Overlap
  <2> HIDE DEF S, T
  <2>3. Cardinality(S) \in Nat /\ Cardinality(T) \in Nat /\ IsFiniteSet(T)
    BY <2>1, DesignsFinite
  <2>4. Cardinality(S) <= Cardinality(T)
    BY <2>1, <2>3, FS_Subset
  <2>5. peak \in Nat
    BY DEF KeptInv, UploadsTypeOK
  <2>6. Cardinality(S) < MaxPerCart + peak
    BY <2>2, <2>3, <2>4, <2>5
  <2> QED
    BY <2>6 DEF S, StoredDesigns, CapHoldsUpToOverlap
<1> QED
  BY <1>1, <1>2, <1>3, KeptInvariant, PTL DEF Spec

=============================================================================
