------------------------------ MODULE Sessions ------------------------------
(***************************************************************************)
(* Password credentials, sessions and scoped access tokens: auth.service,  *)
(* scoped-access.service and the parts of users.service that touch them.   *)
(*                                                                         *)
(* login and changeUserPassword read the credential row, then await argon2 *)
(* in a thread pool, then write: each is a Begin and a Finish action with  *)
(* a pending request in between.  The other handlers do not await.         *)
(*                                                                         *)
(* Ids are AUTOINCREMENT or random UUIDs: the id of a user, a session, a   *)
(* token or an object is never used again.                                 *)
(***************************************************************************)
EXTENDS Naturals

CONSTANTS
    Users,          \* ids of Users rows
    Admins,         \* the users seeded with GGTC_SYSTEMROLE_ADMIN
    SessionIds,     \* ids of Users_Sessions rows
    Tokens,         \* ids of Users_ScopedAccessTokenCredentials rows
    Objects,        \* the projects and organizations a scope can name
    Password,       \* the source of a session that a login created
    RequestIds,     \* bounds the requests under way at once
    MaxHashes       \* bounds the hashes a password credential ever has

ASSUME AdminsAreUsers == Admins \subseteq Users
ASSUME PasswordIsNoToken == Password \notin Tokens
ASSUME MaxHashesPositive == MaxHashes \in Nat \ {0}

VARIABLES
    users,          \* Users
    passwordHash,   \* Users_PasswordCredentials; 0: the user has no row
    sessionState,   \* Users_Sessions: see SessionState
    sessionUser,    \* userId
    sessionSource,  \* authSourceCredentialId, or Password
    tokenState,     \* Users_ScopedAccessTokenCredentials: see TokenState
    tokenOwner,     \* ownerUserId
    scopes,         \* ScopedAccessTokenCredentials_Objects
    objects,        \* Projects and Organizations
    reach,          \* the objects each user can access
    used,           \* ids of users and objects handed out so far
    pending         \* requests that await argon2

credentialVars == <<users, passwordHash>>
sessionVars == <<sessionState, sessionUser, sessionSource>>
tokenVars == <<tokenState, tokenOwner, scopes>>
objectVars == <<objects, reach>>
vars == <<credentialVars, sessionVars, tokenVars, objectVars, used, pending>>

\* "expired": expirationTimestamp has passed; "revoked": revokedAt is set;
\* "deleted": the row is gone.
SessionState == {"unused", "active", "expired", "revoked", "deleted"}

\* No code sets revokedAt of a token: revokeToken deletes the row.
TokenState == {"unused", "active", "expired", "deleted"}

\* A login or a change of password after its first await.  hash is what it
\* read from the credential row; matches says whether the password given
\* belongs to that hash.  An administrator's change of another user's password
\* is not verified.
Request ==
    [id : RequestIds, kind : {"login", "change", "reset"}, user : Users,
     hash : 1..MaxHashes, matches : BOOLEAN, revokeSessions : BOOLEAN]

\* Every variable has its type.
TypeOK ==
    /\ users \subseteq Users
    /\ passwordHash \in [Users -> 0..MaxHashes]
    /\ sessionState \in [SessionIds -> SessionState]
    /\ sessionUser \in [SessionIds -> Users]
    /\ sessionSource \in [SessionIds -> Tokens \cup {Password}]
    /\ tokenState \in [Tokens -> TokenState]
    /\ tokenOwner \in [Tokens -> Users]
    /\ scopes \subseteq Tokens \X Objects
    /\ objects \subseteq Objects
    /\ reach \in [Users -> SUBSET Objects]
    /\ used \subseteq Users \cup Objects
    /\ pending \subseteq Request

sessionRows == {s \in SessionIds : sessionState[s] \notin {"unused", "deleted"}}

tokenRows == {t \in Tokens : tokenState[t] \in {"active", "expired"}}

-----------------------------------------------------------------------------
(***************************************************************************)
(* What a bearer of a session may do.                                      *)
(***************************************************************************)

\* Slip: a session whose token is gone passes for an ordinary one.
missingTokenIsStandard(s) ==
    IF sessionSource[s] \notin tokenRows THEN "standard"
    ELSE IF tokenState[sessionSource[s]] = "active" THEN "scoped_access_token"
    ELSE "rejected"

resolveSessionAuth(s) ==
    IF sessionSource[s] = Password THEN "standard"
    ELSE IF tokenState[sessionSource[s]] = "active" THEN "scoped_access_token"
    ELSE "rejected"

authenticateBearerToken(s) ==
    sessionState[s] = "active" /\ resolveSessionAuth(s) # "rejected"

\* The routes that change accounts, sessions and tokens are not on the
\* allowlist of scoped sessions.
isStandardSession(s) ==
    sessionState[s] = "active" /\ resolveSessionAuth(s) = "standard"

tokenGrantsProjectAccess(t, o) == <<t, o>> \in scopes

\* assertProjectAccessibleWithScopedPolicy
accessible(s) ==
    IF ~ authenticateBearerToken(s) THEN {}
    ELSE {o \in reach[sessionUser[s]] :
            \/ resolveSessionAuth(s) = "standard"
            \/ tokenGrantsProjectAccess(sessionSource[s], o)}

hasSystemAdminRole(u) == u \in Admins

canActFor(actor, u) == actor = u \/ hasSystemAdminRole(actor)

-----------------------------------------------------------------------------
(***************************************************************************)
(* auth.service                                                            *)
(***************************************************************************)

\* The hash is computed first; user and credential rows are one transaction.
register(u) ==
    /\ u \notin used
    /\ used' = used \cup {u}
    /\ users' = users \cup {u}
    /\ passwordHash' = [passwordHash EXCEPT ![u] = 1]
    /\ UNCHANGED <<sessionVars, tokenVars, objectVars, pending>>

isFreeRequest(id) == \A r \in pending : r.id # id

BeginLogin(id, u, matches) ==
    /\ isFreeRequest(id)
    /\ u \in users
    /\ pending' = pending \cup
         {[id |-> id, kind |-> "login", user |-> u, hash |-> passwordHash[u],
           matches |-> matches, revokeSessions |-> FALSE]}
    /\ UNCHANGED <<credentialVars, sessionVars, tokenVars, objectVars, used>>

\* Slip: the row is inserted without asking whether the user still exists.
createSessionUnchecked(s, u, source) ==
    /\ sessionState[s] = "unused"
    /\ sessionState' = [sessionState EXCEPT ![s] = "active"]
    /\ sessionUser' = [sessionUser EXCEPT ![s] = u]
    /\ sessionSource' = [sessionSource EXCEPT ![s] = source]

\* The foreign key on userId refuses a session of a user who is gone.
createSessionForUser(s, u, source) ==
    /\ sessionState[s] = "unused"
    /\ u \in users
    /\ sessionState' = [sessionState EXCEPT ![s] = "active"]
    /\ sessionUser' = [sessionUser EXCEPT ![s] = u]
    /\ sessionSource' = [sessionSource EXCEPT ![s] = source]

FinishLogin(r, s) ==
    /\ r.kind = "login"
    /\ r.matches
    /\ createSessionForUser(s, r.user, Password)
    /\ pending' = pending \ {r}
    /\ UNCHANGED <<credentialVars, tokenVars, objectVars, used>>

\* Slip: rows of other users that come with an own one are not checked.
canRevokeSome(actor, ids) == \E s \in ids : canActFor(actor, sessionUser[s])

assertCanManageUserSessions(actor, ids) ==
    \A s \in ids : canActFor(actor, sessionUser[s])

\* Ids without a row are ignored.
revokeSessions(actor, ids) ==
    /\ ids # {} /\ ids \subseteq sessionRows
    /\ assertCanManageUserSessions(actor, ids)
    /\ sessionState' =
         [s \in SessionIds |-> IF s \in ids THEN "deleted" ELSE sessionState[s]]
    /\ UNCHANGED <<credentialVars, sessionUser, sessionSource, tokenVars,
                   objectVars, used, pending>>

-----------------------------------------------------------------------------
(***************************************************************************)
(* users.service                                                           *)
(***************************************************************************)
BeginChange(actor, id, u, matches, revokeAll) ==
    /\ isFreeRequest(id)
    /\ u \in users
    /\ canActFor(actor, u)
    /\ actor # u => matches
    /\ pending' = pending \cup
         {[id |-> id, kind |-> IF actor = u THEN "change" ELSE "reset",
           user |-> u, hash |-> passwordHash[u], matches |-> matches,
           revokeSessions |-> revokeAll]}
    /\ UNCHANGED <<credentialVars, sessionVars, tokenVars, objectVars, used>>

revokeSessionsOfUser(r) ==
    sessionState' =
      [s \in SessionIds |->
         IF /\ r.revokeSessions /\ sessionUser[s] = r.user
            /\ sessionState[s] \in {"active", "expired"}
         THEN "revoked" ELSE sessionState[s]]

\* Both updates are one transaction.  They match no row when the user was
\* deleted meanwhile, and the request succeeds all the same.
FinishChange(r) ==
    /\ r.kind \in {"change", "reset"}
    /\ r.matches
    /\ IF r.user \in users
       THEN /\ passwordHash[r.user] < MaxHashes
            /\ passwordHash' = [passwordHash EXCEPT ![r.user] = @ + 1]
       ELSE UNCHANGED passwordHash
    /\ revokeSessionsOfUser(r)
    /\ pending' = pending \ {r}
    /\ UNCHANGED <<users, sessionUser, sessionSource, tokenVars, objectVars,
                   used>>

\* The password does not match, or a login's user is gone.
Reject(r) ==
    /\ ~ r.matches \/ (r.kind = "login" /\ r.user \notin users)
    /\ pending' = pending \ {r}
    /\ UNCHANGED <<credentialVars, sessionVars, tokenVars, objectVars, used>>

\* The guards on owners and managers are those of Accounts.DeleteUser, and the
\* transaction fails for the author of content that still exists (ON DELETE
\* RESTRICT): those deletions are no steps, here any user may go.
\* Credentials and tokens go with the user's credential types, scopes with
\* the tokens (ON DELETE CASCADE).
deleteUser(actor, u) ==
    /\ u \in users
    /\ canActFor(actor, u)
    /\ users' = users \ {u}
    /\ passwordHash' = [passwordHash EXCEPT ![u] = 0]
    /\ sessionState' =
         [s \in SessionIds |->
            IF s \in sessionRows /\ sessionUser[s] = u
            THEN "deleted" ELSE sessionState[s]]
    /\ tokenState' =
         [t \in Tokens |->
            IF t \in tokenRows /\ tokenOwner[t] = u
            THEN "deleted" ELSE tokenState[t]]
    /\ scopes' = {x \in scopes : tokenOwner[x[1]] # u}
    /\ reach' = [reach EXCEPT ![u] = {}]
    /\ UNCHANGED <<sessionUser, sessionSource, tokenOwner, objects, used,
                   pending>>

-----------------------------------------------------------------------------
(***************************************************************************)
(* scoped-access.service                                                   *)
(***************************************************************************)
isOwnToken(actor, t) == t \in tokenRows /\ tokenOwner[t] = actor

createToken(actor, t) ==
    /\ tokenState[t] = "unused"
    /\ actor \in users
    /\ tokenState' = [tokenState EXCEPT ![t] = "active"]
    /\ tokenOwner' = [tokenOwner EXCEPT ![t] = actor]
    /\ UNCHANGED <<credentialVars, sessionVars, scopes, objectVars, used,
                   pending>>

\* The scope rows go with the token row.
revokeToken(actor, t) ==
    /\ isOwnToken(actor, t)
    /\ tokenState' = [tokenState EXCEPT ![t] = "deleted"]
    /\ scopes' = {x \in scopes : x[1] # t}
    /\ UNCHANGED <<credentialVars, sessionVars, tokenOwner, objectVars, used,
                   pending>>

\* Slip: the two ids change places in the inserted row.
addScopeWithSwappedIds(actor, t, o) ==
    /\ isOwnToken(actor, t)
    /\ o \in objects
    /\ o \in reach[actor]
    /\ scopes' = scopes \cup {<<o, t>>}
    /\ UNCHANGED <<credentialVars, sessionVars, tokenState, tokenOwner,
                   objectVars, used, pending>>

\* addProjectScope and addOrganizationScope
addScope(actor, t, o) ==
    /\ isOwnToken(actor, t)
    /\ o \in objects
    /\ o \in reach[actor]
    /\ <<t, o>> \notin scopes
    /\ scopes' = scopes \cup {<<t, o>>}
    /\ UNCHANGED <<credentialVars, sessionVars, tokenState, tokenOwner,
                   objectVars, used, pending>>

\* removeProjectScope and removeOrganizationScope
removeScope(actor, t, o) ==
    /\ isOwnToken(actor, t)
    /\ <<t, o>> \in scopes
    /\ scopes' = scopes \ {<<t, o>>}
    /\ UNCHANGED <<credentialVars, sessionVars, tokenState, tokenOwner,
                   objectVars, used, pending>>

redeemToken(t, s) ==
    /\ tokenState[t] = "active"
    /\ createSessionForUser(s, tokenOwner[t], t)
    /\ UNCHANGED <<credentialVars, tokenVars, objectVars, used, pending>>

-----------------------------------------------------------------------------
(***************************************************************************)
(* Time, and the handlers of the other services as seen from here: who can *)
(* access an object changes with its members, roles and links.             *)
(***************************************************************************)
SessionExpires(s) ==
    /\ sessionState[s] = "active"
    /\ sessionState' = [sessionState EXCEPT ![s] = "expired"]
    /\ UNCHANGED <<credentialVars, sessionUser, sessionSource, tokenVars,
                   objectVars, used, pending>>

TokenExpires(t) ==
    /\ tokenState[t] = "active"
    /\ tokenState' = [tokenState EXCEPT ![t] = "expired"]
    /\ UNCHANGED <<credentialVars, sessionVars, tokenOwner, scopes, objectVars,
                   used, pending>>

createObject(u, o) ==
    /\ u \in users
    /\ o \notin used
    /\ objects' = objects \cup {o}
    /\ reach' = [reach EXCEPT ![u] = @ \cup {o}]
    /\ used' = used \cup {o}
    /\ UNCHANGED <<credentialVars, sessionVars, tokenVars, pending>>

\* No foreign key joins a scope to its object: the scope rows stay.
deleteObject(o) ==
    /\ o \in objects
    /\ objects' = objects \ {o}
    /\ reach' = [u \in Users |-> reach[u] \ {o}]
    /\ UNCHANGED <<credentialVars, sessionVars, tokenVars, used, pending>>

changeAccess(u, o) ==
    /\ u \in users
    /\ o \in objects
    /\ reach' = [reach EXCEPT ![u] = IF o \in @ THEN @ \ {o} ELSE @ \cup {o}]
    /\ UNCHANGED <<credentialVars, sessionVars, tokenVars, objects, used,
                   pending>>

-----------------------------------------------------------------------------
\* The administrators are seeded with a password.
Init ==
    /\ users = Admins
    /\ passwordHash = [u \in Users |-> IF u \in Admins THEN 1 ELSE 0]
    /\ sessionState = [s \in SessionIds |-> "unused"]
    /\ sessionUser \in {[s \in SessionIds |-> u] : u \in Users}
    /\ sessionSource = [s \in SessionIds |-> Password]
    /\ tokenState = [t \in Tokens |-> "unused"]
    /\ tokenOwner \in {[t \in Tokens |-> u] : u \in Users}
    /\ scopes = {}
    /\ objects = {}
    /\ reach = [u \in Users |-> {}]
    /\ used = Admins
    /\ pending = {}

\* What the bearer of a standard session of actor may ask for.
AccountHandlers(actor) ==
    \/ \E ids \in SUBSET sessionRows : revokeSessions(actor, ids)
    \/ \E id \in RequestIds, u \in users, matches, revokeAll \in BOOLEAN :
          BeginChange(actor, id, u, matches, revokeAll)
    \/ \E u \in users : deleteUser(actor, u)

TokenHandlers(actor) ==
    \E t \in Tokens :
        \/ createToken(actor, t)
        \/ revokeToken(actor, t)
        \/ \E o \in Objects : addScope(actor, t, o) \/ removeScope(actor, t, o)

\* What needs no session, what ends a request, and what happens elsewhere.
OpenHandlers ==
    \/ \E u \in Users : register(u)
    \/ \E id \in RequestIds, u \in users, matches \in BOOLEAN :
          BeginLogin(id, u, matches)
    \/ \E t \in Tokens, s \in SessionIds : redeemToken(t, s)

Completions ==
    \E r \in pending :
        \/ \E s \in SessionIds : FinishLogin(r, s)
        \/ FinishChange(r)
        \/ Reject(r)

Environment ==
    \/ \E s \in SessionIds : SessionExpires(s)
    \/ \E t \in Tokens : TokenExpires(t)
    \/ \E o \in Objects :
          \/ deleteObject(o)
          \/ \E u \in Users : createObject(u, o) \/ changeAccess(u, o)

Next ==
    \/ \E s \in SessionIds :
          /\ isStandardSession(s)
          /\ AccountHandlers(sessionUser[s]) \/ TokenHandlers(sessionUser[s])
    \/ OpenHandlers
    \/ Completions
    \/ Environment

Spec == Init /\ [][Next]_vars

-----------------------------------------------------------------------------
\* No credential, session, token or scope outlives the user or the token it
\* belongs to, although a login may be under way while its user is deleted.
NothingOutlivesItsUser ==
    /\ \A u \in Users : passwordHash[u] # 0 <=> u \in users
    /\ \A s \in sessionRows : sessionUser[s] \in users
    /\ \A t \in tokenRows : tokenOwner[t] \in users
    /\ \A x \in scopes : x[1] \in tokenRows

\* A session redeemed from a token comes to reach an object only when the
\* owner adds a scope for it, or the owner, who had lost access to an object
\* that still exists, regains it.  No end of a token, and no new object,
\* widens what the session reaches.
ScopedReachGrowsOnlyByGrant ==
    [][\A s \in SessionIds :
         sessionState[s] # "unused" /\ sessionSource[s] # Password =>
           \A o \in accessible(s)' \ accessible(s) :
               \/ <<sessionSource[s], o>> \notin scopes
               \/ o \in objects /\ o \notin reach[sessionUser[s]]
      ]_vars

usableSessionsEnded ==
    {s \in SessionIds : authenticateBearerToken(s) /\ ~ authenticateBearerToken(s)'}

\* A session that could be used stops being usable only when its time or its
\* token's is over, when its token goes, when a change of its user's password
\* asks for it, or when its row is deleted; and rows deleted together are all
\* of the one user who asked, or an administrator asked.
SessionsEndForAReason ==
    [][LET deleted ==
               {s \in usableSessionsEnded : sessionState'[s] = "deleted"}
       IN  /\ \A s \in usableSessionsEnded \ deleted :
                 \/ sessionState'[s] = "expired"
                 \/ sessionSource[s] # Password /\ tokenState' # tokenState
                 \/ \E r \in pending \ pending' :
                       r.user = sessionUser[s] /\ r.matches /\ r.revokeSessions
           /\ deleted # {} =>
                 \E a \in SessionIds :
                    /\ isStandardSession(a)
                    /\ \A s \in deleted :
                          canActFor(sessionUser[a], sessionUser[s])
      ]_vars
=============================================================================
