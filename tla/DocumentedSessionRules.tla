----------------------- MODULE DocumentedSessionRules -----------------------
(***************************************************************************)
(* What the tests say of passwords, and a run shows the code not to keep   *)
(* for a request that is overtaken while it awaits argon2.                 *)
(***************************************************************************)
EXTENDS Sessions

\* tests/backend-auth.test.ts:576: a login with the old password is refused
\* after a change; :652: a self-service change whose current password is wrong
\* is refused.  Both handlers compare with the hash they read before the await,
\* so a request that a change overtakes succeeds with a password that is not
\* current any more.
PasswordsCheckedAreCurrent ==
    [][\A r \in pending \ pending' :
         \/ r.kind = "login" /\ sessionState' # sessionState
         \/ r.kind = "change" /\ passwordHash' # passwordHash
         => r.hash = passwordHash[r.user]]_vars
=============================================================================
