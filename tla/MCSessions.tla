----------------------------- MODULE MCSessions -----------------------------
(* Two owners and an account that may be created.  Four requests may be a  *)
(* login, two that redeem the same token and a logout, or the logins of    *)
(* two owners and their updates of each other.                             *)
EXTENDS Sessions, TLC

CONSTANTS ann, bob, eve

MCInitialRole == ann :> "OWNER_ADMIN" @@ bob :> "OWNER_ADMIN" @@ eve :> NoAccount

Interchangeable == Permutations(Request)

=============================================================================
