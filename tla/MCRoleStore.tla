----------------------------- MODULE MCRoleStore -----------------------------
(***************************************************************************)
(* Finite instances of RoleStore, with time in minutes: a role is created  *)
(* for one of two users, and its durations are set, cleared and omitted.   *)
(***************************************************************************)
EXTENDS RoleStore, TLC

Create(c, u) == "config" :> c @@ "grant_type" :> "jwt_bearer" @@ "username" :> u

Requests ==
    {Create("c1", "ann"), Create("c1", "bob"), Create("c2", "ann"),
     "config" :> "c1" @@ "grant_type" :> "client_credentials",
     "grant_type" :> "client_credentials",
     "token_ttl" :> 1,
     "token_ttl" :> 1 @@ "renew_skew" :> 0,
     "token_ttl" :> 0 @@ "renew_skew" :> 20,
     "ttl" :> 20 @@ "max_ttl" :> 1,
     "jwt_expiry" :> 20}

ReqSymmetry == Permutations(Req)
=============================================================================
