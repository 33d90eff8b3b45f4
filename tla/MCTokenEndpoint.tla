-------------------------- MODULE MCTokenEndpoint --------------------------
(* Small instances of TokenEndpoint.  app is a confidential client with all  *)
(* three grants, spa a public one; both are registered for every scope.      *)
EXTENDS TokenEndpoint, TLC

CONSTANTS app, spa, profile, offline

MCGrants == (app :> GrantTypes) @@ (spa :> {"authorization_code", "refresh_token"})
MCAllowed == [cl \in {app, spa} |-> {profile, offline}]
MCGrants1 == (app :> {"authorization_code", "refresh_token"})
MCAllowed1 == (app :> {profile, offline})

(* For the ledger: one client always gets a refresh token, the other never.  *)
MCGrants2 == [cl \in {app, spa} |-> {"authorization_code", "refresh_token"}]
MCAllowed2 == (app :> {offline}) @@ (spa :> {profile})

Interchangeable == Permutations(Reqs) \cup Permutations(ATokens) \cup Permutations(RTokens)
                     \cup Permutations(Families) \cup Permutations(Codes)
=============================================================================
