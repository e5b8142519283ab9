------------------------------ MODULE MCServer ------------------------------
(* Small instances of Server. *)
EXTENDS Server, TLC

CONSTANTS admin, reviewer
TwoAccounts == <<admin, reviewer>>
TwoRoles == admin :> "admin" @@ reviewer :> "reviewer"
=============================================================================
