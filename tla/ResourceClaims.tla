--------------------------- MODULE ResourceClaims ---------------------------
(***************************************************************************)
(* The ResourceClaims the driver serves, known by their UIDs, and the gRPC *)
(* handler goroutines that serve the calls about them.  The server starts  *)
(* a goroutine for every call (runGRPCServer in cmd/driver/main.go), and   *)
(* nothing serialises the calls about one claim.                           *)
(***************************************************************************)
CONSTANTS Claims, Workers
=============================================================================
