-------------------------- MODULE MCConnectionPool --------------------------
(***************************************************************************)
(* A library call or a worker, an endpoint or a second library call, and   *)
(* the unlocker: the nested scopes of two calls take all five connections  *)
(* in several ways, and every caller of the module meets an empty pool.    *)
(***************************************************************************)
EXTENDS ConnectionPool, TLC

CONSTANTS r1, r2, u

MCMenu ==
    r1 :> {"library", "workers"} @@ r2 :> {"library", "api"} @@ u :> {"unlocker"}

=============================================================================
