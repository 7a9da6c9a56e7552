------------------------------- MODULE MCWebLog -------------------------------
(***************************************************************************)
(* Values of the constants of the module WebLog that a configuration file   *)
(* cannot write: the groups of upstreams in their order.                    *)
(***************************************************************************)
EXTENDS WebLog

MCBuiltInGroups == <<"domestic", "nocnfake">>
MCSlotGroups == <<"slot 2", "slot 5">>

=============================================================================
