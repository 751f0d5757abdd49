-------------------------- MODULE MCWaitForInstance --------------------------
(***************************************************************************)
(* WaitForInstance for TLC: machines without an installation, with one the *)
(* registry names, with one only in the default place, with a registry key *)
(* left over from a removed one beside a usable copy in the application's  *)
(* folder, and with a stale copy in the application's folder.              *)
(***************************************************************************)
EXTENDS WaitForInstance

MCGood == [registry |-> "registry", holds |-> {"registry"}, app |-> "none"]

MCInstallations ==
    {MCGood,
     [registry |-> "none",     holds |-> {},          app |-> "none"],
     [registry |-> "none",     holds |-> {"default"}, app |-> "none"],
     [registry |-> "registry", holds |-> {},          app |-> "good"],
     [registry |-> "registry", holds |-> {"registry", "default"}, app |-> "stale"]}

MCGoodOnly == {MCGood}

=============================================================================
