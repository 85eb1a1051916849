-------------------------- MODULE MCChargingHazards --------------------------
(* Instance of ChargingHazards with the service's four built-in accounts.     *)
EXTENDS ChargingHazards

CONSTANTS prosecutor, regulator, operator, inspector, contractor

MCAccounts == {prosecutor, regulator, operator, inspector}
MCPeople   == {operator, contractor}
MCRole     == [u \in MCAccounts |->
                 CASE u = prosecutor -> "prosecutor" [] u = regulator -> "regulator"
                   [] u = operator -> "operator"     [] OTHER -> "inspector"]
==============================================================================
