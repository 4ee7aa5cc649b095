---------------------------- MODULE MCDeployment ----------------------------
(* Settings for the checks of VerifyDeploy: a local chain where nothing warns, *)
(* and a simulated TEE on a testnet, with no keys set, where all of them do.   *)
EXTENDS VerifyDeploy

MCSettings ==
    {[local |-> TRUE, simulated |-> TRUE, keys |-> {}, port |-> FALSE, url |-> TRUE,
      ftdc |-> "PASS"],
     [local |-> FALSE, simulated |-> TRUE, keys |-> {}, port |-> TRUE, url |-> FALSE,
      ftdc |-> "WARN"]}
=============================================================================
