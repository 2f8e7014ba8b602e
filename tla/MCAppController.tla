-------------------------- MODULE MCAppController --------------------------
(***************************************************************************)
(* Instances of AppController for TLC: requests that behave differently    *)
(* while the controller is busy.  AUTH waits for a finished AUTH,          *)
(* SELF_AUTH or CHANGE_PIN, CHANGE_PIN for any workflow, the others never. *)
(***************************************************************************)
EXTENDS AppController, TLC

CONSTANTS auth, pin, selfAuth

MCRequests == {auth, pin, selfAuth}
MCAction   == (auth :> "AUTH") @@ (pin :> "CHANGE_PIN") @@ (selfAuth :> "SELF_AUTH")
=============================================================================
