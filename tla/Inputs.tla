------------------------------- MODULE Inputs -------------------------------
(***************************************************************************)
(* What the gateway reads and did not write: the forwarded addresses of a  *)
(* request, the scripts of the NAS.  Two machines that share no state; a   *)
(* behaviour is one of either.                                             *)
(***************************************************************************)
EXTENDS ClientAddress, ScriptScan

VARIABLE part   \* "address" or "script"

vars == <<part, addressVars, scriptVars>>

\* The machine that is not chosen stays in one state.
Init ==
    /\ AddressInit /\ ScriptInit
    /\ \/ part = "address"
       \/ /\ part = "script"
          /\ client = (CHOOSE c \in Addresses : TRUE) /\ header = <<>>

Next ==
    /\ \/ part = "address" /\ AddressNext /\ UNCHANGED scriptVars
       \/ part = "script" /\ ScriptNext /\ UNCHANGED addressVars
    /\ UNCHANGED part

Spec == Init /\ [][Next]_vars
=============================================================================
