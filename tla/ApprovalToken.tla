---------------------------- MODULE ApprovalToken ----------------------------
(***************************************************************************)
(* What ContraGate promises of an approval_id, whatever the store, the     *)
(* pipeline and the handlers do to keep it: one token is created for an    *)
(* operation; it is settled at most once, by an approval, by a rejection   *)
(* (human or policy) or by expiry; a settled token never changes; and the  *)
(* operation is dispatched to its target at most once, only on an approved *)
(* token.                                                                  *)
(***************************************************************************)

VARIABLES verdict,    \* what has become of the token
          dispatches  \* how often the operation was sent on its account

tokenVars == <<verdict, dispatches>>

Verdict == {"open", "approved", "rejected", "expired"}

TokenInit ==
    /\ verdict = "open"
    /\ dispatches = 0

Settle(v) ==
    /\ verdict = "open"
    /\ verdict' = v
    /\ UNCHANGED dispatches

Dispatch ==
    /\ verdict = "approved"
    /\ dispatches = 0
    /\ dispatches' = 1
    /\ UNCHANGED verdict

TokenNext ==
    \/ \E v \in Verdict \ {"open"} : Settle(v)
    \/ Dispatch

TokenSpec == TokenInit /\ [][TokenNext]_tokenVars
=============================================================================
