--------------------------- MODULE Authorization ----------------------------
(***************************************************************************)
(* What a call of is_valid_request_cspot promises: it answers once, with   *)
(* an answer that is right for what it was given.                          *)
(***************************************************************************)
CONSTANTS
  Calls,        \* what may be given
  Verdicts(_)   \* the right answers to a call

VARIABLES input, verdict

authVars == <<input, verdict>>

Init == input \in Calls /\ verdict = "pending"

Decide ==
  /\ verdict = "pending"
  /\ verdict' \in Verdicts(input)
  /\ UNCHANGED input

Safety == Init /\ [][Decide]_authVars

(* The call returns. *)
Spec == Safety /\ WF_authVars(Decide)
=============================================================================
