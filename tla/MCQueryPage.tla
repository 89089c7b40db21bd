---------------------------- MODULE MCQueryPage -----------------------------
(* The query browser for TLC: one selector that matches some of the accounts,
   and one that is not valid. *)
EXTENDS QueryPage, TLC

CONSTANTS active, closed, some, wrong

MCSelected == (some :> {active}) @@ (wrong :> {})
=============================================================================
