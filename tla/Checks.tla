------------------------------- MODULE Checks -------------------------------
(***************************************************************************)
(* A verifier is a row of checks, each of which raises its own error: the  *)
(* first that does not hold is the one the caller sees.                    *)
(***************************************************************************)
EXTENDS Naturals, Sequences, FiniteSetsExt

Check(holds, err) == [ok |-> holds, err |-> err]

FirstError(checks) ==
  LET bad == {n \in DOMAIN checks : ~ checks[n].ok}
  IN  IF bad = {} THEN "ok" ELSE checks[Min(bad)].err
=============================================================================
