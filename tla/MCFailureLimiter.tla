-------------------------- MODULE MCFailureLimiter --------------------------
(***************************************************************************)
(* Instances of FailureLimiter for TLC.  The limits are scaled down from   *)
(* five failures, five and fifteen minutes; the block stays longer than    *)
(* the window, and the clock runs past window and block together.  The     *)
(* sign-in form takes the steps of the token endpoint under a limiter of   *)
(* its own, so the run has the two surfaces that share one.                *)
(***************************************************************************)
EXTENDS FailureLimiter, TLC

CallerSymmetry == Permutations(Callers)

=============================================================================
