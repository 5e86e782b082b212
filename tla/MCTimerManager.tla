---------------------------- MODULE MCTimerManager ----------------------------
(***************************************************************************)
(* Model values and symmetry for model checking TimerManager.              *)
(***************************************************************************)
EXTENDS TimerManager, TLC

\* Timers are told apart only by their address, and pollers not at all.
TimerSymmetry == Permutations(Timers) \cup Permutations(Pollers)

=============================================================================
