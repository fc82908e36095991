------------------------------- MODULE MCConsole -------------------------------
(* An instance for TLC: two runs, and up to two calls in flight. *)
EXTENDS ConsoleProperties

TwoRuns == <<"first", "second">>

=============================================================================
