------------------------------- MODULE MCSetup -------------------------------
(***************************************************************************)
(* Setup on a sub-sequence of setup()'s installers that keeps one of each  *)
(* kind in the code's order, over three invocations: enough for a kill or  *)
(* a failed download in one run to be seen by the next two.                *)
(***************************************************************************)
EXTENDS Setup

MCOrder == <<"controller-gen", "golangci-lint", "opm">>
MCMaxRuns == 3

=============================================================================
