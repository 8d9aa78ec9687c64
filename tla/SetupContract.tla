---------------------------- MODULE SetupContract ----------------------------
(***************************************************************************)
(* What the 'setup' command (setup() in src/dev/setup.py) promises, with   *)
(* the installers hidden: a sequence of invocations, one at a time, during *)
(* which tools become findable by shutil.which() and never stop being so,  *)
(* and which end either normally or not.  An invocation that returned      *)
(* normally with every external command succeeding has left every tool it  *)
(* is required to install findable.                                        *)
(*                                                                         *)
(* Module Setup implements it; the refinement mapping is there.            *)
(***************************************************************************)
EXTENDS Naturals

CONSTANTS
    Tools,      \* the tools setup() installs
    MaxRuns     \* bound on the number of invocations

VARIABLES
    found,      \* the tools shutil.which() finds
    required,   \* the tools a clean invocation must leave findable
    running,    \* whether an invocation is in progress
    lastClean,  \* the last invocation returned normally and cleanly
    runs        \* number of invocations started

vars == <<found, required, running, lastClean, runs>>

Init ==
    /\ found = {}
    /\ required \subseteq Tools
    /\ running = FALSE
    /\ lastClean = FALSE
    /\ runs = 0

(* The user runs 'dev.py setup'.                                           *)
Start ==
    /\ ~running
    /\ runs < MaxRuns
    /\ running' = TRUE
    /\ lastClean' = FALSE
    /\ runs' = runs + 1
    /\ UNCHANGED <<found, required>>

(* An installer of the running invocation: tools may become findable,     *)
(* none stops being so.                                                    *)
Install ==
    /\ running
    /\ found \subseteq found'
    /\ found' \subseteq Tools
    /\ UNCHANGED <<required, running, lastClean, runs>>

(* The invocation ends, normally or not, possibly installing on its way   *)
(* out; it may only count as clean when every required tool is findable.  *)
Return ==
    /\ running
    /\ running' = FALSE
    /\ found \subseteq found'
    /\ found' \subseteq Tools
    /\ lastClean' \in BOOLEAN
    /\ lastClean' => required \subseteq found'
    /\ UNCHANGED <<required, runs>>

Next == Start \/ Install \/ Return

Spec == Init /\ [][Next]_vars

=============================================================================
