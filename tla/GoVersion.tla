------------------------------ MODULE GoVersion ------------------------------
(***************************************************************************)
(* How go_install() (src/dev/setup.py) finds the version of a tool whose   *)
(* caller gave none, and what it then passes to 'go install'.              *)
(*                                                                         *)
(* The tool is a package path of n segments.  The loop tries the prefixes *)
(* of i segments for i = n-1, n-2, ..., 3 with 'go list -m', assigns the   *)
(* command's standard output to 'version' each time and stops at the      *)
(* first exit code 0.  A prefix is abstracted to its length i; the version *)
(* 'go list' prints for it to the number i; the empty output of a failed   *)
(* lookup to Empty; Python's None to NoVersion.                            *)
(***************************************************************************)
EXTENDS Integers

CONSTANTS
    MaxSegments     \* bound on the number of segments of a tool path

ASSUME MaxSegmentsAssumption == MaxSegments \in Nat

NoVersion == -1     \* None: no version given and none looked up
Empty     == 0      \* the empty standard output of a failed 'go list'
Explicit  == -2     \* a version given by the caller

Phases == {"probe", "check", "install", "raised"}

VARIABLES
    n,          \* number of segments of the tool's package path
    ok,         \* the prefix lengths for which 'go list -m' succeeds
    explicit,   \* whether the caller passed a version
    i,          \* the loop variable
    version,    \* the variable 'version' of go_install()
    probed,     \* the prefix lengths looked up so far
    phase       \* where go_install() is

vars == <<n, ok, explicit, i, version, probed, phase>>

TypeOK ==
    /\ n \in 1..MaxSegments
    /\ ok \subseteq 1..n
    /\ explicit \in BOOLEAN
    /\ i \in Int
    /\ version \in {NoVersion, Empty, Explicit} \cup 1..n
    /\ probed \subseteq 1..n
    /\ phase \in Phases

(* Mutant: the loop starts at the complete path, range(len(segments), 2,  *)
(* -1), as the comment above the loop says it should.                      *)
InitFromFullPath ==
    /\ n \in 1..MaxSegments
    /\ ok \in SUBSET (1..n)
    /\ explicit \in BOOLEAN
    /\ i = n
    /\ version = IF explicit THEN Explicit ELSE NoVersion
    /\ probed = {}
    /\ phase = IF explicit THEN "install" ELSE "probe"

(* Any tool path and any answers of 'go list'.  With a version, the       *)
(* 'if version is None' block is skipped.                                  *)
Init ==
    /\ n \in 1..MaxSegments
    /\ ok \in SUBSET (1..n)
    /\ explicit \in BOOLEAN
    /\ i = n - 1
    /\ version = IF explicit THEN Explicit ELSE NoVersion
    /\ probed = {}
    /\ phase = IF explicit THEN "install" ELSE "probe"

(* Mutant: the loop without its break.                                     *)
ProbeNoBreak ==
    /\ phase = "probe" /\ i > 2
    /\ probed' = probed \cup {i}
    /\ version' = IF i \in ok THEN i ELSE Empty
    /\ i' = i - 1
    /\ UNCHANGED <<n, ok, explicit, phase>>

(* Mutant: the loop runs down to the empty prefix, range(n-1, -1, -1).    *)
ProbeToEmptyPrefix ==
    /\ phase = "probe" /\ i >= 0
    /\ probed' = probed \cup {i}
    /\ \/ i \in ok /\ version' = i /\ phase' = "check" /\ UNCHANGED i
       \/ i \notin ok /\ version' = Empty /\ i' = i - 1 /\ UNCHANGED phase
    /\ UNCHANGED <<n, ok, explicit>>

(* One iteration of 'for i in range(len(segments)-1, 2, -1)': look up the *)
(* prefix of i segments, keep its output, break on exit code 0.            *)
Probe ==
    /\ phase = "probe" /\ i > 2
    /\ probed' = probed \cup {i}
    /\ \/ i \in ok /\ version' = i /\ phase' = "check" /\ UNCHANGED i
       \/ i \notin ok /\ version' = Empty /\ i' = i - 1 /\ UNCHANGED phase
    /\ UNCHANGED <<n, ok, explicit>>

(* The range is exhausted.                                                 *)
LoopEnd ==
    /\ phase = "probe" /\ i <= 2
    /\ phase' = "check"
    /\ UNCHANGED <<n, ok, explicit, i, version, probed>>

(* 'if version is None: raise Exception(...)', else go on to install.      *)
CheckVersion ==
    /\ phase = "check"
    /\ phase' = IF version = NoVersion THEN "raised" ELSE "install"
    /\ UNCHANGED <<n, ok, explicit, i, version, probed>>

Next == Probe \/ LoopEnd \/ CheckVersion

Spec == Init /\ [][Next]_vars

(* go_install() is one sequential Python function: as long as every 'go   *)
(* list' it runs returns, its next statement runs.  A command that hangs   *)
(* (there is no timeout) is outside this assumption.                       *)
FairSpec == Spec /\ WF_vars(Next)

(* The refinement mapping to VersionLookup: while the loop runs and until *)
(* the None check, the lookup has not happened.                            *)
AbsPhase   == IF phase \in {"probe", "check"} THEN "lookup" ELSE phase
AbsVersion == IF phase \in {"probe", "check"} THEN NoVersion ELSE version

Abstract == INSTANCE VersionLookup WITH phase <- AbsPhase, version <- AbsVersion

-----------------------------------------------------------------------------
(* The longest prefix, among those of n-1 down to 3 segments, that 'go     *)
(* list' resolves.                                                         *)
LongestResolved == {j \in ok \cap 3..(n - 1) : \A m \in ok \cap 3..(n - 1) : m <= j}

(* The spec (section 8): probing goes from long to short prefixes and      *)
(* stops at the first success, whose version is the one used.  So when     *)
(* 'go install' runs and a probed prefix resolved, the version is the      *)
(* longest resolved prefix and nothing shorter was looked up.              *)
FirstSuccessUsed ==
    (phase = "install" /\ ~explicit /\ ok \cap 3..(n - 1) # {})
        => /\ version \in LongestResolved
           /\ \A j \in probed : j >= version

(* The spec (section 4.1, step 3): when no prefix resolves, go_install()   *)
(* fails with "version not found" and runs no 'go install'.  The code      *)
(* keeps the empty output of the last failed lookup instead of None.       *)
ExhaustionRaises ==
    phase = "install" => version # Empty

(* The spec (section 4.1, step 3, and the code's comment): the complete    *)
(* package path is tried first.  The loop starts at n-1 segments.          *)
FullPathTriedFirst ==
    (phase = "install" /\ ~explicit /\ n \in ok) => version = n

(* The loop of go_install() implements the atomic lookup of VersionLookup:  *)
(* every probe and the loop's end are invisible, the None check is the   *)
(* lookup and yields the longest resolved prefix, the empty output of the *)
(* last failed probe, or the exception; and every search ends, provided    *)
(* each 'go list' returns.                                                 *)
LookupRefined == Abstract!FairSpec

=============================================================================
