---------------------------- MODULE VersionLookup ----------------------------
(***************************************************************************)
(* What the version search of go_install() (src/dev/setup.py) computes,    *)
(* stated as one atomic step: the version of the longest proper prefix of  *)
(* the tool path, of at least three segments, that 'go list -m' resolves;  *)
(* when none does, the empty output of the last failed lookup if any was   *)
(* tried, and the exception "Failed to find version" if none was.          *)
(*                                                                         *)
(* Module GoVersion implements it with its loop; the mapping is there.     *)
(***************************************************************************)
EXTENDS Integers

CONSTANTS
    MaxSegments,    \* bound on the number of segments of a tool path
    NoVersion,      \* Python's None
    Empty,          \* the empty output of a failed lookup
    Explicit        \* a version given by the caller

VARIABLES
    n,          \* number of segments of the tool's package path
    ok,         \* the prefix lengths for which 'go list -m' succeeds
    explicit,   \* whether the caller passed a version
    version,    \* the version passed to 'go install' once it is known
    phase       \* "lookup", then "install" or "raised"

vars == <<n, ok, explicit, version, phase>>

(* The prefixes the loop may look up that resolve.                         *)
Resolved == ok \cap 3..(n - 1)

(* The greatest element of a non-empty finite set of integers.             *)
Greatest(S) == CHOOSE j \in S : \A m \in S : m <= j

(* The reference answer of the search.                                     *)
Answer ==
    IF Resolved # {} THEN Greatest(Resolved)
    ELSE IF n > 3 THEN Empty
    ELSE NoVersion

Init ==
    /\ n \in 1..MaxSegments
    /\ ok \in SUBSET (1..n)
    /\ explicit \in BOOLEAN
    /\ version = IF explicit THEN Explicit ELSE NoVersion
    /\ phase = IF explicit THEN "install" ELSE "lookup"

(* The whole 'if version is None:' block of go_install() at once.          *)
Lookup ==
    /\ phase = "lookup"
    /\ version' = Answer
    /\ phase' = IF Answer = NoVersion THEN "raised" ELSE "install"
    /\ UNCHANGED <<n, ok, explicit>>

Spec == Init /\ [][Lookup]_vars

(* A lookup that has begun is finished: go_install() goes on to install  *)
(* or raises.                                                              *)
FairSpec == Spec /\ WF_vars(Lookup)

=============================================================================
