--------------------------- MODULE GoVersionProofs ---------------------------
(***************************************************************************)
(* Proofs about the version search of go_install(), for every bound on    *)
(* the number of segments.                                                 *)
(***************************************************************************)
EXTENDS GoVersion, TLAPS

USE MaxSegmentsAssumption

(* The loop has found a version: 'version' holds the length of a prefix.  *)
Found == version \in 1..n

(* What the loop has done so far: it looked up the prefixes from n-1 down *)
(* to i (down to i+1 while no lookup succeeded), none of the longer ones  *)
(* resolved, and the loop only leaves 'probe' by a success or when the    *)
(* range is exhausted.                                                     *)
SearchInv ==
    /\ i <= n - 1
    /\ ok \cap (i + 1)..(n - 1) = {}
    /\ probed = (IF Found THEN i ELSE i + 1)..(n - 1)
    /\ Found => i \in ok /\ i >= 3 /\ version = i
    /\ ~Found => version \in {NoVersion, Empty}
    /\ phase = "probe" => ~Found
    /\ (phase # "probe" /\ ~Found) => i <= 2
    /\ ~Found => (version = NoVersion <=> i = n - 1)
    /\ ~Found => (i >= 2 \/ i = n - 1)

IInv ==
    /\ TypeOK
    /\ explicit => version = Explicit /\ phase = "install" /\ probed = {}
    /\ ~explicit => SearchInv

-----------------------------------------------------------------------------
LEMMA InitIInv == Init => IInv
<1> SUFFICES ASSUME Init PROVE IInv
    OBVIOUS
<1>1. TypeOK
    BY DEF Init, TypeOK, NoVersion, Explicit, Phases
<1>2. explicit => version = Explicit /\ phase = "install" /\ probed = {}
    BY DEF Init
<1>3. ~explicit => SearchInv
    BY DEF Init, SearchInv, Found, NoVersion, Empty
<1> QED
    BY <1>1, <1>2, <1>3 DEF IInv

(* A lookup that fails moves on to the next shorter prefix; one that      *)
(* succeeds ends the loop with that prefix's version.                     *)
LEMMA ProbeIInv == IInv /\ Probe => IInv'
<1> SUFFICES ASSUME IInv, Probe PROVE IInv'
    OBVIOUS
<1>1. ~explicit /\ SearchInv /\ ~Found /\ i \in Int /\ n \in 1..MaxSegments
    BY DEF IInv, Probe, SearchInv, TypeOK, Found
<1>2. CASE i \in ok /\ version' = i /\ phase' = "check" /\ UNCHANGED i
    <2>1. Found'
        BY <1>1, <1>2 DEF Probe, SearchInv, Found
    <2>2. TypeOK'
        <3>1. i \in 3..(n - 1) /\ probed = (i + 1)..(n - 1)
            BY <1>1, <1>2 DEF Probe, SearchInv, Found
        <3>2. version' \in 1..n' /\ probed' \subseteq 1..n'
            BY <1>1, <1>2, <3>1 DEF Probe
        <3> QED
            BY <1>1, <1>2, <3>2 DEF IInv, Probe, TypeOK, Phases
    <2>3. SearchInv'
        BY <1>1, <1>2, <2>1 DEF Probe, SearchInv, Found
    <2> QED
        BY <1>1, <2>2, <2>3 DEF IInv, Probe
<1>3. CASE i \notin ok /\ version' = Empty /\ i' = i - 1 /\ UNCHANGED phase
    <2>1. ~Found'
        BY <1>1, <1>3 DEF Probe, Found, Empty
    <2>2. TypeOK'
        <3>1. i \in 3..(n - 1) /\ probed = (i + 1)..(n - 1)
            BY <1>1, <1>3 DEF Probe, SearchInv, Found
        <3>2. version' \in {NoVersion, Empty, Explicit} /\ probed' \subseteq 1..n' /\ i' \in Int
            BY <1>1, <1>3, <3>1 DEF Probe, Empty, NoVersion, Explicit
        <3> QED
            BY <1>1, <1>3, <3>2 DEF IInv, Probe, TypeOK
    <2>3. SearchInv'
        BY <1>1, <1>3, <2>1 DEF Probe, SearchInv, Found, Empty, NoVersion
    <2> QED
        BY <1>1, <2>2, <2>3 DEF IInv, Probe
<1> QED
    BY <1>2, <1>3 DEF Probe

(* The range is exhausted: only the bound of the loop variable matters.   *)
LEMMA LoopEndIInv == IInv /\ LoopEnd => IInv'
<1> SUFFICES ASSUME IInv, LoopEnd PROVE IInv'
    OBVIOUS
<1>1. TypeOK'
    BY DEF IInv, LoopEnd, TypeOK, Phases
<1>2. ~explicit
    BY DEF IInv, LoopEnd, TypeOK
<1>3. SearchInv'
    BY <1>2 DEF IInv, LoopEnd, SearchInv, Found
<1> QED
    BY <1>1, <1>2, <1>3 DEF IInv, LoopEnd

(* 'if version is None' only moves to 'raised' or 'install'.              *)
LEMMA CheckVersionIInv == IInv /\ CheckVersion => IInv'
<1> SUFFICES ASSUME IInv, CheckVersion PROVE IInv'
    OBVIOUS
<1>1. TypeOK'
    BY DEF IInv, CheckVersion, TypeOK, Phases
<1>2. ~explicit
    BY DEF IInv, CheckVersion
<1>3. SearchInv'
    BY <1>2 DEF IInv, CheckVersion, SearchInv, Found
<1> QED
    BY <1>1, <1>2, <1>3 DEF IInv, CheckVersion

LEMMA NextIInv == IInv /\ [Next]_vars => IInv'
<1> SUFFICES ASSUME IInv, [Next]_vars PROVE IInv'
    OBVIOUS
<1>1. CASE Probe
    BY <1>1, ProbeIInv
<1>2. CASE LoopEnd
    BY <1>2, LoopEndIInv
<1>3. CASE CheckVersion
    BY <1>3, CheckVersionIInv
<1>4. CASE UNCHANGED vars
    BY <1>4 DEF IInv, vars, TypeOK, SearchInv, Found
<1> QED
    BY <1>1, <1>2, <1>3, <1>4 DEF Next

(* The longest resolved prefix is the one found: the search never skips   *)
(* a resolvable prefix, and stops at the first.                           *)
LEMMA IInvFirstSuccess == IInv => FirstSuccessUsed
<1> SUFFICES ASSUME IInv, phase = "install", ~explicit, ok \cap 3..(n - 1) # {}
             PROVE  version \in LongestResolved /\ \A j \in probed : j >= version
    BY DEF FirstSuccessUsed
<1>1. SearchInv /\ TypeOK
    BY DEF IInv
<1>2. Found
    BY <1>1 DEF SearchInv, TypeOK
<1>3. version = i /\ i \in ok /\ i >= 3 /\ i <= n - 1 /\ ok \cap (i + 1)..(n - 1) = {}
    BY <1>1, <1>2 DEF SearchInv
<1>4. version \in LongestResolved
    BY <1>1, <1>3 DEF LongestResolved, TypeOK
<1>5. \A j \in probed : j >= version
    BY <1>1, <1>2, <1>3 DEF SearchInv, TypeOK
<1> QED
    BY <1>4, <1>5

(* THEOREM: for every bound on the length of a tool path, go_install()   *)
(* reaches 'go install' with the version of the longest resolvable        *)
(* prefix it probes, having looked up no shorter prefix (the loop's       *)
(* 'break' on the first exit code 0).                                      *)
THEOREM FirstSuccessCorrect == Spec => []FirstSuccessUsed
<1>1. Init => IInv
    BY InitIInv
<1>2. IInv /\ [Next]_vars => IInv'
    BY NextIInv
<1>3. IInv => FirstSuccessUsed
    BY IInvFirstSuccess
<1> QED
    BY <1>1, <1>2, <1>3, PTL DEF Spec

(* THEOREM: every reachable state of go_install()'s version search is     *)
(* well typed.                                                             *)
THEOREM GoVersionTypeCorrect == Spec => []TypeOK
<1>1. IInv => TypeOK
    BY DEF IInv
<1> QED
    BY <1>1, InitIInv, NextIInv, PTL DEF Spec

-----------------------------------------------------------------------------
(* At the None check, 'version' is the reference answer of VersionLookup. *)
LEMMA CheckAnswer ==
    ASSUME IInv, phase = "check"
    PROVE  version = Abstract!Answer
<1>1. ~explicit /\ SearchInv /\ TypeOK
    BY DEF IInv
<1>2. n \in Nat /\ i \in Int
    BY <1>1 DEF TypeOK
<1>3. CASE Found
    <2>1. version = i /\ i \in ok /\ i >= 3 /\ i <= n - 1 /\ ok \cap (i + 1)..(n - 1) = {}
        BY <1>1, <1>3 DEF SearchInv
    <2>2. i \in Abstract!Resolved
        BY <1>2, <2>1 DEF Abstract!Resolved
    <2>3. \A m \in Abstract!Resolved : m <= i
        BY <1>2, <2>1 DEF Abstract!Resolved
    <2>4. \A j \in Abstract!Resolved : (\A m \in Abstract!Resolved : m <= j) => j = i
        BY <1>2, <2>2, <2>3 DEF Abstract!Resolved
    <2>5. Abstract!Greatest(Abstract!Resolved) = i
        BY <2>2, <2>3, <2>4 DEF Abstract!Greatest
    <2> QED
        BY <2>1, <2>2, <2>5 DEF Abstract!Answer
<1>4. CASE ~Found
    <2>1. i <= 2 /\ i <= n - 1 /\ ok \cap (i + 1)..(n - 1) = {}
        BY <1>1, <1>4 DEF SearchInv
    <2>2. Abstract!Resolved = {}
        BY <1>2, <2>1 DEF Abstract!Resolved
    <2>3. version \in {NoVersion, Empty} /\ (version = NoVersion <=> i = n - 1)
          /\ (i >= 2 \/ i = n - 1)
        BY <1>1, <1>4 DEF SearchInv
    <2>4. CASE n > 3
        BY <1>2, <2>1, <2>2, <2>3, <2>4 DEF Abstract!Answer, NoVersion, Empty
    <2>5. CASE ~(n > 3)
        BY <1>2, <2>1, <2>2, <2>3, <2>5 DEF Abstract!Answer, NoVersion, Empty
    <2> QED
        BY <2>4, <2>5
<1> QED
    BY <1>3, <1>4

(* Every step of the loop is a step of VersionLookup or leaves its state   *)
(* alone.                                                                  *)
LEMMA StepRefines ==
    ASSUME IInv, [Next]_vars
    PROVE  [Abstract!Lookup]_Abstract!vars
<1>1. CASE Probe \/ LoopEnd
    <2>1. phase \in {"probe", "check"} /\ phase' \in {"probe", "check"}
        BY <1>1 DEF Probe, LoopEnd
    <2>2. UNCHANGED <<n, ok, explicit>>
        BY <1>1 DEF Probe, LoopEnd
    <2> QED
        BY <2>1, <2>2 DEF Abstract!vars, AbsPhase, AbsVersion
<1>2. CASE CheckVersion
    <2>1. version = Abstract!Answer
        BY <1>2, CheckAnswer DEF CheckVersion
    <2>2. phase' \notin {"probe", "check"} /\ phase = "check" /\ version' = version
          /\ UNCHANGED <<n, ok, explicit>>
          /\ phase' = IF version = NoVersion THEN "raised" ELSE "install"
        BY <1>2 DEF CheckVersion
    <2> QED
        BY <2>1, <2>2 DEF Abstract!Lookup, AbsPhase, AbsVersion
<1>3. CASE UNCHANGED vars
    BY <1>3 DEF vars, Abstract!vars, AbsPhase, AbsVersion
<1> QED
    BY <1>1, <1>2, <1>3 DEF Next

(* THEOREM: the loop of go_install() implements the atomic lookup of      *)
(* VersionLookup, for every bound on the length of a tool path: each       *)
(* probe is invisible and the None check yields the longest resolved       *)
(* prefix, the empty output of a failed lookup, or the exception.  That    *)
(* every search ends is checked by TLC (LookupRefined).                    *)
THEOREM LookupRefinement == Spec => Abstract!Spec
<1>1. Init => Abstract!Init
    BY DEF Init, Abstract!Init, AbsPhase, AbsVersion
<1>2. IInv /\ [Next]_vars => [Abstract!Lookup]_Abstract!vars
    BY StepRefines
<1> QED
    BY <1>1, <1>2, InitIInv, NextIInv, PTL DEF Spec, Abstract!Spec

=============================================================================
