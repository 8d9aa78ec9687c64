----------------------------- MODULE SetupProofs -----------------------------
(***************************************************************************)
(* Proofs about the 'setup' command model (module Setup) for every order   *)
(* of installers and every bound on invocations.                           *)
(***************************************************************************)
EXTENDS Setup, TLAPS

USE OrderAssumption, MaxRunsAssumption

(* N is a natural number, and every installer of the order is a tool.      *)
LEMMA OrderFacts ==
    /\ N \in Nat
    /\ \A k \in 1..N : Order[k] \in SetupTools
BY DEF N

-----------------------------------------------------------------------------
(***************************************************************************)
(* Type correctness.                                                       *)
(***************************************************************************)

LEMMA InitTypeOK == Init => TypeOK
<1> SUFFICES ASSUME Init PROVE TypeOK
    OBVIOUS
<1>1. file \in [SetupTools -> Contents] /\ exec \in [SetupTools -> BOOLEAN]
    BY DEF Init, Contents
<1>2. pc \in 0..(N + 1) /\ runs \in 0..MaxRuns
    BY OrderFacts DEF Init
<1>3. /\ path \subseteq Dirs
      /\ goPresent \in BOOLEAN /\ running \in BOOLEAN
      /\ clean \in BOOLEAN /\ lastClean \in BOOLEAN
    BY DEF Init
<1>4. QED
    BY <1>1, <1>2, <1>3 DEF TypeOK

(* The parts of TypeOK that no installer changes.                          *)
LEMMA InstallerFrame ==
    ASSUME TypeOK,
           UNCHANGED <<path, goPresent, lastClean, runs>>,
           running' \in BOOLEAN, clean' \in BOOLEAN
    PROVE  /\ path' \subseteq Dirs
           /\ goPresent' \in BOOLEAN /\ running' \in BOOLEAN
           /\ clean' \in BOOLEAN /\ lastClean' \in BOOLEAN
           /\ runs' \in 0..MaxRuns
BY DEF TypeOK

(* An installer step moves pc to the next installer or leaves it.          *)
LEMMA InstallerPc ==
    ASSUME TypeOK, pc \in 1..N, pc' = pc + 1 \/ pc' = pc
    PROVE  pc' \in 0..(N + 1)
BY OrderFacts DEF TypeOK

LEMMA GoInstallTypeOK ==
    ASSUME TypeOK, NEW t \in SetupTools, GoInstall(t)
    PROVE  TypeOK'
<1>1. file' \in [SetupTools -> Contents] /\ exec' \in [SetupTools -> BOOLEAN]
    BY DEF GoInstall, Continue, Abort, TypeOK, Contents
<1>2. pc' \in 0..(N + 1)
    BY InstallerPc DEF GoInstall, Calling, Continue, Abort
<1>3. running' \in BOOLEAN /\ clean' \in BOOLEAN
    BY DEF GoInstall, Continue, Abort, TypeOK
<1>4. QED
    BY <1>1, <1>2, <1>3, InstallerFrame DEF GoInstall, TypeOK

LEMMA InstallDownloadTypeOK ==
    ASSUME TypeOK, NEW t \in SetupTools, InstallDownload(t)
    PROVE  TypeOK'
<1>1. file' \in [SetupTools -> Contents] /\ exec' \in [SetupTools -> BOOLEAN]
    BY DEF InstallDownload, CurlAndChmod, Continue, Abort, TypeOK, Contents
<1>2. pc' \in 0..(N + 1)
    BY InstallerPc DEF InstallDownload, CurlAndChmod, Calling, Continue, Abort
<1>3. running' \in BOOLEAN /\ clean' \in BOOLEAN
    BY DEF InstallDownload, CurlAndChmod, Continue, Abort, TypeOK
<1>4. QED
    BY <1>1, <1>2, <1>3, InstallerFrame DEF InstallDownload, TypeOK

LEMMA InstallGolangciLintTypeOK ==
    ASSUME TypeOK, NEW t \in SetupTools, InstallGolangciLint(t)
    PROVE  TypeOK'
<1>1. file' \in [SetupTools -> Contents] /\ exec' \in [SetupTools -> BOOLEAN]
    BY DEF InstallGolangciLint, FetchAndExtract, Continue, Abort, TypeOK, Contents
<1>2. pc' \in 0..(N + 1)
    BY InstallerPc DEF InstallGolangciLint, FetchAndExtract, Calling, Continue, Abort
<1>3. running' \in BOOLEAN /\ clean' \in BOOLEAN
    BY DEF InstallGolangciLint, FetchAndExtract, Continue, Abort, TypeOK
<1>4. QED
    BY <1>1, <1>2, <1>3, InstallerFrame DEF InstallGolangciLint, TypeOK

LEMMA NextTypeOK == TypeOK /\ [Next]_vars => TypeOK'
<1> SUFFICES ASSUME TypeOK, [Next]_vars PROVE TypeOK'
    OBVIOUS
<1>1. CASE Start
    <2>1. pc' \in 0..(N + 1) /\ runs' \in 0..MaxRuns
        BY <1>1, OrderFacts DEF Start, TypeOK
    <2>2. QED
        BY <1>1, <2>1 DEF Start, TypeOK
<1>2. CASE InstallGo
    <2>1. pc' = pc + 1 \/ pc' = pc
        BY <1>2 DEF InstallGo, Continue, Abort
    <2>2a. pc' \in 0..(N + 1)
        BY <1>2, <2>1, OrderFacts DEF InstallGo
    <2>2. running' \in BOOLEAN /\ clean' \in BOOLEAN
        BY <1>2 DEF InstallGo, Continue, Abort, TypeOK
    <2>3. QED
        BY <1>2, <2>2a, <2>2 DEF InstallGo, TypeOK
<1>3. ASSUME NEW t \in SetupTools, GoInstall(t) PROVE TypeOK'
    BY <1>3, GoInstallTypeOK
<1>4. ASSUME NEW t \in SetupTools, InstallDownload(t) PROVE TypeOK'
    BY <1>4, InstallDownloadTypeOK
<1>5. ASSUME NEW t \in SetupTools, InstallGolangciLint(t) PROVE TypeOK'
    BY <1>5, InstallGolangciLintTypeOK
<1>6. CASE Finish
    BY <1>6 DEF Finish, TypeOK
<1>7. CASE UNCHANGED vars
    BY <1>7 DEF vars, TypeOK
<1>8. QED
    BY <1>1, <1>2, <1>3, <1>4, <1>5, <1>6, <1>7 DEF Next

(* The type invariant of the model holds in every reachable state.         *)
THEOREM TypeCorrect == Spec => []TypeOK
BY InitTypeOK, NextTypeOK, PTL DEF Spec


-----------------------------------------------------------------------------
(***************************************************************************)
(* select_bin_directory() only returns a directory of PATH.                *)
(***************************************************************************)

(* A non-empty set of candidate indices has a least element.               *)
LEMMA LeastIndex ==
    ASSUME NEW S \in SUBSET (1..4), S # {}
    PROVE  \E i \in S : \A j \in S : i <= j
<1>1. CASE 1 \in S
    BY <1>1
<1>2. CASE 1 \notin S /\ 2 \in S
    BY <1>2
<1>3. CASE 1 \notin S /\ 2 \notin S /\ 3 \in S
    BY <1>3
<1>4. CASE 1 \notin S /\ 2 \notin S /\ 3 \notin S
    <2>0. PICK x \in S : TRUE
        OBVIOUS
    <2>1. 4 \in S
        BY <1>4, <2>0
    <2>2. QED
        BY <1>4, <2>1
<1>5. QED
    BY <1>1, <1>2, <1>3, <1>4

LEMMA SelectedOnPath ==
    ASSUME NEW p, SelectBinDirectory(p) # NoDir
    PROVE  SelectBinDirectory(p) \in p
<1> DEFINE S == {i \in DOMAIN Candidates : CodeMatches(Candidates[i], p)}
           m == CHOOSE i \in S : \A j \in S : i <= j
<1>1. S \in SUBSET (1..4)
    BY DEF Candidates
<1>2. S # {}
    BY DEF SelectBinDirectory
<1>3. m \in S
    BY <1>1, <1>2, LeastIndex
<1>4. SelectBinDirectory(p) = Candidates[m]
    BY <1>2 DEF SelectBinDirectory
<1>5. QED
    BY <1>3, <1>4 DEF CodeMatches

-----------------------------------------------------------------------------
(***************************************************************************)
(* No step touches an installed tool.                                      *)
(***************************************************************************)

(* Every installer of tool t leaves the other tools alone, and tool t too  *)
(* when it is already installed: the only branch it can then take is the   *)
(* early return after which().                                             *)
LEMMA InstallerUntouched ==
    ASSUME TypeOK, NEW t \in SetupTools,
           GoInstall(t) \/ InstallDownload(t) \/ InstallGolangciLint(t)
    PROVE  InstalledUntouchedStep
<1> SUFFICES ASSUME NEW u \in SetupTools, Whichable(u)
             PROVE  file'[u] = file[u] /\ exec'[u] = exec[u]
    BY DEF InstalledUntouchedStep
<1>1. CASE u # t
    BY <1>1 DEF GoInstall, InstallDownload, InstallGolangciLint, CurlAndChmod,
                FetchAndExtract, Continue, Abort, TypeOK
<1>2. CASE u = t
    BY <1>2 DEF GoInstall, InstallDownload, InstallGolangciLint, Continue
<1>3. QED
    BY <1>1, <1>2

LEMMA NextUntouched == TypeOK /\ [Next]_vars => InstalledUntouchedStep
<1> SUFFICES ASSUME TypeOK, [Next]_vars PROVE InstalledUntouchedStep
    OBVIOUS
<1>1. ASSUME NEW t \in SetupTools,
             GoInstall(t) \/ InstallDownload(t) \/ InstallGolangciLint(t)
      PROVE  InstalledUntouchedStep
    BY <1>1, InstallerUntouched
<1>2. CASE Start \/ InstallGo \/ Finish \/ UNCHANGED vars
    BY <1>2 DEF Start, InstallGo, Finish, vars, InstalledUntouchedStep
<1>3. QED
    BY <1>1, <1>2 DEF Next

(* Setup never changes the binary or the execute bit of a tool that        *)
(* which() already finds: re-running 'setup' leaves installed tools alone. *)
THEOREM InstalledUntouched == Spec => InstalledToolsUntouched
<1>1. TypeOK /\ [Next]_vars => [InstalledUntouchedStep]_vars
    BY NextUntouched
<1>2. QED
    BY <1>1, TypeCorrect, PTL DEF Spec, InstalledToolsUntouched


-----------------------------------------------------------------------------
(***************************************************************************)
(* A clean invocation installs every tool.                                 *)
(*                                                                         *)
(* CleanRunInstallsAll speaks only of the state after an invocation.  It   *)
(* is inductive together with what holds during one: while an invocation  *)
(* is running and clean (and GOBIN is on PATH), every installer it has     *)
(* already called left its tool on PATH, and lastClean is still FALSE.     *)
(***************************************************************************)
RunInv ==
    (running /\ clean /\ "gobin" \in path)
        => \A k \in 1..(pc - 1) : Whichable(Order[k])

IInv ==
    /\ TypeOK
    /\ running => ~lastClean
    /\ RunInv
    /\ CleanRunInstallsAll


(* A tool which() finds stays found: no step changes PATH, and no step     *)
(* touches an installed tool.                                              *)
LEMMA WhichableStable ==
    ASSUME TypeOK, [Next]_vars, NEW u \in SetupTools, Whichable(u)
    PROVE  Whichable(u)'
<1>1. path' = path
    BY DEF Next, Start, InstallGo, GoInstall, InstallDownload, InstallGolangciLint,
           Finish, vars
<1>2. file'[u] = file[u] /\ exec'[u] = exec[u]
    BY NextUntouched DEF InstalledUntouchedStep
<1>3. QED
    BY <1>1, <1>2 DEF Whichable, Home

(* In a step that neither fails nor aborts, the installer of t leaves t on *)
(* PATH: go install writes to GOBIN, the downloads to the directory        *)
(* select_bin_directory() took from PATH.                                  *)
LEMMA GoInstallInstalls ==
    ASSUME TypeOK, NEW t \in SetupTools, GoInstall(t),
           running', clean', "gobin" \in path
    PROVE  Whichable(t)'
<1>1. CASE Whichable(t)
    BY <1>1 DEF GoInstall, Continue, Abort, Whichable, Home
<1>2. CASE ~Whichable(t)
    BY <1>2 DEF GoInstall, Continue, Abort, Whichable, Home, TypeOK
<1>3. QED
    BY <1>1, <1>2

LEMMA DownloadHome ==
    ASSUME NEW t \in DownloadTools \cup TarballTools, SelectBinDirectory(path) # NoDir
    PROVE  Home(t, path) \in path
BY SelectedOnPath DEF Home, DownloadTools, TarballTools, GoInstalledTools

LEMMA InstallDownloadInstalls ==
    ASSUME TypeOK, NEW t \in SetupTools, InstallDownload(t), running', clean'
    PROVE  Whichable(t)'
<1>1. CASE Whichable(t)
    BY <1>1 DEF InstallDownload, Continue, Abort, Whichable, Home
<1>2. CASE ~Whichable(t)
    <2>1. SelectBinDirectory(path) # NoDir
        BY <1>2 DEF InstallDownload, Abort
    <2>2. Home(t, path) \in path
        BY <2>1, DownloadHome DEF InstallDownload
    <2>3. file'[t] = "good" /\ exec'[t] = TRUE /\ path' = path
        BY <1>2, <2>1 DEF InstallDownload, CurlAndChmod, Continue, Abort, TypeOK
    <2>4. QED
        BY <2>2, <2>3 DEF Whichable, Home
<1>3. QED
    BY <1>1, <1>2

LEMMA InstallGolangciLintInstalls ==
    ASSUME TypeOK, NEW t \in SetupTools, InstallGolangciLint(t), running', clean'
    PROVE  Whichable(t)'
<1>1. CASE Whichable(t)
    BY <1>1 DEF InstallGolangciLint, Continue, Abort, Whichable, Home
<1>2. CASE ~Whichable(t)
    <2>1. SelectBinDirectory(path) # NoDir
        BY <1>2 DEF InstallGolangciLint, Abort
    <2>2. Home(t, path) \in path
        BY <2>1, DownloadHome DEF InstallGolangciLint
    <2>3. file'[t] = "good" /\ exec'[t] = TRUE /\ path' = path
        BY <1>2, <2>1 DEF InstallGolangciLint, FetchAndExtract, Continue, Abort, TypeOK
    <2>4. QED
        BY <2>2, <2>3 DEF Whichable, Home
<1>3. QED
    BY <1>1, <1>2


LEMMA InitIInv == Init => IInv
BY InitTypeOK DEF Init, IInv, RunInv, CleanRunInstallsAll

(* The installer step of tool t keeps IInv.                                *)
LEMMA InstallerIInv ==
    ASSUME IInv, [Next]_vars, NEW t \in SetupTools,
           GoInstall(t) \/ InstallDownload(t) \/ InstallGolangciLint(t)
    PROVE  IInv'
<1> USE OrderFacts
<1>1. TypeOK'
    BY NextTypeOK DEF IInv
<1>2. /\ Calling(t)
      /\ UNCHANGED <<path, lastClean>>
      /\ \/ Continue /\ (clean' => clean)
         \/ Abort
    BY DEF GoInstall, InstallDownload, InstallGolangciLint, CurlAndChmod,
           FetchAndExtract
<1>3. ~lastClean /\ ~lastClean'
    BY <1>2 DEF IInv, Calling
<1>4. RunInv'
    <2> SUFFICES ASSUME running', clean', "gobin" \in path',
                        NEW k \in 1..(pc' - 1)
                 PROVE  Whichable(Order[k])'
        BY DEF RunInv
    <2>1. pc' = pc + 1 /\ clean /\ running /\ pc \in 1..N /\ "gobin" \in path
        BY <1>2 DEF Continue, Abort, Calling
    <2>2. CASE k < pc
        <3>0. Order[k] \in SetupTools
            BY <2>1, <2>2
        <3>1. Whichable(Order[k])
            BY <2>1, <2>2 DEF IInv, RunInv
        <3>2. QED
            BY <3>0, <3>1, WhichableStable DEF IInv
    <2>3. CASE k = pc
        <3>1. Order[k] = t
            BY <2>3, <1>2 DEF Calling
        <3>2. Whichable(t)'
            BY <2>1, GoInstallInstalls, InstallDownloadInstalls,
               InstallGolangciLintInstalls DEF IInv
        <3>3. QED
            BY <3>1, <3>2
    <2>4. QED
        BY <2>1, <2>2, <2>3
<1>5. QED
    BY <1>1, <1>3, <1>4 DEF IInv, CleanRunInstallsAll

LEMMA NextIInv == IInv /\ [Next]_vars => IInv'
<1> SUFFICES ASSUME IInv, [Next]_vars PROVE IInv'
    OBVIOUS
<1> USE OrderFacts
<1>1. TypeOK'
    BY NextTypeOK DEF IInv
<1>2. CASE Start
    BY <1>1, <1>2 DEF Start, IInv, RunInv, CleanRunInstallsAll
<1>3. CASE InstallGo
    <2>1. pc = 0 /\ running /\ UNCHANGED lastClean
        BY <1>3 DEF InstallGo
    <2>2. ~lastClean'
        BY <2>1 DEF IInv
    <2>3. pc' = pc + 1 \/ pc' = pc
        BY <1>3 DEF InstallGo, Continue, Abort
    <2>4. RunInv'
        BY <2>1, <2>3 DEF RunInv
    <2>5. QED
        BY <1>1, <2>2, <2>4 DEF IInv, CleanRunInstallsAll
<1>4. ASSUME NEW t \in SetupTools,
             GoInstall(t) \/ InstallDownload(t) \/ InstallGolangciLint(t)
      PROVE  IInv'
    BY <1>4, InstallerIInv
<1>5. CASE Finish
    <2>1. CleanRunInstallsAll'
        <3> SUFFICES ASSUME lastClean', "gobin" \in path', NEW k \in 1..N
                     PROVE  Whichable(Order[k])'
            BY <1>5 DEF CleanRunInstallsAll
        <3>1. running /\ clean /\ pc = N + 1 /\ "gobin" \in path
            BY <1>5 DEF Finish
        <3>2. Whichable(Order[k])
            BY <3>1 DEF IInv, RunInv
        <3>3. QED
            BY <3>2, WhichableStable DEF IInv
    <2>2. QED
        BY <1>1, <1>5, <2>1 DEF Finish, IInv, RunInv
<1>6. CASE UNCHANGED vars
    <2>1. \A u \in SetupTools : Whichable(u)' = Whichable(u)
        BY <1>6 DEF vars, Whichable, Home
    <2>2. \A k \in 1..(pc - 1) \cup 1..N : Order[k] \in SetupTools
        BY DEF IInv, TypeOK
    <2>3. RunInv'
        BY <1>6, <2>1, <2>2 DEF vars, IInv, RunInv
    <2>4. CleanRunInstallsAll'
        BY <1>6, <2>1, <2>2 DEF vars, IInv, CleanRunInstallsAll
    <2>5. QED
        BY <1>1, <1>6, <2>3, <2>4 DEF vars, IInv
<1>7. QED
    BY <1>2, <1>3, <1>4, <1>5, <1>6 DEF Next

(* After an invocation of setup() that returned normally with every        *)
(* external command succeeding, every tool of the order is on PATH (when   *)
(* GOBIN is), for every order of installers and every number of runs.      *)
THEOREM CleanRunCorrect == Spec => []CleanRunInstallsAll
<1>1. Spec => []IInv
    BY InitIInv, NextIInv, PTL DEF Spec
<1>2. QED
    BY <1>1, PTL DEF IInv

=============================================================================
