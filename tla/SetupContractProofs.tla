------------------------- MODULE SetupContractProofs -------------------------
(***************************************************************************)
(* Setup implements SetupContract (the safety formula ContractRefined),   *)
(* for every order of installers and every bound on invocations.          *)
(***************************************************************************)
EXTENDS SetupProofs

(* The tools which() finds: the contract's 'found'.                        *)
Found == {t \in SetupTools : Whichable(t)}

(* While an invocation runs with no failed command, every installer it    *)
(* has called left its tool findable if that tool is required.  This is   *)
(* RunInv of SetupProofs without its premise that GOBIN is on PATH: the   *)
(* downloads write into a directory of PATH whatever PATH is.             *)
ReqInv ==
    (running /\ clean)
        => \A k \in 1..(pc - 1) : Order[k] \in Required => Whichable(Order[k])

CInv ==
    /\ TypeOK
    /\ running => ~lastClean
    /\ ReqInv

(* A 'go install' tool is required only when GOBIN is on PATH.             *)
LEMMA RequiredGo ==
    ASSUME NEW t \in GoInstalledTools, t \in Required
    PROVE  "gobin" \in path
BY DEF Required

(* No step changes PATH, so none changes the required tools.               *)
LEMMA RequiredKept ==
    ASSUME [Next]_vars
    PROVE  Required' = Required
<1>1. path' = path
    BY DEF Next, Start, InstallGo, GoInstall, InstallDownload, InstallGolangciLint,
           Finish, vars
<1>2. QED
    BY <1>1 DEF Required, N

(* No step makes which() stop finding a tool.                              *)
LEMMA FoundGrows ==
    ASSUME TypeOK, [Next]_vars
    PROVE  Found \subseteq Found' /\ Found' \subseteq SetupTools
BY WhichableStable DEF Found

(* A step that keeps the files, their execute bits and PATH keeps Found.   *)
LEMMA FoundKept ==
    ASSUME UNCHANGED <<file, exec, path>>
    PROVE  Found' = Found
BY DEF Found, Whichable, Home

-----------------------------------------------------------------------------
(***************************************************************************)
(* CInv is inductive.                                                      *)
(***************************************************************************)

LEMMA InitCInv == Init => CInv
BY InitTypeOK DEF Init, CInv, ReqInv

(* The installer step of tool t keeps CInv.                                *)
LEMMA InstallerCInv ==
    ASSUME CInv, [Next]_vars, NEW t \in SetupTools,
           GoInstall(t) \/ InstallDownload(t) \/ InstallGolangciLint(t)
    PROVE  CInv'
<1> USE OrderFacts
<1>1. TypeOK'
    BY NextTypeOK DEF CInv
<1>2. /\ Calling(t)
      /\ UNCHANGED <<path, lastClean>>
      /\ \/ Continue /\ (clean' => clean)
         \/ Abort
    BY DEF GoInstall, InstallDownload, InstallGolangciLint, CurlAndChmod,
           FetchAndExtract
<1>3. running' => ~lastClean'
    BY <1>2 DEF CInv, Calling
<1>4. ReqInv'
    <2> SUFFICES ASSUME running', clean', NEW k \in 1..(pc' - 1),
                        Order[k] \in Required'
                 PROVE  Whichable(Order[k])'
        BY DEF ReqInv
    <2>1. pc' = pc + 1 /\ clean /\ running /\ pc \in 1..N
        BY <1>2 DEF Continue, Abort, Calling
    <2>2. Order[k] \in Required
        BY RequiredKept
    <2>3. CASE k < pc
        <3>1. Order[k] \in SetupTools
            BY <2>1, <2>3
        <3>2. Whichable(Order[k])
            BY <2>1, <2>2, <2>3 DEF CInv, ReqInv
        <3>3. QED
            BY <3>1, <3>2, WhichableStable DEF CInv
    <2>4. CASE k = pc
        <3>1. Order[k] = t /\ t \in Required
            BY <2>2, <2>4, <1>2 DEF Calling
        <3>2. CASE GoInstall(t)
            <4>1. "gobin" \in path
                BY <3>1, <3>2, RequiredGo DEF GoInstall
            <4>2. QED
                BY <2>1, <3>1, <3>2, <4>1, GoInstallInstalls DEF CInv
        <3>3. CASE InstallDownload(t)
            BY <2>1, <3>1, <3>3, InstallDownloadInstalls DEF CInv
        <3>4. CASE InstallGolangciLint(t)
            BY <2>1, <3>1, <3>4, InstallGolangciLintInstalls DEF CInv
        <3>5. QED
            BY <3>2, <3>3, <3>4
    <2>5. QED
        BY <2>1, <2>3, <2>4
<1>5. QED
    BY <1>1, <1>3, <1>4 DEF CInv

LEMMA NextCInv == CInv /\ [Next]_vars => CInv'
<1> SUFFICES ASSUME CInv, [Next]_vars PROVE CInv'
    OBVIOUS
<1> USE OrderFacts
<1>1. TypeOK'
    BY NextTypeOK DEF CInv
<1>2. CASE Start
    BY <1>1, <1>2 DEF Start, CInv, ReqInv
<1>3. CASE InstallGo
    <2>1. pc = 0 /\ running /\ UNCHANGED lastClean
        BY <1>3 DEF InstallGo
    <2>2. pc' = pc + 1 \/ pc' = pc
        BY <1>3 DEF InstallGo, Continue, Abort
    <2>3. ReqInv'
        BY <2>1, <2>2 DEF ReqInv
    <2>4. QED
        BY <1>1, <2>1, <2>3 DEF CInv
<1>4. ASSUME NEW t \in SetupTools,
             GoInstall(t) \/ InstallDownload(t) \/ InstallGolangciLint(t)
      PROVE  CInv'
    BY <1>4, InstallerCInv
<1>5. CASE Finish
    BY <1>1, <1>5 DEF Finish, CInv, ReqInv
<1>6. CASE UNCHANGED vars
    <2>1. \A u \in SetupTools : Whichable(u)' = Whichable(u)
        BY <1>6 DEF vars, Whichable, Home
    <2>2. \A k \in 1..(pc - 1) : Order[k] \in SetupTools
        BY DEF CInv, TypeOK
    <2>3. Required' = Required
        BY RequiredKept
    <2>4. ReqInv'
        BY <1>6, <2>1, <2>2, <2>3 DEF vars, CInv, ReqInv
    <2>5. QED
        BY <1>1, <1>6, <2>4 DEF vars, CInv
<1>7. QED
    BY <1>2, <1>3, <1>4, <1>5, <1>6 DEF Next

-----------------------------------------------------------------------------
(***************************************************************************)
(* Every step of Setup is a step of the contract or leaves its variables.  *)
(***************************************************************************)

(* An installer that returns is a contract Install, one that raises or is  *)
(* killed a Return that does not count as clean.                           *)
LEMMA InstallerRefines ==
    ASSUME CInv, [Next]_vars, NEW t \in SetupTools,
           GoInstall(t) \/ InstallDownload(t) \/ InstallGolangciLint(t)
    PROVE  Contract!Install \/ Contract!Return
<1>1. /\ running
      /\ UNCHANGED <<path, lastClean, runs>>
      /\ \/ Continue
         \/ Abort
    BY DEF GoInstall, InstallDownload, InstallGolangciLint, CurlAndChmod,
           FetchAndExtract, Calling
<1>2. Found \subseteq Found' /\ Found' \subseteq SetupTools /\ Required' = Required
    BY FoundGrows, RequiredKept DEF CInv
<1>3. CASE Continue
    BY <1>1, <1>2, <1>3 DEF Continue, Contract!Install, Found
<1>4. CASE Abort
    <2>1. lastClean' = FALSE /\ running' = FALSE
        BY <1>1, <1>4 DEF CInv, TypeOK, Abort
    <2>2. QED
        BY <1>1, <1>2, <2>1 DEF Contract!Return, Found
<1>5. QED
    BY <1>1, <1>3, <1>4

(* setup() returns cleanly only with every required tool found.            *)
LEMMA FinishRefines ==
    ASSUME CInv, Finish
    PROVE  Contract!Return
<1> USE OrderFacts
<1>1. running /\ pc = N + 1 /\ lastClean' = clean /\ ~running'
      /\ UNCHANGED <<file, exec, path, runs>>
    BY DEF Finish
<1>2. Found' = Found /\ Required' = Required
    BY <1>1, FoundKept DEF Required, N
<1>3. clean => Required \subseteq Found
    <2> SUFFICES ASSUME clean, NEW u \in Required PROVE u \in Found
        OBVIOUS
    <2>1. PICK k \in 1..N : u = Order[k]
        BY DEF Required
    <2>2. Whichable(Order[k])
        BY <1>1, <2>1 DEF CInv, ReqInv
    <2>3. QED
        BY <2>1, <2>2 DEF Found
<1>4. clean \in BOOLEAN
    BY DEF CInv, TypeOK
<1>5. QED
    BY <1>1, <1>2, <1>3, <1>4 DEF Contract!Return, Found

LEMMA StepRefines == CInv /\ [Next]_vars => [Contract!Next]_Contract!vars
<1> SUFFICES ASSUME CInv, [Next]_vars
             PROVE  [Contract!Next]_Contract!vars
    OBVIOUS
<1>1. CASE Start
    <2>1. Found' = Found /\ Required' = Required
        BY <1>1, FoundKept, RequiredKept DEF Start
    <2>2. QED
        BY <1>1, <2>1 DEF Start, Contract!Next, Contract!Start, Found
<1>2. CASE InstallGo
    <2>1. running /\ UNCHANGED <<file, exec, path, lastClean, runs>>
        BY <1>2 DEF InstallGo
    <2>2. Found' = Found /\ Required' = Required
        BY <2>1, FoundKept, RequiredKept
    <2>3. CASE Continue
        BY <2>1, <2>2, <2>3 DEF Continue, Contract!vars, Found
    <2>4. CASE Abort
        <3>1. lastClean' = FALSE /\ running' = FALSE
            BY <2>1, <2>4 DEF CInv, TypeOK, Abort
        <3>2. QED
            BY <2>1, <2>2, <3>1 DEF Contract!Next, Contract!Return, Found
    <2>5. QED
        BY <1>2, <2>3, <2>4 DEF InstallGo
<1>3. ASSUME NEW t \in SetupTools,
             GoInstall(t) \/ InstallDownload(t) \/ InstallGolangciLint(t)
      PROVE  [Contract!Next]_Contract!vars
    BY <1>3, InstallerRefines DEF Contract!Next
<1>4. CASE Finish
    BY <1>4, FinishRefines DEF Contract!Next
<1>5. CASE UNCHANGED vars
    <2>1. Found' = Found /\ Required' = Required
        BY <1>5, FoundKept, RequiredKept DEF vars
    <2>2. QED
        BY <1>5, <2>1 DEF vars, Contract!vars, Found
<1>6. QED
    BY <1>1, <1>2, <1>3, <1>4, <1>5 DEF Next

LEMMA InitRefines == Init => Contract!Init
<1> SUFFICES ASSUME Init PROVE Contract!Init
    OBVIOUS
<1>1. Found = {}
    BY DEF Init, Found, Whichable
<1>2. Required \subseteq SetupTools
    BY OrderFacts DEF Required
<1>3. QED
    BY <1>1, <1>2 DEF Init, Contract!Init, Found

(* Setup implements its contract: which() never stops finding a tool,     *)
(* tools appear only while setup() runs, and an invocation that returned   *)
(* with every external command succeeding left every required tool        *)
(* findable, for every order of installers and every bound on runs.        *)
THEOREM ContractRefinement == Spec => ContractRefined
<1>1. Spec => []CInv
    BY InitCInv, NextCInv, PTL DEF Spec
<1>2. QED
    BY <1>1, InitRefines, StepRefines, PTL
       DEF Spec, ContractRefined, Contract!Spec

=============================================================================
