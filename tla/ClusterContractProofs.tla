------------------------ MODULE ClusterContractProofs ------------------------
(***************************************************************************)
(* Cluster implements ClusterContract (the safety formula ClusterRefined), *)
(* for every set of user images and either layout of config/default.      *)
(***************************************************************************)
EXTENDS ClusterProofs

(* Rendering and applying a directory may add what it holds: the CRDs     *)
(* when it has them, the controller running img when it has it.           *)
LEMMA ApplyMoves ==
    ASSUME TypeOK, NEW hasCrds \in BOOLEAN, NEW hasCtl \in BOOLEAN,
           NEW img, NEW i \in Nat, NEW k \in Nat,
           NEW ok \in [1..k -> BOOLEAN], NEW m \in 0..k,
           Apply(hasCrds, hasCtl, img, i, ok, m)
    PROVE  /\ crds' \in {crds, crds \/ hasCrds}
           /\ controller' = controller \/ (hasCtl /\ controller' = img)
BY DEF Apply, TypeOK

(* Rendering and deleting a directory may remove what it holds.           *)
LEMMA DeleteMoves ==
    ASSUME TypeOK, NEW hasCrds \in BOOLEAN, NEW hasCtl \in BOOLEAN,
           NEW i \in Nat, NEW k \in Nat,
           NEW ok \in [1..k -> BOOLEAN], NEW m \in 0..k,
           Delete(hasCrds, hasCtl, i, ok, m)
    PROVE  /\ crds' \in {crds, crds /\ ~hasCrds}
           /\ controller' = controller \/ (hasCtl /\ controller' = NoImage)
BY DEF Delete, TypeOK

(* 'kustomize edit set image' leaves the old image or sets the new one.   *)
LEMMA EditMoves ==
    ASSUME NEW img, NEW i, NEW ok, NEW m, EditImage(img, i, ok, m)
    PROVE  kimage' \in {kimage, img}
BY DEF EditImage

-----------------------------------------------------------------------------
(***************************************************************************)
(* Every command is a step of the contract.                                *)
(***************************************************************************)

LEMMA GenerateOneRefines ==
    ASSUME NEW cmd, NEW step, GenerateOne(cmd, step)
    PROVE  Contract!GenerateSources
<1>1. UNCHANGED <<kimage, crds, controller>>
    BY Zenon DEF GenerateOne
<1> QED
    BY <1>1 DEF Contract!GenerateSources

LEMMA GenerateBundleRefines ==
    ASSUME NEW img \in UserImages, GenerateBundle(img)
    PROVE  Contract!SetImage(img)
<1>1. PICK o \in Outcomes(4) :
        EditImage(img, 2, o[1], o[2]) /\ Invoked("generate bundle", img, BundleSteps, o[1], o[2])
    BY DEF GenerateBundle
<1>2. last'.cmd = "generate bundle"
    BY <1>1 DEF Invoked
<1>3. kimage' \in {kimage, img}
    BY <1>1, EditMoves
<1>4. UNCHANGED <<crds, controller>>
    BY Zenon DEF GenerateBundle
<1> QED
    BY <1>2, <1>3, <1>4 DEF Contract!SetImage

LEMMA GenerateRefines ==
    ASSUME Generate
    PROVE  Contract!SetImage(DefaultImage)
<1>1. PICK o \in Outcomes(7) :
        EditImage(DefaultImage, 5, o[1], o[2])
        /\ Invoked("generate", DefaultImage, GenerateSteps, o[1], o[2])
    BY DEF Generate
<1>2. last'.cmd = "generate"
    BY <1>1 DEF Invoked
<1>3. kimage' \in {kimage, DefaultImage}
    BY <1>1, EditMoves
<1>4. UNCHANGED <<crds, controller>>
    BY Zenon DEF Generate
<1> QED
    BY <1>2, <1>3, <1>4 DEF Contract!SetImage

(* 'deploy' renders the kustomization after its edit: the controller can  *)
(* only come to run the image the kustomization then names.               *)
LEMMA DeployRefines ==
    ASSUME TypeOK, NEW img \in UserImages, Deploy(img)
    PROVE  Contract!Deploy(img)
<1>1. PICK o \in Outcomes(3) :
        /\ EditImage(img, 1, o[1], o[2])
        /\ Apply(DefaultHasCrds, TRUE, kimage', 2, o[1], o[2])
        /\ Invoked("deploy", img, DeploySteps, o[1], o[2])
    BY DEF Deploy
<1>2. o[1] \in [1..3 -> BOOLEAN] /\ o[2] \in 0..3
    BY <1>1, OutcomeFacts
<1>3. last'.cmd = "deploy"
    BY <1>1 DEF Invoked
<1>4. kimage' \in {kimage, img}
    BY <1>1, EditMoves
<1>5. /\ crds' \in {crds, crds \/ DefaultHasCrds}
      /\ controller' = controller \/ controller' = kimage'
    <2>1. Apply(DefaultHasCrds, TRUE, kimage', 2, o[1], o[2])
        BY <1>1
    <2> QED
        BY <1>2, <2>1, ApplyMoves, ConstantsAssumption
<1> QED
    BY <1>3, <1>4, <1>5 DEF Contract!Deploy

LEMMA UndeployRefines ==
    ASSUME TypeOK, Undeploy
    PROVE  Contract!Undeploy
<1>1. PICK o \in Outcomes(2) :
        /\ Delete(DefaultHasCrds, TRUE, 1, o[1], o[2])
        /\ Invoked("undeploy", NoImage, DeleteSteps, o[1], o[2])
    BY DEF Undeploy
<1>2. o[1] \in [1..2 -> BOOLEAN] /\ o[2] \in 0..2
    BY <1>1, OutcomeFacts
<1>3. last'.cmd = "undeploy"
    BY <1>1 DEF Invoked
<1>4. /\ crds' \in {crds, crds /\ ~DefaultHasCrds}
      /\ controller' = controller \/ controller' = NoImage
    BY <1>1, <1>2, DeleteMoves, ConstantsAssumption
<1>5. UNCHANGED kimage
    BY DEF Undeploy
<1> QED
    BY <1>3, <1>4, <1>5 DEF Contract!Undeploy

(* 'install' renders config/crd, which has no controller.                 *)
LEMMA InstallRefines ==
    ASSUME TypeOK, Install
    PROVE  Contract!Install
<1>1. PICK o \in Outcomes(2) :
        /\ Apply(TRUE, FALSE, kimage, 1, o[1], o[2])
        /\ Invoked("install", NoImage, ApplySteps, o[1], o[2])
    BY DEF Install
<1>2. o[1] \in [1..2 -> BOOLEAN] /\ o[2] \in 0..2
    BY <1>1, OutcomeFacts
<1>3. last'.cmd = "install"
    BY <1>1 DEF Invoked
<1>4. crds' \in {crds, TRUE} /\ controller' = controller
    <2>1. crds' \in {crds, crds \/ TRUE} /\ (controller' = controller \/ (FALSE /\ controller' = kimage))
        BY <1>1, <1>2, ApplyMoves
    <2> QED
        BY <2>1
<1>5. UNCHANGED kimage
    BY DEF Install
<1> QED
    BY <1>3, <1>4, <1>5 DEF Contract!Install

LEMMA UninstallRefines ==
    ASSUME TypeOK, Uninstall
    PROVE  Contract!Uninstall
<1>1. PICK o \in Outcomes(2) :
        /\ Delete(TRUE, FALSE, 1, o[1], o[2])
        /\ Invoked("uninstall", NoImage, DeleteSteps, o[1], o[2])
    BY DEF Uninstall
<1>2. o[1] \in [1..2 -> BOOLEAN] /\ o[2] \in 0..2
    BY <1>1, OutcomeFacts
<1>3. last'.cmd = "uninstall"
    BY <1>1 DEF Invoked
<1>4. crds' \in {crds, FALSE} /\ controller' = controller
    <2>1. crds' \in {crds, crds /\ ~TRUE} /\ (controller' = controller \/ (FALSE /\ controller' = NoImage))
        BY <1>1, <1>2, DeleteMoves
    <2> QED
        BY <2>1
<1>5. UNCHANGED kimage
    BY DEF Uninstall
<1> QED
    BY <1>3, <1>4, <1>5 DEF Contract!Uninstall

LEMMA StepRefines == IInv /\ [Next]_vars => [Contract!Next]_Contract!vars
<1> SUFFICES ASSUME IInv, [Next]_vars PROVE [Contract!Next]_Contract!vars
    OBVIOUS
<1>1. TypeOK
    BY DEF IInv
<1>2. CASE GenerateOne("generate mocks", "go generate")
    BY <1>2, GenerateOneRefines DEF Contract!Next
<1>3. CASE GenerateOne("generate manifests", "controller-gen rbac crd webhook")
    BY <1>3, GenerateOneRefines DEF Contract!Next
<1>4. CASE GenerateOne("generate deep-copy", "controller-gen object")
    BY <1>4, GenerateOneRefines DEF Contract!Next
<1>5. CASE Generate
    BY <1>5, GenerateRefines, ConstantsAssumption DEF Contract!Next
<1>6. CASE Undeploy
    BY <1>1, <1>6, UndeployRefines DEF Contract!Next
<1>7. CASE Install
    BY <1>1, <1>7, InstallRefines DEF Contract!Next
<1>8. CASE Uninstall
    BY <1>1, <1>8, UninstallRefines DEF Contract!Next
<1>9. ASSUME NEW img \in UserImages, GenerateBundle(img) \/ Deploy(img)
      PROVE  [Contract!Next]_Contract!vars
    BY <1>1, <1>9, GenerateBundleRefines, DeployRefines DEF Contract!Next
<1>10. CASE UNCHANGED vars
    BY <1>10 DEF vars, Contract!vars
<1> QED
    BY <1>2, <1>3, <1>4, <1>5, <1>6, <1>7, <1>8, <1>9, <1>10 DEF Next

LEMMA InitRefines == Init => Contract!Init
BY DEF Init, Contract!Init, AllImages

(* Cluster implements its contract: whatever fails and wherever a command  *)
(* is killed, the kustomization only comes to name an image a command was *)
(* given, the controller only comes to run the image the kustomization     *)
(* names after a deploy's edit, deploy and install never delete, undeploy  *)
(* and uninstall never create, and install and uninstall never touch the   *)
(* controller; for every set of user images and either config/default.     *)
THEOREM ClusterRefinement == Spec => ClusterRefined
<1>1. Spec => []IInv
    BY InitIInv, NextIInv, PTL DEF Spec
<1> QED
    BY <1>1, InitRefines, StepRefines, PTL DEF Spec, ClusterRefined, Contract!Spec

=============================================================================
