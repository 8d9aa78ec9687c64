---------------------------- MODULE ClusterProofs ----------------------------
(***************************************************************************)
(* Proofs about the commands that change the kustomization and the        *)
(* cluster, for every set of user images and either layout of             *)
(* config/default.                                                         *)
(***************************************************************************)
EXTENDS Cluster, TLAPS

USE ConstantsAssumption

(* The record of the steps an invocation ran: one per step before the     *)
(* kill, each with its command's success.                                  *)
LEMMA TraceFacts ==
    ASSUME NEW k \in Nat, NEW names \in Seq(Steps), Len(names) = k,
           NEW ok \in [1..k -> BOOLEAN], NEW m \in 0..k
    PROVE  /\ Trace(names, ok, m) \in Seq(StepRecords)
           /\ Len(Trace(names, ok, m)) = m
           /\ \A j \in 1..m : Trace(names, ok, m)[j].ok = ok[j]
<1>1. Trace(names, ok, m) \in [1..m -> StepRecords]
    BY DEF Trace, StepRecords
<1> QED
    BY <1>1 DEF Trace

(* Rendering and applying a directory keeps the cluster well typed.        *)
LEMMA ApplyType ==
    ASSUME TypeOK, NEW hasCrds \in BOOLEAN, NEW hasCtl \in BOOLEAN,
           NEW img \in AllImages, NEW i \in Nat, NEW k \in Nat,
           NEW ok \in [1..k -> BOOLEAN], NEW m \in 0..k,
           Apply(hasCrds, hasCtl, img, i, ok, m)
    PROVE  crds' \in BOOLEAN /\ controller' \in AllImages \cup {NoImage}
    BY DEF Apply, TypeOK

LEMMA DeleteType ==
    ASSUME TypeOK, NEW hasCrds \in BOOLEAN, NEW hasCtl \in BOOLEAN,
           NEW i \in Nat, NEW k \in Nat,
           NEW ok \in [1..k -> BOOLEAN], NEW m \in 0..k,
           Delete(hasCrds, hasCtl, i, ok, m)
    PROVE  crds' \in BOOLEAN /\ controller' \in AllImages \cup {NoImage}
    BY DEF Delete, TypeOK

(* What an invocation records: its command and image, and the trace of its *)
(* steps.                                                                  *)
LEMMA InvokedFacts ==
    ASSUME NEW cmd \in Commands, NEW img \in AllImages \cup {NoImage},
           NEW k \in Nat, NEW names \in Seq(Steps), Len(names) = k,
           NEW ok \in [1..k -> BOOLEAN], NEW m \in 0..k,
           Invoked(cmd, img, names, ok, m)
    PROVE  /\ last' \in [cmd : Commands, image : AllImages \cup {NoImage}, steps : Seq(StepRecords)]
           /\ last'.cmd = cmd /\ last'.image = img
           /\ Len(last'.steps) = m
           /\ \A j \in 1..m : last'.steps[j].ok = ok[j]
<1>1. /\ Trace(names, ok, m) \in Seq(StepRecords)
      /\ Len(Trace(names, ok, m)) = m
      /\ \A j \in 1..m : Trace(names, ok, m)[j].ok = ok[j]
    BY TraceFacts
<1> QED
    BY <1>1 DEF Invoked

(* The outcomes an invocation of k steps is quantified over.             *)
LEMMA OutcomeFacts ==
    ASSUME NEW k \in Nat, NEW o \in Outcomes(k)
    PROVE  o[1] \in [1..k -> BOOLEAN] /\ o[2] \in 0..k
    BY DEF Outcomes

LEMMA SingleStep ==
    ASSUME NEW step \in Steps
    PROVE  <<step>> \in Seq(Steps) /\ Len(<<step>>) = 1
    OBVIOUS

LEMMA StepLists ==
    /\ BundleSteps \in Seq(Steps) /\ Len(BundleSteps) = 4
    /\ GenerateSteps \in Seq(Steps) /\ Len(GenerateSteps) = 7
    /\ DeploySteps \in Seq(Steps) /\ Len(DeploySteps) = 3
    /\ DeleteSteps \in Seq(Steps)
    /\ Len(DeleteSteps) = 2
    /\ ApplySteps \in Seq(Steps)
    /\ Len(ApplySteps) = 2
    BY DEF BundleSteps, GenerateSteps, DeploySteps, DeleteSteps, ApplySteps, Steps

(* The traces of 'deploy' and of 'undeploy'.                               *)
LEMMA DeployTrace ==
    ASSUME NEW ok \in [1..3 -> BOOLEAN], NEW m \in 0..3
    PROVE  /\ Trace(DeploySteps, ok, m) \in Seq(StepRecords)
           /\ Len(Trace(DeploySteps, ok, m)) = m
           /\ \A j \in 1..m : Trace(DeploySteps, ok, m)[j].ok = ok[j]
<1>1. DeploySteps \in Seq(Steps) /\ Len(DeploySteps) = 3
    BY StepLists
<1>2. 3 \in Nat
    OBVIOUS
<1> QED
    BY <1>1, <1>2, TraceFacts

LEMMA UndeployTrace ==
    ASSUME NEW ok \in [1..2 -> BOOLEAN], NEW m \in 0..2
    PROVE  /\ Trace(DeleteSteps, ok, m) \in Seq(StepRecords)
           /\ Len(Trace(DeleteSteps, ok, m)) = m
           /\ \A j \in 1..m : Trace(DeleteSteps, ok, m)[j].ok = ok[j]
<1>1. DeleteSteps \in Seq(Steps) /\ Len(DeleteSteps) = 2
    BY StepLists
<1>2. 2 \in Nat
    OBVIOUS
<1> QED
    BY <1>1, <1>2, TraceFacts

(* An undeploy whose two steps ran and succeeded deletes every object.      *)
LEMMA UndeployDeletesAll ==
    ASSUME NEW ok \in [1..2 -> BOOLEAN], ok[1], ok[2],
           Delete(DefaultHasCrds, TRUE, 1, ok, 2)
    PROVE  controller' = NoImage /\ (DefaultHasCrds => ~crds')
<1>1. PICK part \in SUBSET {"crds", "controller"} :
            LET deleted == IF ok[2] THEN {"crds", "controller"} ELSE part IN
            /\ crds' = (crds /\ ~(DefaultHasCrds /\ "crds" \in deleted))
            /\ controller' = IF TRUE /\ "controller" \in deleted THEN NoImage ELSE controller
    BY DEF Delete
<1> QED
    BY <1>1

-----------------------------------------------------------------------------
(* The invariant: the two properties hold after every invocation, and the *)
(* state is well typed.                                                    *)
IInv == TypeOK /\ DeployRunsRequestedImage /\ UndeployRemovesController

(* An invocation that is neither 'deploy' nor 'undeploy' makes both        *)
(* properties hold vacuously.                                               *)
LEMMA OtherCommand ==
    ASSUME last'.cmd \notin {"deploy", "undeploy"}
    PROVE  DeployRunsRequestedImage' /\ UndeployRemovesController'
    BY DEF DeployRunsRequestedImage, UndeployRemovesController

LEMMA InitIInv == Init => IInv
<1> SUFFICES ASSUME Init PROVE IInv
    OBVIOUS
<1>1. TypeOK
    BY DEF Init, TypeOK, AllImages, ScaffoldImage, NoImage, Commands
<1> QED
    BY <1>1 DEF Init, IInv, DeployRunsRequestedImage, UndeployRemovesController

LEMMA GenerateOneIInv ==
    ASSUME IInv, NEW cmd \in {"generate mocks", "generate manifests", "generate deep-copy"},
           NEW step \in Steps, GenerateOne(cmd, step)
    PROVE  IInv'
<1>1. PICK o \in Outcomes(1) : Invoked(cmd, NoImage, <<step>>, o[1], o[2])
    BY DEF GenerateOne
<1>2. o[1] \in [1..1 -> BOOLEAN] /\ o[2] \in 0..1 /\ <<step>> \in Seq(Steps) /\ Len(<<step>>) = 1
    BY <1>1, OutcomeFacts, SingleStep
<1>3. last' \in [cmd : Commands, image : AllImages \cup {NoImage}, steps : Seq(StepRecords)]
      /\ last'.cmd = cmd
    <2>1. cmd \in Commands /\ NoImage \in AllImages \cup {NoImage}
        BY DEF Commands
    <2> QED
        BY <1>1, <1>2, <2>1, InvokedFacts
<1>4. TypeOK'
    BY <1>3 DEF GenerateOne, IInv, TypeOK
<1> QED
    BY <1>3, <1>4, OtherCommand DEF IInv

LEMMA GenerateBundleIInv ==
    ASSUME IInv, NEW img \in UserImages, GenerateBundle(img)
    PROVE  IInv'
<1>1. PICK o \in Outcomes(4) :
        EditImage(img, 2, o[1], o[2]) /\ Invoked("generate bundle", img, BundleSteps, o[1], o[2])
    BY DEF GenerateBundle
<1>2. o[1] \in [1..4 -> BOOLEAN] /\ o[2] \in 0..4
    BY <1>1, OutcomeFacts
<1>3. last' \in [cmd : Commands, image : AllImages \cup {NoImage}, steps : Seq(StepRecords)]
      /\ last'.cmd = "generate bundle"
    <2>1. "generate bundle" \in Commands /\ img \in AllImages \cup {NoImage}
        BY DEF Commands, AllImages
    <2> QED
        BY <1>1, <1>2, <2>1, StepLists, InvokedFacts
<1>4. kimage' \in AllImages
    BY <1>1, <1>2 DEF EditImage, IInv, TypeOK, AllImages
<1>5. TypeOK'
    BY <1>3, <1>4 DEF GenerateBundle, IInv, TypeOK
<1> QED
    BY <1>3, <1>5, OtherCommand DEF IInv

LEMMA GenerateIInv ==
    ASSUME IInv, Generate
    PROVE  IInv'
<1>1. PICK o \in Outcomes(7) :
        EditImage(DefaultImage, 5, o[1], o[2]) /\ Invoked("generate", DefaultImage, GenerateSteps, o[1], o[2])
    BY DEF Generate
<1>2. o[1] \in [1..7 -> BOOLEAN] /\ o[2] \in 0..7
    BY <1>1, OutcomeFacts
<1>3. last' \in [cmd : Commands, image : AllImages \cup {NoImage}, steps : Seq(StepRecords)]
      /\ last'.cmd = "generate"
    <2>1. "generate" \in Commands /\ DefaultImage \in AllImages \cup {NoImage}
        BY DEF Commands, AllImages
    <2> QED
        BY <1>1, <1>2, <2>1, StepLists, InvokedFacts
<1>4. kimage' \in AllImages
    BY <1>1, <1>2 DEF EditImage, IInv, TypeOK, AllImages
<1>5. TypeOK'
    BY <1>3, <1>4 DEF Generate, IInv, TypeOK
<1> QED
    BY <1>3, <1>5, OtherCommand DEF IInv

(* A deploy whose three steps ran and succeeded sets the image, then      *)
(* renders and applies it.                                                 *)
LEMMA DeployIInv ==
    ASSUME IInv, NEW img \in UserImages, Deploy(img)
    PROVE  IInv'
<1>1. PICK o \in Outcomes(3) :
        /\ EditImage(img, 1, o[1], o[2])
        /\ Apply(DefaultHasCrds, TRUE, kimage', 2, o[1], o[2])
        /\ Invoked("deploy", img, DeploySteps, o[1], o[2])
    BY DEF Deploy
<1>2. o[1] \in [1..3 -> BOOLEAN] /\ o[2] \in 0..3
    BY <1>1, OutcomeFacts
<1>3. /\ last' \in [cmd : Commands, image : AllImages \cup {NoImage}, steps : Seq(StepRecords)]
      /\ last'.cmd = "deploy" /\ last'.image = img
      /\ Len(last'.steps) = o[2]
      /\ \A j \in 1..o[2] : last'.steps[j].ok = o[1][j]
    <2>1. last' = [cmd |-> "deploy", image |-> img, steps |-> Trace(DeploySteps, o[1], o[2])]
        BY <1>1 DEF Invoked
    <2>2. /\ Trace(DeploySteps, o[1], o[2]) \in Seq(StepRecords)
          /\ Len(Trace(DeploySteps, o[1], o[2])) = o[2]
          /\ \A j \in 1..o[2] : Trace(DeploySteps, o[1], o[2])[j].ok = o[1][j]
        BY <1>2, DeployTrace
    <2> QED
        BY <2>1, <2>2 DEF Commands, AllImages
<1>4. kimage' \in AllImages
    BY <1>1, <1>2 DEF EditImage, IInv, TypeOK, AllImages
<1>5. crds' \in BOOLEAN /\ controller' \in AllImages \cup {NoImage}
    <2>1. Apply(DefaultHasCrds, TRUE, kimage', 2, o[1], o[2])
        BY <1>1
    <2> QED
        BY <1>2, <1>4, <2>1, ApplyType DEF IInv
<1>6. TypeOK'
    BY <1>1, <1>3, <1>4, <1>5 DEF Deploy, IInv, TypeOK
<1>7. DeployRunsRequestedImage'
    <2> SUFFICES ASSUME RanCleanly(3)' PROVE controller' = img
        BY <1>3 DEF DeployRunsRequestedImage
    <2>1. o[2] = 3 /\ o[1][1] /\ o[1][2] /\ o[1][3]
        BY <1>2, <1>3 DEF RanCleanly
    <2>2. kimage' = img
        BY <1>1, <2>1 DEF EditImage
    <2>3. controller' = kimage'
        <3>1. Apply(DefaultHasCrds, TRUE, kimage', 2, o[1], o[2])
            BY <1>1
        <3> QED
            BY <3>1, <2>1 DEF Apply
    <2> QED
        BY <2>2, <2>3
<1>8. UndeployRemovesController'
    BY <1>3 DEF UndeployRemovesController
<1> QED
    BY <1>6, <1>7, <1>8 DEF IInv

(* An undeploy whose render and delete ran and succeeded removes the      *)
(* controller, and the CRDs when config/default has them.                  *)
LEMMA UndeployIInv ==
    ASSUME IInv, Undeploy
    PROVE  IInv'
<1>1. PICK o \in Outcomes(2) :
        /\ Delete(DefaultHasCrds, TRUE, 1, o[1], o[2])
        /\ Invoked("undeploy", NoImage, DeleteSteps, o[1], o[2])
    BY DEF Undeploy
<1>2. o[1] \in [1..2 -> BOOLEAN] /\ o[2] \in 0..2
    BY <1>1, OutcomeFacts
<1>3. /\ last' \in [cmd : Commands, image : AllImages \cup {NoImage}, steps : Seq(StepRecords)]
      /\ last'.cmd = "undeploy"
      /\ Len(last'.steps) = o[2]
      /\ \A j \in 1..o[2] : last'.steps[j].ok = o[1][j]
    <2>1. last' = [cmd |-> "undeploy", image |-> NoImage,
                   steps |-> Trace(DeleteSteps, o[1], o[2])]
        BY <1>1 DEF Invoked
    <2>2. /\ Trace(DeleteSteps, o[1], o[2]) \in Seq(StepRecords)
          /\ Len(Trace(DeleteSteps, o[1], o[2])) = o[2]
          /\ \A j \in 1..o[2] : Trace(DeleteSteps, o[1], o[2])[j].ok = o[1][j]
        BY <1>2, UndeployTrace
    <2> QED
        BY <2>1, <2>2 DEF Commands
<1>4. crds' \in BOOLEAN /\ controller' \in AllImages \cup {NoImage}
    BY <1>1, <1>2, DeleteType DEF IInv
<1>5. TypeOK'
    BY <1>1, <1>3, <1>4 DEF Undeploy, IInv, TypeOK
<1>6. UndeployRemovesController'
    <2> SUFFICES ASSUME RanCleanly(2)'
                 PROVE  controller' = NoImage /\ (DefaultHasCrds => ~crds')
        BY <1>3 DEF UndeployRemovesController
    <2>1. o[2] = 2 /\ o[1][1] /\ o[1][2]
        BY <1>2, <1>3 DEF RanCleanly
    <2>2. Delete(DefaultHasCrds, TRUE, 1, o[1], 2)
        BY <1>1, <2>1
    <2> QED
        BY <1>2, <2>1, <2>2, UndeployDeletesAll
<1>7. DeployRunsRequestedImage'
    BY <1>3 DEF DeployRunsRequestedImage
<1> QED
    BY <1>5, <1>6, <1>7 DEF IInv

LEMMA InstallIInv ==
    ASSUME IInv, Install
    PROVE  IInv'
<1>1. PICK o \in Outcomes(2) :
        /\ Apply(TRUE, FALSE, kimage, 1, o[1], o[2])
        /\ Invoked("install", NoImage, ApplySteps, o[1], o[2])
    BY DEF Install
<1>2. o[1] \in [1..2 -> BOOLEAN] /\ o[2] \in 0..2
    BY <1>1, OutcomeFacts
<1>3. last' \in [cmd : Commands, image : AllImages \cup {NoImage}, steps : Seq(StepRecords)]
      /\ last'.cmd = "install"
    <2>1. "install" \in Commands /\ NoImage \in AllImages \cup {NoImage}
        BY DEF Commands
    <2> QED
        BY <1>1, <1>2, <2>1, StepLists, InvokedFacts
<1>4. crds' \in BOOLEAN /\ controller' \in AllImages \cup {NoImage}
    <2>1. kimage \in AllImages
        BY DEF IInv, TypeOK
    <2> QED
        BY <1>1, <1>2, <2>1, ApplyType DEF IInv
<1>5. TypeOK'
    BY <1>1, <1>3, <1>4 DEF Install, IInv, TypeOK
<1> QED
    BY <1>3, <1>5, OtherCommand DEF IInv

LEMMA UninstallIInv ==
    ASSUME IInv, Uninstall
    PROVE  IInv'
<1>1. PICK o \in Outcomes(2) :
        /\ Delete(TRUE, FALSE, 1, o[1], o[2])
        /\ Invoked("uninstall", NoImage, DeleteSteps, o[1], o[2])
    BY DEF Uninstall
<1>2. o[1] \in [1..2 -> BOOLEAN] /\ o[2] \in 0..2
    BY <1>1, OutcomeFacts
<1>3. last' \in [cmd : Commands, image : AllImages \cup {NoImage}, steps : Seq(StepRecords)]
      /\ last'.cmd = "uninstall"
    <2>1. "uninstall" \in Commands /\ NoImage \in AllImages \cup {NoImage}
        BY DEF Commands
    <2> QED
        BY <1>1, <1>2, <2>1, StepLists, InvokedFacts
<1>4. crds' \in BOOLEAN /\ controller' \in AllImages \cup {NoImage}
    BY <1>1, <1>2, DeleteType DEF IInv
<1>5. TypeOK'
    BY <1>1, <1>3, <1>4 DEF Uninstall, IInv, TypeOK
<1> QED
    BY <1>3, <1>5, OtherCommand DEF IInv

LEMMA NextIInv == IInv /\ [Next]_vars => IInv'
<1> SUFFICES ASSUME IInv, [Next]_vars PROVE IInv'
    OBVIOUS
<1>1. CASE GenerateOne("generate mocks", "go generate")
    BY <1>1, GenerateOneIInv DEF Steps
<1>2. CASE GenerateOne("generate manifests", "controller-gen rbac crd webhook")
    BY <1>2, GenerateOneIInv DEF Steps
<1>3. CASE GenerateOne("generate deep-copy", "controller-gen object")
    BY <1>3, GenerateOneIInv DEF Steps
<1>4. CASE Generate
    BY <1>4, GenerateIInv
<1>5. CASE Undeploy
    BY <1>5, UndeployIInv
<1>6. CASE Install
    BY <1>6, InstallIInv
<1>7. CASE Uninstall
    BY <1>7, UninstallIInv
<1>8. CASE \E img \in UserImages : GenerateBundle(img) \/ Deploy(img)
    BY <1>8, GenerateBundleIInv, DeployIInv
<1>9. CASE UNCHANGED vars
    BY <1>9 DEF vars, IInv, TypeOK, DeployRunsRequestedImage, UndeployRemovesController, RanCleanly
<1> QED
    BY <1>1, <1>2, <1>3, <1>4, <1>5, <1>6, <1>7, <1>8, <1>9 DEF Next

(* THEOREM: for any set of images and either layout of config/default, a  *)
(* 'deploy --image img' whose commands all succeeded leaves the           *)
(* controller running img, after any interleaving of generate, deploy,    *)
(* undeploy, install and uninstall, with failed and killed steps.         *)
THEOREM DeployCorrect == Spec => []DeployRunsRequestedImage
<1>1. IInv => DeployRunsRequestedImage
    BY DEF IInv
<1> QED
    BY <1>1, InitIInv, NextIInv, PTL DEF Spec

(* THEOREM: an 'undeploy' whose commands succeeded leaves no controller,  *)
(* and no CRDs when config/default includes them.                          *)
THEOREM UndeployCorrect == Spec => []UndeployRemovesController
<1>1. IInv => UndeployRemovesController
    BY DEF IInv
<1> QED
    BY <1>1, InitIInv, NextIInv, PTL DEF Spec

(* THEOREM: every reachable state of these commands is well typed.         *)
THEOREM ClusterTypeCorrect == Spec => []TypeOK
<1>1. IInv => TypeOK
    BY DEF IInv
<1> QED
    BY <1>1, InitIInv, NextIInv, PTL DEF Spec

=============================================================================
