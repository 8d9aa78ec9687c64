------------------------------ MODULE Cluster ------------------------------
(***************************************************************************)
(* The commands of dev.py that change the manifests of the working tree   *)
(* or the cluster: 'generate' and its subcommands (src/dev/generate.py),   *)
(* 'deploy' and 'undeploy' (src/dev/deploy.py), 'install' and 'uninstall' *)
(* (src/dev/install.py).                                                   *)
(*                                                                         *)
(* They share two pieces of persistent state: the controller image named  *)
(* in config/manager/kustomization.yaml, which 'generate bundle' and      *)
(* 'deploy' both rewrite with 'kustomize edit set image', and the objects *)
(* in the cluster.  Every external command is run by command.run(), which *)
(* ignores its exit code, so an invocation goes on after a failed step;   *)
(* only a kill of the process stops it early.  Each invocation is one     *)
(* action; 'last' records the steps it ran, in order, with their success. *)
(***************************************************************************)
EXTENDS Naturals, Sequences

CONSTANTS
    UserImages,     \* images a user passes with --image
    DefaultHasCrds  \* whether config/default includes the CRDs of config/crd

(* f"{defaults.IMAGE_REPOSITORY}:{defaults.IMAGE_TAG}", the default of    *)
(* --image, and the image the kustomization names before any edit.         *)
DefaultImage  == "default"
ScaffoldImage == "scaffold"
NoImage       == "none"

ASSUME ConstantsAssumption == DefaultHasCrds \in BOOLEAN /\ DefaultImage \in UserImages

AllImages == UserImages \cup {ScaffoldImage}

Commands == {"generate", "generate mocks", "generate manifests", "generate deep-copy",
             "generate bundle", "deploy", "undeploy", "install", "uninstall", "none"}

Steps == {"go generate", "controller-gen rbac crd webhook", "controller-gen object",
          "operator-sdk generate kustomize", "kustomize edit set image",
          "kustomize build", "operator-sdk bundle validate",
          "kubectl apply", "kubectl delete"}

VARIABLES
    kimage,     \* image named in config/manager/kustomization.yaml
    bundleDir,  \* image named by the bundle in ./bundle (NoImage: no bundle)
    crds,       \* whether the CRDs are in the cluster
    controller, \* image the controller in the cluster runs (NoImage: none)
    last        \* the last invocation: command, --image, steps run with their success

vars == <<kimage, bundleDir, crds, controller, last>>

StepRecords == [name : Steps, ok : BOOLEAN]

TypeOK ==
    /\ kimage \in AllImages
    /\ bundleDir \in AllImages \cup {NoImage}
    /\ crds \in BOOLEAN
    /\ controller \in AllImages \cup {NoImage}
    /\ last \in [cmd : Commands, image : AllImages \cup {NoImage}, steps : Seq(StepRecords)]

Init ==
    /\ kimage = ScaffoldImage
    /\ bundleDir \in AllImages \cup {NoImage}
    /\ crds \in BOOLEAN
    /\ controller \in AllImages \cup {NoImage}
    /\ last = [cmd |-> "none", image |-> NoImage, steps |-> <<>>]

(* The steps that ran before the process was killed after m of them, or  *)
(* all of them when m = Len(names).                                        *)
Trace(names, ok, m) == [i \in 1..m |-> [name |-> names[i], ok |-> ok[i]]]

Invoked(cmd, img, names, ok, m) ==
    last' = [cmd |-> cmd, image |-> img, steps |-> Trace(names, ok, m)]

(* Outcomes of the external commands: success per step, and the number of *)
(* steps that ran before a kill.                                           *)
Outcomes(k) == [1..k -> BOOLEAN] \X (0..k)

(* Mutant: a failed edit leaves the kustomization without an image.      *)
EditImageTruncates(img, i, ok, m) ==
    kimage' = IF m >= i /\ ok[i] THEN img ELSE IF m >= i THEN NoImage ELSE kimage

(* 'kustomize edit set image controller=img', run as step i.              *)
EditImage(img, i, ok, m) == kimage' = IF m >= i /\ ok[i] THEN img ELSE kimage

(* 'kustomize build dir | kubectl apply -f -' as steps i and i+1, for a   *)
(* directory whose objects carry the CRDs (hasCrds) and the controller    *)
(* (hasCtl).  A failed build writes nothing and the apply gets no         *)
(* objects; a failed apply may have applied any part of them.             *)
Apply(hasCrds, hasCtl, img, i, ok, m) ==
    IF m >= i + 1 /\ ok[i]
    THEN \E part \in SUBSET {"crds", "controller"} :
            LET applied == IF ok[i + 1] THEN {"crds", "controller"} ELSE part IN
            /\ crds' = (crds \/ (hasCrds /\ "crds" \in applied))
            /\ controller' = IF hasCtl /\ "controller" \in applied THEN img ELSE controller
    ELSE UNCHANGED <<crds, controller>>

(* 'kustomize build dir | kubectl delete -f -' as steps i and i+1.         *)
Delete(hasCrds, hasCtl, i, ok, m) ==
    IF m >= i + 1 /\ ok[i]
    THEN \E part \in SUBSET {"crds", "controller"} :
            LET deleted == IF ok[i + 1] THEN {"crds", "controller"} ELSE part IN
            /\ crds' = (crds /\ ~(hasCrds /\ "crds" \in deleted))
            /\ controller' = IF hasCtl /\ "controller" \in deleted THEN NoImage ELSE controller
    ELSE UNCHANGED <<crds, controller>>

(* 'generate mocks', 'generate manifests', 'generate deep-copy': one      *)
(* external command each, writing generated sources and manifests the     *)
(* model does not track.                                                   *)
GenerateOne(cmd, step) ==
    /\ \E o \in Outcomes(1) : Invoked(cmd, NoImage, <<step>>, o[1], o[2])
    /\ UNCHANGED <<kimage, bundleDir, crds, controller>>

BundleSteps == <<"operator-sdk generate kustomize", "kustomize edit set image",
                 "kustomize build", "operator-sdk bundle validate">>

(* 'generate bundle --image img': regenerate the manifest bases, set the  *)
(* image in the kustomization, render config/manifests to the terminal    *)
(* and validate ./bundle, which none of these steps writes.               *)
GenerateBundle(img) ==
    /\ \E o \in Outcomes(4) :
        /\ EditImage(img, 2, o[1], o[2])
        /\ Invoked("generate bundle", img, BundleSteps, o[1], o[2])
    /\ UNCHANGED <<bundleDir, crds, controller>>

GenerateSteps == <<"go generate", "controller-gen rbac crd webhook",
                   "controller-gen object">> \o BundleSteps

(* 'generate' without a subcommand: mocks, manifests, deep_copy and       *)
(* bundle with the default image, one after the other.                     *)
Generate ==
    /\ \E o \in Outcomes(7) :
        /\ EditImage(DefaultImage, 5, o[1], o[2])
        /\ Invoked("generate", DefaultImage, GenerateSteps, o[1], o[2])
    /\ UNCHANGED <<bundleDir, crds, controller>>

DeploySteps == <<"kustomize edit set image", "kustomize build", "kubectl apply">>

(* Mutant: config/default rendered before the image is set.                *)
DeployBuildFirst(img) ==
    /\ \E o \in Outcomes(3) :
        /\ EditImage(img, 1, o[1], o[2])
        /\ Apply(DefaultHasCrds, TRUE, kimage, 2, o[1], o[2])
        /\ Invoked("deploy", img, DeploySteps, o[1], o[2])
    /\ UNCHANGED bundleDir

(* 'deploy --image img': set the image in the kustomization, then render  *)
(* config/default and apply it.                                            *)
Deploy(img) ==
    /\ \E o \in Outcomes(3) :
        /\ EditImage(img, 1, o[1], o[2])
        /\ Apply(DefaultHasCrds, TRUE, kimage', 2, o[1], o[2])
        /\ Invoked("deploy", img, DeploySteps, o[1], o[2])
    /\ UNCHANGED bundleDir

(* 'kustomize build dir | kubectl delete -f -' and '... | kubectl apply -f -'. *)
DeleteSteps == <<"kustomize build", "kubectl delete">>
ApplySteps  == <<"kustomize build", "kubectl apply">>

(* Mutant: undeploy renders config/crd, as uninstall does.                 *)
UndeployCrdOnly ==
    /\ \E o \in Outcomes(2) :
        /\ Delete(TRUE, FALSE, 1, o[1], o[2])
        /\ Invoked("undeploy", NoImage, DeleteSteps, o[1], o[2])
    /\ UNCHANGED <<kimage, bundleDir>>

(* 'undeploy': render config/default and delete it.  --ignore-not-found   *)
(* only changes the exit code of kubectl, which is ignored.                *)
Undeploy ==
    /\ \E o \in Outcomes(2) :
        /\ Delete(DefaultHasCrds, TRUE, 1, o[1], o[2])
        /\ Invoked("undeploy", NoImage, DeleteSteps, o[1], o[2])
    /\ UNCHANGED <<kimage, bundleDir>>

(* Mutant: install renders config/default instead of config/crd.         *)
InstallDefault ==
    /\ \E o \in Outcomes(2) :
        /\ Apply(DefaultHasCrds, TRUE, kimage, 1, o[1], o[2])
        /\ Invoked("install", NoImage, ApplySteps, o[1], o[2])
    /\ UNCHANGED <<kimage, bundleDir>>

(* 'install': render config/crd and apply it.                              *)
Install ==
    /\ \E o \in Outcomes(2) :
        /\ Apply(TRUE, FALSE, kimage, 1, o[1], o[2])
        /\ Invoked("install", NoImage, ApplySteps, o[1], o[2])
    /\ UNCHANGED <<kimage, bundleDir>>

(* 'uninstall': render config/crd and delete it.                           *)
Uninstall ==
    /\ \E o \in Outcomes(2) :
        /\ Delete(TRUE, FALSE, 1, o[1], o[2])
        /\ Invoked("uninstall", NoImage, DeleteSteps, o[1], o[2])
    /\ UNCHANGED <<kimage, bundleDir>>

Next ==
    \/ GenerateOne("generate mocks", "go generate")
    \/ GenerateOne("generate manifests", "controller-gen rbac crd webhook")
    \/ GenerateOne("generate deep-copy", "controller-gen object")
    \/ Generate
    \/ Undeploy
    \/ Install
    \/ Uninstall
    \/ \E img \in UserImages : GenerateBundle(img) \/ Deploy(img)

Spec == Init /\ [][Next]_vars
-----------------------------------------------------------------------------
(* The last invocation ran to its end and every external command in it    *)
(* succeeded.                                                              *)
RanCleanly(n) == Len(last.steps) = n /\ \A i \in 1..n : last.steps[i].ok

(* A 'deploy --image img' whose three commands all succeeded leaves the   *)
(* controller running img, whatever image an earlier 'generate bundle' or *)
(* 'deploy' left in the kustomization: the edit happens before the render.*)
DeployRunsRequestedImage ==
    (last.cmd = "deploy" /\ RanCleanly(3)) => controller = last.image

(* An 'undeploy' whose commands succeeded leaves no controller in the     *)
(* cluster, and no CRDs when config/default includes them, whatever       *)
(* deploys and installs came before.                                       *)
UndeployRemovesController ==
    (last.cmd = "undeploy" /\ RanCleanly(2))
        => controller = NoImage /\ (DefaultHasCrds => ~crds)

(* The spec (sections 7 and 8): 'generate' runs its steps in order,       *)
(* aborting at the first failure and never invoking the later ones; no    *)
(* command goes on after a failed external command.  command.run()        *)
(* ignores exit codes, so every later step still runs.                     *)
NoStepAfterFailure ==
    \A i \in 1..(Len(last.steps) - 1) : last.steps[i].ok

(* 'generate bundle --image img' ("Generate operator bundle") whose steps *)
(* all succeeded leaves in ./bundle, which it then validates, a bundle    *)
(* naming img.  The code sends the output of 'kustomize build' to the     *)
(* terminal, so ./bundle keeps whatever an earlier run put there.         *)
BundleNamesImage ==
    (last.cmd \in {"generate", "generate bundle"} /\ RanCleanly(Len(last.steps))
        /\ Len(last.steps) > 0 /\ last.steps[Len(last.steps)].name = "operator-sdk bundle validate")
        => bundleDir = last.image
-----------------------------------------------------------------------------
(***************************************************************************)
(* Cluster implements ClusterContract: the kustomization's image and the  *)
(* cluster are the contract's; ./bundle and the record of the last         *)
(* invocation are hidden.                                                  *)
(***************************************************************************)
Contract == INSTANCE ClusterContract WITH cmd <- last.cmd

(* Whatever fails and wherever a command is killed: the kustomization only *)
(* comes to name an image a command was given, the controller only comes  *)
(* to run the image the kustomization names once the command's edit is    *)
(* done, 'deploy' and 'install' never delete, 'undeploy' and 'uninstall'  *)
(* never create, and neither 'install' nor 'uninstall' touches the         *)
(* controller.                                                             *)
ClusterRefined == Contract!Spec
=============================================================================
