--------------------------- MODULE ClusterContract ---------------------------
(***************************************************************************)
(* What each command of dev.py may do to the image named in               *)
(* config/manager/kustomization.yaml and to the objects in the cluster,    *)
(* whichever of its external commands fail and wherever it is killed      *)
(* (src/dev/generate.py, deploy.py, install.py): the kustomization only    *)
(* ever names the requested image, the controller only ever comes to run  *)
(* the image the kustomization names, and each command only moves the    *)
(* cluster towards what it is for.                                         *)
(*                                                                         *)
(* Module Cluster implements it; the refinement mapping is there.          *)
(***************************************************************************)
CONSTANTS
    UserImages,     \* images a user passes with --image
    DefaultHasCrds, \* whether config/default includes the CRDs
    NoImage         \* no controller

VARIABLES
    kimage,     \* image named in config/manager/kustomization.yaml
    crds,       \* whether the CRDs are in the cluster
    controller, \* image the controller in the cluster runs
    cmd         \* the last command run

vars == <<kimage, crds, controller, cmd>>

Init ==
    /\ crds \in BOOLEAN
    /\ controller \in UserImages \cup {kimage, NoImage}

(* 'generate mocks', 'generate manifests', 'generate deep-copy': neither   *)
(* the kustomization's image nor the cluster is touched.                  *)
GenerateSources ==
    UNCHANGED <<kimage, crds, controller>>

(* 'generate' and 'generate bundle': the kustomization may come to name   *)
(* img; the cluster is not touched.                                        *)
SetImage(img) ==
    /\ cmd' = "generate" \/ cmd' = "generate bundle"
    /\ kimage' \in {kimage, img}
    /\ UNCHANGED <<crds, controller>>

(* 'deploy --image img': the kustomization may come to name img, and the  *)
(* cluster may come to run the image it then names, and to hold the CRDs  *)
(* when config/default includes them.  Nothing is deleted.                 *)
Deploy(img) ==
    /\ cmd' = "deploy"
    /\ kimage' \in {kimage, img}
    /\ controller' \in {controller, kimage'}
    /\ crds' \in {crds, crds \/ DefaultHasCrds}

(* 'undeploy': the controller may go, and the CRDs when config/default    *)
(* includes them.  Nothing is created.                                     *)
Undeploy ==
    /\ cmd' = "undeploy"
    /\ controller' \in {controller, NoImage}
    /\ crds' \in {crds, crds /\ ~DefaultHasCrds}
    /\ UNCHANGED kimage

(* 'install' may add the CRDs, 'uninstall' may remove them; neither       *)
(* touches the controller.                                                 *)
Install ==
    /\ cmd' = "install"
    /\ crds' \in {crds, TRUE}
    /\ UNCHANGED <<kimage, controller>>

Uninstall ==
    /\ cmd' = "uninstall"
    /\ crds' \in {crds, FALSE}
    /\ UNCHANGED <<kimage, controller>>

Next ==
    \/ GenerateSources
    \/ \E img \in UserImages : SetImage(img) \/ Deploy(img)
    \/ Undeploy
    \/ Install
    \/ Uninstall

Spec == Init /\ [][Next]_vars

=============================================================================
