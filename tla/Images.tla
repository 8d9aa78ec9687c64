------------------------------- MODULE Images -------------------------------
(***************************************************************************)
(* The image commands of dev.py: 'build binary', 'build image', 'build     *)
(* bundle-image' (src/dev/build.py) and 'push image', 'push bundle-image'  *)
(* (src/dev/push.py), with their default options (src/dev/defaults.py).   *)
(*                                                                         *)
(* Each invocation of dev.py runs one command.  The external commands     *)
(* ('go build', 'podman build', 'podman push') are run by command.run(),   *)
(* which ignores their exit code, so dev.py goes on and exits with status *)
(* 0 whether or not they succeed.  The state is the source revision, what the local    *)
(* podman storage and the registry hold under each image reference, and   *)
(* a record of the last invocation.                                        *)
(***************************************************************************)
EXTENDS Naturals, Sequences

CONSTANTS
    Tags,       \* image tags a user passes with --tag (contains IMAGE_TAG)
    MaxRev      \* bound on the number of source revisions

(* src/dev/defaults.py *)
IMAGE_REPOSITORY        == "quay.io/openshift-kni/oran-o2ims"
IMAGE_TAG               == "latest"
BUNDLE_IMAGE_REPOSITORY == IMAGE_REPOSITORY \o "-bundle"
BUNDLE_IMAGE_TAG        == IMAGE_TAG

ASSUME TagsAssumption == IMAGE_TAG \in Tags
ASSUME MaxRevAssumption == MaxRev \in Nat \ {0}

Repos == {IMAGE_REPOSITORY, BUNDLE_IMAGE_REPOSITORY}

(* The reference podman is given for repository r and tag t.  In 'build   *)
(* bundle-image' a missing comma joins the tag with the build context "."  *)
(* so the tag argument is t followed by a dot.                             *)
Ref(r, t)       == <<r, t>>
DottedRef(r, t) == <<r, t \o ".">>
Refs == {Ref(r, t) : r \in Repos, t \in Tags} \cup {DottedRef(r, t) : r \in Repos, t \in Tags}

(* No tag a user passes ends with the dot of the build context, so the    *)
(* reference 'build bundle-image' writes is never one a push names.        *)
ASSUME DotAssumption ==
    \A r, r2 \in Repos, t, t2 \in Tags : DottedRef(r, t) # Ref(r2, t2)

(* An image: what it is built from and at which revision of the sources.  *)
Revs   == 1..MaxRev
BuiltImages == [kind : {"operator", "bundle"}, rev : Revs]
None   == [kind |-> "none"]

Commands == {"build binary", "build image", "build bundle-image",
             "push image", "push bundle-image", "edit"}

VARIABLES
    rev,        \* the revision of the working tree
    binary,     \* revision of the binary 'go build' left in the tree (0: none)
    local,      \* image held by the local podman storage, per reference
    registry,   \* image held by the registry, per reference
    last        \* the last invocation: command, options, external commands' success

vars == <<rev, binary, local, registry, last>>

Invocations == [cmd : Commands, repo : Repos, tag : Tags, ok : BOOLEAN]

TypeOK ==
    /\ rev \in Revs
    /\ binary \in 0..MaxRev
    /\ local \in [Refs -> BuiltImages \cup {None}]
    /\ registry \in [Refs -> BuiltImages \cup {None}]
    /\ last \in Invocations

Init ==
    /\ rev = 1
    /\ binary = 0
    /\ local = [x \in Refs |-> None]
    /\ registry = [x \in Refs |-> None]
    /\ last = [cmd |-> "edit", repo |-> IMAGE_REPOSITORY, tag |-> IMAGE_TAG,
               ok |-> TRUE]

(* dev.py returns normally, with status 0, after a command.run() whose    *)
(* command failed: ok records whether it succeeded.                       *)
Ran(cmd, r, t, ok) == last' = [cmd |-> cmd, repo |-> r, tag |-> t, ok |-> ok]

(* A developer changes the sources.                                        *)
Edit ==
    /\ rev < MaxRev
    /\ rev' = rev + 1
    /\ Ran("edit", last.repo, last.tag, TRUE)
    /\ UNCHANGED <<binary, local, registry>>

(* 'build binary' (the default of 'build'): go build.                      *)
BuildBinary ==
    /\ \E ok \in BOOLEAN :
        /\ binary' = IF ok THEN rev ELSE binary
        /\ Ran("build binary", last.repo, last.tag, ok)
    /\ UNCHANGED <<rev, local, registry>>

(* podman build --tag ref: on success ref names the new image; on failure *)
(* the storage is unchanged.                                               *)
PodmanBuild(ref, kind, ok) ==
    local' = IF ok THEN [local EXCEPT ![ref] = [kind |-> kind, rev |-> rev]] ELSE local

(* 'build image --repository r --tag t' (defaults IMAGE_REPOSITORY and     *)
(* IMAGE_TAG).                                                             *)
BuildImage(r, t) ==
    /\ \E ok \in BOOLEAN :
        /\ PodmanBuild(Ref(r, t), "operator", ok)
        /\ Ran("build image", r, t, ok)
    /\ UNCHANGED <<rev, binary, registry>>

(* Mutant: the bundle tagged as the code's comment intends.                *)
BuildBundleImageFixed(r, t) ==
    /\ \E ok \in BOOLEAN :
        /\ PodmanBuild(Ref(r, t), "bundle", ok)
        /\ Ran("build bundle-image", r, t, ok)
    /\ UNCHANGED <<rev, binary, registry>>

(* 'build bundle-image --repository r --tag t' (defaults IMAGE_REPOSITORY  *)
(* and IMAGE_TAG): the reference is r:t followed by the context's dot.     *)
BuildBundleImage(r, t) ==
    /\ \E ok \in BOOLEAN :
        /\ PodmanBuild(DottedRef(r, t), "bundle", ok)
        /\ Ran("build bundle-image", r, t, ok)
    /\ UNCHANGED <<rev, binary, registry>>

(* podman push ref: fails when the local storage has no such image, or on *)
(* a registry error; on success the registry holds the local image.       *)
PodmanPush(ref, ok) ==
    /\ ok => local[ref] # None
    /\ registry' = IF ok THEN [registry EXCEPT ![ref] = local[ref]] ELSE registry

(* 'push image --repository r --tag t' (the default of 'push'; defaults   *)
(* IMAGE_REPOSITORY and IMAGE_TAG).                                        *)
PushImage(r, t) ==
    /\ \E ok \in BOOLEAN :
        /\ PodmanPush(Ref(r, t), ok)
        /\ Ran("push image", r, t, ok)
    /\ UNCHANGED <<rev, binary, local>>

(* 'push bundle-image --repository r --tag t' (defaults                   *)
(* BUNDLE_IMAGE_REPOSITORY and BUNDLE_IMAGE_TAG).                          *)
PushBundleImage(r, t) ==
    /\ \E ok \in BOOLEAN :
        /\ PodmanPush(Ref(r, t), ok)
        /\ Ran("push bundle-image", r, t, ok)
    /\ UNCHANGED <<rev, binary, local>>

Next ==
    \/ Edit
    \/ BuildBinary
    \/ \E r \in Repos, t \in Tags :
        \/ BuildImage(r, t)
        \/ BuildBundleImage(r, t)
        \/ PushImage(r, t)
        \/ PushBundleImage(r, t)

Spec == Init /\ [][Next]_vars
-----------------------------------------------------------------------------
(* 'push image' publishes an operator image, never a bundle: whatever     *)
(* sequence of builds, pushes and edits came before, a successful 'push   *)
(* image' leaves the registry holding, under the pushed reference, an     *)
(* image built by 'build image'.  It holds because 'build bundle-image'   *)
(* stores its bundle under a reference no push names; it would fail if    *)
(* the bundle were tagged r:t with the build's default repository, which  *)
(* is the operator's.                                                      *)
PushImagePublishesOperator ==
    (last.cmd = "push image" /\ last.ok)
        => registry[Ref(last.repo, last.tag)].kind = "operator"

(* A bundle that 'build bundle-image' built is found by 'push bundle-image'*)
(* run with the same --repository and --tag, and by 'push bundle-image'    *)
(* run with its defaults when the build ran with its defaults.            *)
BundleBuiltForPush ==
    (last.cmd = "build bundle-image" /\ last.ok)
        => /\ local[Ref(last.repo, last.tag)] = [kind |-> "bundle", rev |-> rev]
           /\ (last.repo = IMAGE_REPOSITORY /\ last.tag = IMAGE_TAG)
                => local[Ref(BUNDLE_IMAGE_REPOSITORY, BUNDLE_IMAGE_TAG)]
                       = [kind |-> "bundle", rev |-> rev]
-----------------------------------------------------------------------------
(***************************************************************************)
(* Images implements ImageStore on the references a push names: there,    *)
(* the local storage and the registry are the contract's; the binary and   *)
(* the dotted references of 'build bundle-image' are hidden.               *)
(***************************************************************************)
PushRefs == {Ref(r, t) : r \in Repos, t \in Tags}

Store == INSTANCE ImageStore
             WITH local <- [x \in PushRefs |-> local[x]],
                  registry <- [x \in PushRefs |-> registry[x]]

(* Under every reference a push can name, whatever sequence of builds,     *)
(* pushes and edits runs: only 'build image' stores an image, always an    *)
(* operator image of the current sources, and a push publishes exactly     *)
(* the image stored under it, and only when there is one.  It fails if     *)
(* any command wrote a bundle, or anything else, under such a reference.   *)
StoreRefined == Store!Spec
=============================================================================
