-------------------------- MODULE ImageStoreProofs --------------------------
(***************************************************************************)
(* Images implements ImageStore (the safety formula StoreRefined), for     *)
(* every set of tags none of which ends in a dot and every bound on        *)
(* source revisions.                                                       *)
(***************************************************************************)
EXTENDS ImagesProofs

(* The contract's view of a storage: its images under push references.    *)
View(f) == [x \in PushRefs |-> f[x]]

(* Every push reference is a reference of the storage; no dotted one is a *)
(* push reference.                                                         *)
LEMMA PushRefFacts ==
    /\ PushRefs \subseteq Refs
    /\ \A r \in Repos, t \in Tags : Ref(r, t) \in PushRefs
    /\ \A r \in Repos, t \in Tags : DottedRef(r, t) \notin PushRefs
<1>1. PushRefs \subseteq Refs
    BY DEF PushRefs, Refs
<1>2. \A r \in Repos, t \in Tags : Ref(r, t) \in PushRefs
    BY DEF PushRefs
<1>3. \A r \in Repos, t \in Tags : DottedRef(r, t) \notin PushRefs
    BY DotAssumption DEF PushRefs
<1> QED
    BY <1>1, <1>2, <1>3

(* Writing a storage under a push reference writes its view there.         *)
LEMMA ViewWrite ==
    ASSUME NEW f, NEW S, f \in [Refs -> S], NEW x \in PushRefs, NEW v
    PROVE  View([f EXCEPT ![x] = v]) = [View(f) EXCEPT ![x] = v]
BY PushRefFacts DEF View

(* Writing a storage under any other reference leaves its view.           *)
LEMMA ViewHidden ==
    ASSUME NEW f, NEW S, f \in [Refs -> S], NEW y \in Refs \ PushRefs, NEW v
    PROVE  View([f EXCEPT ![y] = v]) = View(f)
BY PushRefFacts DEF View

-----------------------------------------------------------------------------
(***************************************************************************)
(* Every step of Images is a step of ImageStore or leaves its variables.   *)
(***************************************************************************)

(* The storages are functions on the references.                           *)
LEMMA Storages ==
    ASSUME IInv
    PROVE  /\ local \in [Refs -> BuiltImages \cup {None}]
           /\ registry \in [Refs -> BuiltImages \cup {None}]
BY DEF IInv, TypeOK

(* A step that keeps the source revision and both storages is a stutter.  *)
LEMMA StorageStutter ==
    ASSUME UNCHANGED <<rev, local, registry>>
    PROVE  UNCHANGED Store!vars
BY DEF Store!vars

LEMMA EditRefines ==
    ASSUME Edit
    PROVE  Store!Edit
<1>1. rev < MaxRev /\ rev' = rev + 1
    BY DEF Edit
<1>2. UNCHANGED <<local, registry>>
    BY Zenon DEF Edit
<1> QED
    BY <1>1, <1>2 DEF Store!Edit

LEMMA BuildBinaryRefines ==
    ASSUME BuildBinary
    PROVE  UNCHANGED Store!vars
<1>1. UNCHANGED <<rev, local, registry>>
    BY Zenon DEF BuildBinary
<1> QED
    BY <1>1, StorageStutter

(* 'build image' that succeeds is a contract Build of its reference.      *)
LEMMA BuildImageRefines ==
    ASSUME IInv, NEW r \in Repos, NEW t \in Tags, BuildImage(r, t)
    PROVE  [Store!Next]_Store!vars
<1>1. PICK ok \in BOOLEAN :
        PodmanBuild(Ref(r, t), "operator", ok) /\ Ran("build image", r, t, ok)
    BY DEF BuildImage
<1>2. UNCHANGED <<rev, registry>>
    BY Zenon DEF BuildImage
<1>3. CASE ok
    <2>1. local' = [local EXCEPT ![Ref(r, t)] = [kind |-> "operator", rev |-> rev]]
        BY <1>1, <1>3 DEF PodmanBuild
    <2>2. Ref(r, t) \in PushRefs
        BY PushRefFacts
    <2>3. View(local') = [View(local) EXCEPT ![Ref(r, t)] = [kind |-> "operator", rev |-> rev]]
        BY <2>1, <2>2, Storages, ViewWrite
    <2>4. Store!Build(Ref(r, t))
        BY <1>2, <2>3 DEF Store!Build, View
    <2> QED
        BY <2>2, <2>4 DEF Store!Next
<1>4. CASE ~ok
    BY <1>1, <1>2, <1>4, StorageStutter DEF PodmanBuild
<1> QED
    BY <1>3, <1>4

(* 'build bundle-image' writes under the dotted reference only: a stutter *)
(* of the contract.                                                        *)
LEMMA BuildBundleImageRefines ==
    ASSUME IInv, NEW r \in Repos, NEW t \in Tags, BuildBundleImage(r, t)
    PROVE  UNCHANGED Store!vars
<1>1. PICK ok \in BOOLEAN :
        PodmanBuild(DottedRef(r, t), "bundle", ok) /\ Ran("build bundle-image", r, t, ok)
    BY DEF BuildBundleImage
<1>2. UNCHANGED <<rev, registry>>
    BY Zenon DEF BuildBundleImage
<1>3. View(local') = View(local)
    <2>1. CASE ok
        <3>1. DottedRef(r, t) \in Refs \ PushRefs
            BY PushRefFacts, RefFacts
        <3>2. local' = [local EXCEPT ![DottedRef(r, t)] = [kind |-> "bundle", rev |-> rev]]
            BY <1>1, <2>1 DEF PodmanBuild
        <3> QED
            BY <3>1, <3>2, Storages, ViewHidden
    <2>2. CASE ~ok
        BY <1>1, <2>2 DEF PodmanBuild
    <2> QED
        BY <2>1, <2>2
<1> QED
    BY <1>2, <1>3 DEF Store!vars, View

(* A push that succeeds is a contract Push of its reference.              *)
LEMMA PushRefines ==
    ASSUME IInv, NEW r \in Repos, NEW t \in Tags, NEW ok \in BOOLEAN,
           PodmanPush(Ref(r, t), ok), UNCHANGED <<rev, local>>
    PROVE  [Store!Next]_Store!vars
<1>1. Ref(r, t) \in PushRefs
    BY PushRefFacts
<1>2. CASE ok
    <2>1. local[Ref(r, t)] # None
          /\ registry' = [registry EXCEPT ![Ref(r, t)] = local[Ref(r, t)]]
        BY <1>2 DEF PodmanPush
    <2>2. View(registry') = [View(registry) EXCEPT ![Ref(r, t)] = local[Ref(r, t)]]
        BY <1>1, <2>1, Storages, ViewWrite
    <2>3. View(local)[Ref(r, t)] = local[Ref(r, t)]
        BY <1>1 DEF View
    <2>4. Store!Push(Ref(r, t))
        BY <2>1, <2>2, <2>3 DEF Store!Push, View
    <2> QED
        BY <1>1, <2>4 DEF Store!Next
<1>3. CASE ~ok
    BY <1>3, StorageStutter DEF PodmanPush
<1> QED
    BY <1>2, <1>3

LEMMA StepRefines == IInv /\ [Next]_vars => [Store!Next]_Store!vars
<1> SUFFICES ASSUME IInv, [Next]_vars PROVE [Store!Next]_Store!vars
    OBVIOUS
<1>1. CASE Edit
    BY <1>1, EditRefines DEF Store!Next
<1>2. CASE BuildBinary
    BY <1>2, BuildBinaryRefines
<1>3. ASSUME NEW r \in Repos, NEW t \in Tags, BuildImage(r, t)
      PROVE  [Store!Next]_Store!vars
    BY <1>3, BuildImageRefines
<1>4. ASSUME NEW r \in Repos, NEW t \in Tags, BuildBundleImage(r, t)
      PROVE  [Store!Next]_Store!vars
    BY <1>4, BuildBundleImageRefines
<1>5. ASSUME NEW r \in Repos, NEW t \in Tags, PushImage(r, t)
      PROVE  [Store!Next]_Store!vars
    <2>1. PICK ok \in BOOLEAN : PodmanPush(Ref(r, t), ok) /\ Ran("push image", r, t, ok)
        BY <1>5 DEF PushImage
    <2>2. UNCHANGED <<rev, local>>
        BY <1>5, Zenon DEF PushImage
    <2> QED
        BY <2>1, <2>2, PushRefines
<1>6. ASSUME NEW r \in Repos, NEW t \in Tags, PushBundleImage(r, t)
      PROVE  [Store!Next]_Store!vars
    <2>1. PICK ok \in BOOLEAN :
            PodmanPush(Ref(r, t), ok) /\ Ran("push bundle-image", r, t, ok)
        BY <1>6 DEF PushBundleImage
    <2>2. UNCHANGED <<rev, local>>
        BY <1>6, Zenon DEF PushBundleImage
    <2> QED
        BY <2>1, <2>2, PushRefines
<1>7. CASE UNCHANGED vars
    BY <1>7, StorageStutter DEF vars
<1> QED
    BY <1>1, <1>2, <1>3, <1>4, <1>5, <1>6, <1>7 DEF Next

LEMMA InitRefines == Init => Store!Init
<1> SUFFICES ASSUME Init PROVE Store!Init
    OBVIOUS
<1>1. View(local) = [x \in PushRefs |-> None] /\ View(registry) = [x \in PushRefs |-> None]
    BY PushRefFacts DEF Init, View
<1> QED
    BY <1>1 DEF Init, Store!Init, View

(* Images implements its contract: under every reference a push can name, *)
(* only 'build image' stores an image, an operator image of the current   *)
(* sources, and a push publishes exactly the image stored there, for      *)
(* every set of tags none of which ends in a dot and every bound on       *)
(* revisions.                                                              *)
THEOREM StoreRefinement == Spec => StoreRefined
<1>1. Spec => []IInv
    BY InitIInv, NextIInv, PTL DEF Spec
<1> QED
    BY <1>1, InitRefines, StepRefines, PTL DEF Spec, StoreRefined, Store!Spec

=============================================================================
