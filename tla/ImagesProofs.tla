---------------------------- MODULE ImagesProofs ----------------------------
(***************************************************************************)
(* Proofs about the image commands, for every set of tags and every bound *)
(* on source revisions: 'push image' only ever publishes operator images. *)
(***************************************************************************)
EXTENDS Images, TLAPS

USE TagsAssumption, DotAssumption, MaxRevAssumption

(* The images 'build image' produces.                                      *)
OperatorImages == [kind : {"operator"}, rev : Revs]

(* Under every reference a push can name, the local storage and the       *)
(* registry hold an operator image or nothing: only 'build image' writes   *)
(* such a reference, and a push copies it from local to registry.          *)
OperatorRefs ==
    \A r \in Repos, t \in Tags :
        /\ local[Ref(r, t)] \in OperatorImages \cup {None}
        /\ registry[Ref(r, t)] \in OperatorImages \cup {None}

IInv == TypeOK /\ OperatorRefs /\ PushImagePublishesOperator

-----------------------------------------------------------------------------
(* The references a command names are references of the storage.          *)
LEMMA RefFacts ==
    ASSUME NEW r \in Repos, NEW t \in Tags
    PROVE  Ref(r, t) \in Refs /\ DottedRef(r, t) \in Refs
    BY DEF Refs

LEMMA InitIInv == Init => IInv
<1> SUFFICES ASSUME Init PROVE IInv
    OBVIOUS
<1>1. TypeOK
    <2>1. last \in Invocations
        BY DEF Init, Invocations, Commands, Repos
    <2> QED
        BY <2>1 DEF Init, TypeOK, Revs
<1>2. OperatorRefs
    BY RefFacts DEF Init, OperatorRefs
<1>3. PushImagePublishesOperator
    BY DEF Init, PushImagePublishesOperator
<1> QED
    BY <1>1, <1>2, <1>3 DEF IInv

(* What an invocation records.                                             *)
LEMMA RanFacts ==
    ASSUME NEW cmd \in Commands, NEW r \in Repos, NEW t \in Tags, NEW ok \in BOOLEAN,
           Ran(cmd, r, t, ok)
    PROVE  last' \in Invocations /\ last'.cmd = cmd /\ last'.ok = ok
           /\ last'.repo = r /\ last'.tag = t
    BY DEF Ran, Invocations

(* The commands, and that none but 'push image' is 'push image'.          *)
LEMMA CommandNames ==
    /\ "edit" \in Commands /\ "build binary" \in Commands /\ "build image" \in Commands
    /\ "build bundle-image" \in Commands /\ "push image" \in Commands
    /\ "push bundle-image" \in Commands
    /\ "edit" # "push image" /\ "build binary" # "push image"
    /\ "build image" # "push image" /\ "build bundle-image" # "push image"
    /\ "push bundle-image" # "push image"
    BY Zenon DEF Commands

(* A step whose invocation is not 'push image' makes the property hold.   *)
LEMMA NotPushImage ==
    ASSUME last'.cmd # "push image"
    PROVE  PushImagePublishesOperator'
    BY DEF PushImagePublishesOperator

(* A step that keeps both storages keeps OperatorRefs.                     *)
LEMMA StorageKept ==
    ASSUME OperatorRefs, UNCHANGED <<local, registry>>
    PROVE  OperatorRefs'
    BY DEF OperatorRefs

LEMMA EditIInv ==
    ASSUME IInv, Edit
    PROVE  IInv'
<1>1. TypeOK /\ OperatorRefs
    BY DEF IInv
<1>2. last' \in Invocations /\ last'.cmd = "edit"
    BY <1>1, CommandNames, RanFacts DEF Edit, TypeOK, Invocations
<1>3. TypeOK'
    BY <1>1, <1>2 DEF Edit, TypeOK, Revs
<1> QED
    BY <1>1, <1>2, <1>3, CommandNames, NotPushImage, StorageKept DEF Edit, IInv

LEMMA BinaryType ==
    ASSUME TypeOK, NEW ok \in BOOLEAN, binary' = (IF ok THEN rev ELSE binary),
           UNCHANGED <<rev, local, registry>>, last' \in Invocations
    PROVE  TypeOK'
    BY DEF TypeOK, Revs

LEMMA BuildBinaryIInv ==
    ASSUME IInv, BuildBinary
    PROVE  IInv'
<1>1. TypeOK /\ OperatorRefs
    BY DEF IInv
<1>2. PICK ok \in BOOLEAN :
        binary' = (IF ok THEN rev ELSE binary) /\ Ran("build binary", last.repo, last.tag, ok)
    BY DEF BuildBinary
<1>3. last' \in Invocations /\ last'.cmd = "build binary"
    <2>1. last.repo \in Repos /\ last.tag \in Tags
        BY <1>1 DEF TypeOK, Invocations
    <2> QED
        BY <1>2, <2>1, CommandNames, RanFacts
<1>4. UNCHANGED <<rev, local, registry>>
    BY Zenon DEF BuildBinary
<1>5. TypeOK'
    <2>1. binary' = (IF ok THEN rev ELSE binary)
        BY <1>2
    <2> QED
        BY <1>1, <1>3, <1>4, <2>1, BinaryType
<1> QED
    BY <1>1, <1>3, <1>4, <1>5, CommandNames, NotPushImage, StorageKept DEF IInv

(* 'build image' writes an operator image under the reference it names.  *)
LEMMA BuildImageIInv ==
    ASSUME IInv, NEW r \in Repos, NEW t \in Tags, BuildImage(r, t)
    PROVE  IInv'
<1>1. TypeOK /\ OperatorRefs
    BY DEF IInv
<1>2. PICK ok \in BOOLEAN :
        PodmanBuild(Ref(r, t), "operator", ok) /\ Ran("build image", r, t, ok)
    BY DEF BuildImage
<1>3. last' \in Invocations /\ last'.cmd = "build image"
    BY <1>2, CommandNames, RanFacts
<1>4. [kind |-> "operator", rev |-> rev] \in OperatorImages
      /\ [kind |-> "operator", rev |-> rev] \in BuiltImages
    BY <1>1 DEF TypeOK, OperatorImages, BuiltImages
<1>5. Ref(r, t) \in Refs
    BY RefFacts
<1>6. TypeOK'
    BY <1>1, <1>2, <1>3, <1>4, <1>5 DEF BuildImage, PodmanBuild, TypeOK
<1>7. OperatorRefs'
    BY <1>1, <1>2, <1>4, <1>5, RefFacts DEF BuildImage, PodmanBuild, OperatorRefs, TypeOK
<1> QED
    BY <1>3, <1>6, <1>7, CommandNames, NotPushImage DEF IInv

(* 'build bundle-image' writes under the dotted reference, which no push *)
(* names.                                                                  *)
LEMMA BuildBundleImageIInv ==
    ASSUME IInv, NEW r \in Repos, NEW t \in Tags, BuildBundleImage(r, t)
    PROVE  IInv'
<1>1. TypeOK /\ OperatorRefs
    BY DEF IInv
<1>2. PICK ok \in BOOLEAN :
        PodmanBuild(DottedRef(r, t), "bundle", ok) /\ Ran("build bundle-image", r, t, ok)
    BY DEF BuildBundleImage
<1>3. last' \in Invocations /\ last'.cmd = "build bundle-image"
    BY <1>2, CommandNames, RanFacts
<1>4. [kind |-> "bundle", rev |-> rev] \in BuiltImages
    BY <1>1 DEF TypeOK, BuiltImages
<1>5. DottedRef(r, t) \in Refs
    BY RefFacts
<1>6. TypeOK'
    BY <1>1, <1>2, <1>3, <1>4, <1>5 DEF BuildBundleImage, PodmanBuild, TypeOK
<1>7. OperatorRefs'
    <2> SUFFICES ASSUME NEW r2 \in Repos, NEW t2 \in Tags
                 PROVE  /\ local'[Ref(r2, t2)] \in OperatorImages \cup {None}
                        /\ registry'[Ref(r2, t2)] \in OperatorImages \cup {None}
        BY DEF OperatorRefs
    <2>1. DottedRef(r, t) # Ref(r2, t2) /\ Ref(r2, t2) \in Refs
        BY DotAssumption, RefFacts
    <2> QED
        BY <1>1, <1>2, <1>5, <2>1 DEF BuildBundleImage, PodmanBuild, OperatorRefs, TypeOK
<1> QED
    BY <1>3, <1>6, <1>7, CommandNames, NotPushImage DEF IInv

(* A push copies the local image of the reference into the registry, and *)
(* succeeds only when there is one.                                        *)
LEMMA PushStep ==
    ASSUME IInv, NEW r \in Repos, NEW t \in Tags, NEW ok \in BOOLEAN,
           PodmanPush(Ref(r, t), ok), UNCHANGED local
    PROVE  /\ registry' \in [Refs -> BuiltImages \cup {None}]
           /\ OperatorRefs'
           /\ ok => registry'[Ref(r, t)] \in OperatorImages
<1>1. TypeOK /\ OperatorRefs
    BY DEF IInv
<1>2. Ref(r, t) \in Refs
    BY RefFacts
<1>3. ok => local[Ref(r, t)] \in OperatorImages
    BY <1>1 DEF PodmanPush, OperatorRefs
<1>4. registry' \in [Refs -> BuiltImages \cup {None}]
    BY <1>1, <1>2 DEF PodmanPush, TypeOK
<1>5. OperatorRefs'
    BY <1>1, <1>2, RefFacts DEF PodmanPush, OperatorRefs, TypeOK
<1>6. ok => registry'[Ref(r, t)] \in OperatorImages
    BY <1>1, <1>2, <1>3 DEF PodmanPush, TypeOK
<1> QED
    BY <1>4, <1>5, <1>6

LEMMA PushImageIInv ==
    ASSUME IInv, NEW r \in Repos, NEW t \in Tags, PushImage(r, t)
    PROVE  IInv'
<1>1. PICK ok \in BOOLEAN : PodmanPush(Ref(r, t), ok) /\ Ran("push image", r, t, ok)
    BY DEF PushImage
<1>2. last' \in Invocations /\ last'.cmd = "push image" /\ last'.ok = ok
      /\ last'.repo = r /\ last'.tag = t
    BY <1>1, CommandNames, RanFacts
<1>3. /\ registry' \in [Refs -> BuiltImages \cup {None}]
      /\ OperatorRefs'
      /\ ok => registry'[Ref(r, t)] \in OperatorImages
    BY <1>1, PushStep DEF PushImage
<1>4. TypeOK'
    BY <1>2, <1>3 DEF IInv, PushImage, TypeOK
<1>5. PushImagePublishesOperator'
    BY <1>2, <1>3 DEF PushImagePublishesOperator, OperatorImages
<1> QED
    BY <1>3, <1>4, <1>5 DEF IInv

LEMMA PushBundleImageIInv ==
    ASSUME IInv, NEW r \in Repos, NEW t \in Tags, PushBundleImage(r, t)
    PROVE  IInv'
<1>1. PICK ok \in BOOLEAN : PodmanPush(Ref(r, t), ok) /\ Ran("push bundle-image", r, t, ok)
    BY DEF PushBundleImage
<1>2. last' \in Invocations /\ last'.cmd = "push bundle-image"
    BY <1>1, CommandNames, RanFacts
<1>3. registry' \in [Refs -> BuiltImages \cup {None}] /\ OperatorRefs'
    BY <1>1, PushStep DEF PushBundleImage
<1>4. TypeOK'
    BY <1>2, <1>3 DEF IInv, PushBundleImage, TypeOK
<1> QED
    BY <1>2, <1>3, <1>4, CommandNames, NotPushImage DEF IInv

LEMMA NextIInv == IInv /\ [Next]_vars => IInv'
<1> SUFFICES ASSUME IInv, [Next]_vars PROVE IInv'
    OBVIOUS
<1>1. CASE Edit
    BY <1>1, EditIInv
<1>2. CASE BuildBinary
    BY <1>2, BuildBinaryIInv
<1>3. CASE \E r \in Repos, t \in Tags :
              \/ BuildImage(r, t)
              \/ BuildBundleImage(r, t)
              \/ PushImage(r, t)
              \/ PushBundleImage(r, t)
    BY <1>3, BuildImageIInv, BuildBundleImageIInv, PushImageIInv, PushBundleImageIInv
<1>4. CASE UNCHANGED vars
    BY <1>4 DEF IInv, vars, TypeOK, OperatorRefs, PushImagePublishesOperator
<1> QED
    BY <1>1, <1>2, <1>3, <1>4 DEF Next

(* THEOREM: for every set of tags and every bound on revisions, a         *)
(* successful 'push image' publishes an operator image, never a bundle:   *)
(* 'build bundle-image' stores its bundle under the dotted reference, and *)
(* no push names it.                                                       *)
THEOREM PushPublishesOperatorCorrect == Spec => []PushImagePublishesOperator
<1>1. IInv => PushImagePublishesOperator
    BY DEF IInv
<1> QED
    BY <1>1, InitIInv, NextIInv, PTL DEF Spec

(* THEOREM: every reachable state of the image commands is well typed.   *)
THEOREM ImagesTypeCorrect == Spec => []TypeOK
<1>1. IInv => TypeOK
    BY DEF IInv
<1> QED
    BY <1>1, InitIInv, NextIInv, PTL DEF Spec

=============================================================================
