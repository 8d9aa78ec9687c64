----------------------------- MODULE ImageStore -----------------------------
(***************************************************************************)
(* What the image commands of dev.py ('build image', 'push image', 'push   *)
(* bundle-image', src/dev/build.py and src/dev/push.py) promise about the  *)
(* references a push can name: a build stores an operator image of the    *)
(* current sources under the reference, a push copies to the registry the *)
(* image the local storage holds under it, and nothing else writes there. *)
(*                                                                         *)
(* Module Images implements it; the refinement mapping is there.           *)
(***************************************************************************)
EXTENDS Naturals

CONSTANTS
    PushRefs,   \* the references a push can name
    MaxRev,     \* bound on the number of source revisions
    None        \* no image

VARIABLES
    rev,        \* the revision of the working tree
    local,      \* image held by the local storage, per reference
    registry    \* image held by the registry, per reference

vars == <<rev, local, registry>>

Init ==
    /\ rev = 1
    /\ local = [x \in PushRefs |-> None]
    /\ registry = [x \in PushRefs |-> None]

(* The sources change.                                                     *)
Edit ==
    /\ rev < MaxRev
    /\ rev' = rev + 1
    /\ UNCHANGED <<local, registry>>

(* An operator image of the current sources is stored under x.            *)
Build(x) ==
    /\ local' = [local EXCEPT ![x] = [kind |-> "operator", rev |-> rev]]
    /\ UNCHANGED <<rev, registry>>

(* The image stored under x is published under x.                         *)
Push(x) ==
    /\ local[x] # None
    /\ registry' = [registry EXCEPT ![x] = local[x]]
    /\ UNCHANGED <<rev, local>>

Next == Edit \/ \E x \in PushRefs : Build(x) \/ Push(x)

Spec == Init /\ [][Next]_vars

=============================================================================
