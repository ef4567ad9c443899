--------------------------- MODULE OwnershipProofs ---------------------------
(***************************************************************************)
(* Owner references: what the operator makes in a namespace has for owner  *)
(* a uid that was given to a resource of that very namespace, so that the  *)
(* garbage collector can take it once that resource is gone.               *)
(***************************************************************************)
EXTENDS PrerequisiteProofs, WakeupProofs

\* The owner of an object in a namespace is of that namespace and has existed.
OwnersKnown ==
    \A k \in Keys :
       Exists(k) /\ ~ ClusterScoped(k) /\ store[k].owner # NoObj =>
          LET owner == store[k].owner IN
             NamespaceOf[owner.cr] = k[2] /\ owner.birth <= births[owner.cr]

\* Only the cluster-wide objects, and those of others, have none.
MadeOwned ==
    \A k \in Keys \ Providable :
       Exists(k) /\ ~ ClusterScoped(k) => store[k].owner # NoObj

-----------------------------------------------------------------------------

\* A uid that was given out stays given out.
LEMMA BirthsGrow ==
    ASSUME TypeOK, [Next]_vars, NEW cr \in Provisioners
    PROVE  births[cr] <= births'[cr] /\ births[cr] \in Nat /\ births'[cr] \in Nat
<1>. births \in [Provisioners -> 0 .. MaxBirths] /\ births[cr] \in Nat
    BY BoundsAssumption DEF TypeOK, ClusterTypeOK
<1>1. CASE Environment
    BY <1>1, OthersWrite
<1>2. ~ Environment => UNCHANGED births
    BY ReconcileCreatesNoResource
       DEF Next, Sync, SyncCR, StartReconcile, Crash, clusterVars, vars
<1>. QED BY <1>1, <1>2

\* Whatever is made in a namespace is made for a resource of it.
LEMMA MadeWithin ==
    ASSUME NEW k, NEW content, Makes(k, content), ~ ClusterScoped(k)
    PROVE  k[2] = NamespaceOf[work.cr]
BY DEF Makes, ClusterScoped, SCCKey, ClaimKey, PVCKey, ServiceAccountKey,
       ClusterRoleKey, ClusterRoleBindingKey, RoleKey, RoleBindingKey,
       DeploymentKey, ServiceKey, StorageClassKey

LEMMA OwnersKnownStep ==
    ASSUME TypeOK, Born, OwnersKnown, [Next]_vars
    PROVE  OwnersKnown'
<1>1. SUFFICES ASSUME NEW k \in Keys, Exists(k)', ~ ClusterScoped(k),
                      store'[k].owner # NoObj
               PROVE  /\ NamespaceOf[store'[k].owner.cr] = k[2]
                      /\ store'[k].owner.birth <= births'[store'[k].owner.cr]
    BY DEF OwnersKnown, ClusterScoped
<1>. DEFINE cr == store'[k].owner.cr
            birth == store'[k].owner.birth
<1>2. cr \in Provisioners /\ birth \in Nat
    <2>1. store'[k].owner \in Uids
        BY <1>1, StepTyped DEF TypeOK, ClusterTypeOK, Exists, Objects
    <2>. QED BY <2>1, BoundsAssumption DEF Uids
<1>3. births[cr] <= births'[cr] /\ births[cr] \in Nat /\ births'[cr] \in Nat
    BY <1>2, BirthsGrow
<1>4. k # SCCKey
    BY <1>1 DEF ClusterScoped, SCCKey
<1>5. CASE Exists(k)
    <2>1. store'[k] = store[k]
        BY <1>1, <1>4, <1>5, KeptAsItIs
    <2>. QED BY <1>1, <1>2, <1>3, <1>5, <2>1 DEF OwnersKnown
<1>6. CASE ~ Exists(k)
    <2>1. PICK content : /\ Makes(k, content) /\ pc # "idle"
                         /\ store'[k] = Build(k, content)
        BY <1>1, <1>4, <1>6, Appears
    <2>2. store'[k].owner = UidOf(work.cr, work.obj) /\ k[2] = NamespaceOf[work.cr]
        BY <1>1, <2>1, MadeWithin DEF Build
    <2>3. cr = work.cr /\ birth <= births[cr]
        BY <2>1, <2>2 DEF UidOf, Born
    <2>. QED BY <1>2, <1>3, <2>2, <2>3
<1>. QED BY <1>5, <1>6

LEMMA MadeOwnedStep ==
    ASSUME TypeOK, MadeOwned, [Next]_vars
    PROVE  MadeOwned'
<1>1. SUFFICES ASSUME NEW k \in Keys \ Providable, Exists(k)', ~ ClusterScoped(k)
               PROVE  store'[k].owner # NoObj
    BY DEF MadeOwned
<1>2. k # SCCKey
    BY <1>1 DEF ClusterScoped, SCCKey
<1>3. CASE Exists(k)
    BY <1>1, <1>2, <1>3, KeptAsItIs DEF MadeOwned
<1>4. CASE ~ Exists(k)
    <2>1. PICK content : store'[k] = Build(k, content) /\ pc # "idle"
        BY <1>1, <1>2, <1>4, Appears
    <2>. QED BY <1>1, <2>1, NoObjAssumption, TypeParts, RequestTyped
            DEF Build, UidOf, Uids, CustomResources
<1>. QED BY <1>3, <1>4

-----------------------------------------------------------------------------

\* In a namespace, what the operator made is owned by a resource that exists
\* or existed there.
THEOREM OwnersInvariant == Spec => [](OwnersKnown /\ MadeOwned)
<1>1. Init => OwnersKnown /\ MadeOwned
    BY DEF Init, ClusterInit, OwnersKnown, MadeOwned, Exists
<1>2. TypeOK /\ WakeupInv /\ OwnersKnown /\ MadeOwned /\ [Next]_vars =>
          OwnersKnown' /\ MadeOwned'
    BY OwnersKnownStep, MadeOwnedStep DEF WakeupInv
<1>. QED BY <1>1, <1>2, TypeCorrect, WakeupInvariant, PTL DEF Spec

\* An object the operator made in a namespace, also one that a reconcile with a
\* stale copy made, is owned by a uid that was given to a resource of that
\* namespace, so that no resource to come has it, and the garbage collector may
\* take it unless the resource of that very uid is there.
OrphansCollectable ==
    \A k \in Keys \ Providable :
       Exists(k) /\ ~ ClusterScoped(k) =>
          LET owner == store[k].owner IN
             /\ owner # NoObj
             /\ NamespaceOf[owner.cr] = k[2]
             /\ owner.birth <= births[owner.cr]
             /\ Collectable(k) \/ OwnedBy(k, owner.cr)

LEMMA OwnedTaken ==
    ASSUME TypeOK, OwnersKnown, MadeOwned
    PROVE  OrphansCollectable
<1>1. SUFFICES ASSUME NEW k \in Keys \ Providable, Exists(k), ~ ClusterScoped(k),
                      NEW owner, owner = store[k].owner
               PROVE  /\ owner # NoObj
                      /\ NamespaceOf[owner.cr] = k[2]
                      /\ owner.birth <= births[owner.cr]
                      /\ Collectable(k) \/ OwnedBy(k, owner.cr)
    BY DEF OrphansCollectable
<1>2. /\ owner # NoObj
      /\ NamespaceOf[owner.cr] = k[2]
      /\ owner.birth <= births[owner.cr]
    BY <1>1 DEF OwnersKnown, MadeOwned
<1>3. owner \in Uids
    BY <1>1, <1>2 DEF TypeOK, ClusterTypeOK, Exists, Objects
<1>4. ASSUME crs[owner.cr] # NoObj, crs[owner.cr].birth = owner.birth
      PROVE  OwnedBy(k, owner.cr)
    BY <1>1, <1>3, <1>4 DEF OwnedBy, UidOf, Uids
<1>. QED BY <1>1, <1>2, <1>4 DEF Collectable, Exists

\* Whatever a reconcile made with a stale copy, of a resource that is gone by
\* then, the garbage collector may take, and no resource created afterwards
\* under the same name is its owner.
THEOREM OrphansTaken == Spec => []OrphansCollectable
<1>1. TypeOK /\ OwnersKnown /\ MadeOwned => OrphansCollectable
    BY OwnedTaken
<1>. QED BY <1>1, TypeCorrect, OwnersInvariant, PTL

=============================================================================
