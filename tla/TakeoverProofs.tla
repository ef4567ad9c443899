---------------------------- MODULE TakeoverProofs ----------------------------
(***************************************************************************)
(* What PrerequisiteProofs and OwnershipProofs show of one process holds   *)
(* while a process that lost its lease reconciles beside its successor.    *)
(* Their inductive invariants speak of the API server and of one process:  *)
(* the part about the API server is the same for both processes, and the   *)
(* part about a process is stable under what the other does.               *)
(***************************************************************************)
EXTENDS ElectionProofs

\* Every step is one of the single system as either process sees it, or has to
\* do with the election alone.
LEMMA StepsSeen ==
    ASSUME BothInv, [BothNext]_allVars
    PROVE  \/ [Next]_vars /\ UNCHANGED secondVars
           \/ [Second!Next]_(Second!vars) /\ UNCHANGED firstVars
           \/ ElectionStep
<1>1. CASE UNCHANGED allVars
    BY <1>1 DEF allVars
<1>2. CASE Environment /\ UNCHANGED <<managerVars, secondVars, electionVars>>
    BY <1>2 DEF Next, managerVars
<1>3. CASE FirstWorks
    BY <1>3 DEF FirstWorks, Next
<1>4. CASE SecondWorks
    BY <1>4 DEF SecondWorks, Second!Next
<1>. QED BY <1>1, <1>2, <1>3, <1>4, ElectionSteps DEF BothNext

LEMMA SameViews == Second!Views = Views
BY SameDefinitions
   DEF Second!Views, Views, Second!AdmittedSpecs, AdmittedSpecs, Second!Admitted,
       Admitted, Second!DefaultImage, DefaultImage, Second!Or, Or, Second!Unset,
       Unset, Second!Errors, Errors, Second!NoError, NoError, Second!ErrorText,
       ErrorText

-----------------------------------------------------------------------------
(* The accounts in the SCC *)

LEMMA SameList ==
    /\ Second!NamesTellApart <=> NamesTellApart
    /\ Second!ApiExtensions = ApiExtensions /\ Second!Security = Security
    /\ Second!OnlyAdministered <=> OnlyAdministered
    /\ Second!OnlyAdministered' <=> OnlyAdministered'
    /\ Second!UnownedSCC <=> UnownedSCC
    /\ Second!UnownedSCC' <=> UnownedSCC'
    /\ Second!DeploymentsListed <=> DeploymentsListed
    /\ Second!DeploymentsListed' <=> DeploymentsListed'
<1>. USE DEF Second!NamesTellApart, NamesTellApart, Second!Security, Security,
             Second!OnlyAdministered, OnlyAdministered,
             Second!ApiExtensions, ApiExtensions, Second!UnownedSCC, UnownedSCC,
             Second!DeploymentsListed, DeploymentsListed, Second!Listed, Listed,
             Second!Exists, Exists, Second!UserToAdd, UserToAdd, Second!SCCKey,
             SCCKey, Second!DeploymentKey, DeploymentKey, Second!ClusterScope,
             ClusterScope
<1>1. /\ Second!NamesTellApart <=> NamesTellApart
      /\ Second!ApiExtensions = ApiExtensions /\ Second!Security = Security
      /\ Second!OnlyAdministered <=> OnlyAdministered
      /\ Second!OnlyAdministered' <=> OnlyAdministered'
    OBVIOUS
<1>2. (Second!UnownedSCC <=> UnownedSCC) /\ (Second!UnownedSCC' <=> UnownedSCC')
    OBVIOUS
<1>3. Second!DeploymentsListed <=> DeploymentsListed
    OBVIOUS
<1>4. Second!DeploymentsListed' <=> DeploymentsListed'
    OBVIOUS
<1>. QED BY <1>1, <1>2, <1>3, <1>4

\* What goes well in a step of either process.
BothSoundListing == SoundListing /\ Second!SoundListing

LEMMA BothListingSound ==
    ASSUME BothInv, [BothSoundListing]_allVars
    PROVE  BothSoundListing
<1>1. SoundListing
    BY ListingSound DEF BothInv, BothSoundListing, allVars
<1>2. [Second!SoundListing]_(Second!vars)
    BY DEF BothSoundListing, allVars, vars, secondVars, Second!vars
<1>3. Second!SoundListing
    BY <1>2, Second!ListingSound, SameDefinitions, QuantitiesAssumption,
       NamespaceAssumption, SpecsAssumption, BoundsAssumption, NoObjAssumption,
       ActorsAssumption, LaggingAssumption, FaultsAssumption,
       RequestsAssumption, EndsWithAssumption, ScopeAssumption, SameViews,
       ViewsAssumption DEF BothInv
<1>. QED BY <1>1, <1>3 DEF BothSoundListing

\* Both processes only advance with their account in the list, and what either
\* has of the list is still in it.
BothListed ==
    /\ UnownedSCC
    /\ DeploymentsListed
    /\ CachedUsers /\ StagesListed
    /\ Second!CachedUsers /\ Second!StagesListed

LEMMA FirstListsOn ==
    ASSUME BothInv, NamesTellApart, ApiExtensions \in Scheme,
           Security \in ServedCRDs, BothSoundListing, BothListed,
           [Next]_vars, UNCHANGED secondVars
    PROVE  BothListed'
<1>1. ListedFirst'
    BY ListedFirstStep DEF BothInv, BothSoundListing, BothListed, ListedFirst
<1>2. Second!CachedUsers'
    BY SCCStays
       DEF BothInv, BothSoundListing, BothListed, Second!CachedUsers, secondVars, Second!Exists,
           Exists, Second!SCCKey, SCCKey, Second!ClusterScope, ClusterScope
<1>3. Second!StagesListed'
    BY ListedStays
       DEF BothInv, BothSoundListing, BothListed, Second!StagesListed, secondVars, Second!Listed,
           Listed, Second!EnsureStages, Second!Exists, Exists,
           Second!UserToAdd, UserToAdd, Second!SCCKey, SCCKey,
           Second!ClusterScope, ClusterScope
<1>. QED BY <1>1, <1>2, <1>3 DEF BothListed, ListedFirst

LEMMA SecondListsOn ==
    ASSUME BothInv, NamesTellApart, ApiExtensions \in Scheme,
           Security \in ServedCRDs, BothSoundListing, BothListed,
           [Second!Next]_(Second!vars), UNCHANGED firstVars
    PROVE  BothListed'
<1>. USE SameDefinitions, SameViews, ViewsAssumption, SameList, QuantitiesAssumption, NamespaceAssumption,
         SpecsAssumption, BoundsAssumption, NoObjAssumption, ActorsAssumption,
         LaggingAssumption, FaultsAssumption, RequestsAssumption,
         EndsWithAssumption, ScopeAssumption
<1>1. Second!ListedFirst'
    BY Second!ListedFirstStep DEF BothInv, BothSoundListing, BothListed, Second!ListedFirst
<1>2. Second!Exists(Second!SCCKey) =>
         /\ Second!Exists(Second!SCCKey)'
         /\ store[Second!SCCKey].content.users
              \subseteq store'[Second!SCCKey].content.users
    BY Second!SCCStays DEF BothInv, BothSoundListing, BothListed
<1>3. Exists(SCCKey) =>
         /\ Exists(SCCKey)'
         /\ store[SCCKey].content.users \subseteq store'[SCCKey].content.users
    BY <1>2 DEF Second!Exists, Exists, Second!SCCKey, SCCKey,
                Second!ClusterScope, ClusterScope
<1>4. CachedUsers'
    BY <1>3 DEF BothListed, CachedUsers, firstVars, Exists
<1>5. StagesListed'
    BY <1>3 DEF BothListed, StagesListed, Listed, firstVars, Exists, UserToAdd
<1>. QED BY <1>1, <1>4, <1>5 DEF BothListed, Second!ListedFirst

LEMMA ElectionListsOn ==
    ASSUME BothInv, BothListed, ElectionStep
    PROVE  BothListed'
<1>. USE DEF BothListed, ElectionStep, clusterVars
<1>1. UnownedSCC' /\ DeploymentsListed'
    BY DEF UnownedSCC, DeploymentsListed, Listed, Exists, UserToAdd
<1>2. CachedUsers' /\ StagesListed'
    BY DEF CachedUsers, StagesListed, Listed, Exists, UserToAdd, firstVars,
           Restart, Stop, EnsureStages
<1>3. Second!CachedUsers' /\ Second!StagesListed'
    BY DEF Second!CachedUsers, Second!StagesListed, Second!Listed,
           Second!Exists, Second!UserToAdd, secondVars, Second!Restart,
           Second!Stop, Second!EnsureStages
<1>. QED BY <1>1, <1>2, <1>3

\* Without the group in the scheme neither process lists anybody.
LEMMA AdministeredOn ==
    ASSUME BothInv, ApiExtensions \notin Scheme, OnlyAdministered,
           [BothNext]_allVars
    PROVE  OnlyAdministered'
<1>1. CASE [Next]_vars
    BY <1>1, AdministeredStep DEF BothInv
<1>2. CASE [Second!Next]_(Second!vars)
    BY <1>2, Second!AdministeredStep, SameDefinitions, SameViews, SameList,
       ViewsAssumption, QuantitiesAssumption, NamespaceAssumption,
       SpecsAssumption, BoundsAssumption, NoObjAssumption, ActorsAssumption,
       LaggingAssumption, FaultsAssumption, RequestsAssumption,
       EndsWithAssumption, ScopeAssumption DEF BothInv
<1>3. CASE ElectionStep
    BY <1>3 DEF ElectionStep, clusterVars, OnlyAdministered, Exists
<1>. QED BY <1>1, <1>2, <1>3, StepsSeen

\* Also with two processes the scheme decides.  With the group of
\* CustomResourceDefinitions no Deployment stands whose account is not in the
\* SCC, although both add accounts to it from lists of their own; without it
\* every user of the SCC is one an administrator put there.
THEOREM AccountsWithTwo ==
    ASSUME NamesTellApart
    PROVE  BothSpec /\ [][BothSoundListing]_allVars =>
              [](IF ApiExtensions \in Scheme THEN SCCBeforeDeployment
                                             ELSE OnlyAdministered)
<1>. DEFINE Inv == /\ BothInv
                   /\ IF ApiExtensions \in Scheme
                      THEN Security \in ServedCRDs => BothListed
                      ELSE OnlyAdministered
<1>1. BothInit => Inv
    <2>1. SUFFICES ASSUME BothInit PROVE BothListed /\ OnlyAdministered
        BY BothStart
    <2>2. UnownedSCC /\ DeploymentsListed
        BY <2>1, KeysTyped
           DEF BothInit, Init, ClusterInit, UnownedSCC, DeploymentsListed, Exists
    <2>3. CachedUsers /\ StagesListed
        BY <2>1
           DEF BothInit, Init, ManagerInit, CachedUsers, StagesListed, EnsureStages
    <2>4. Second!CachedUsers /\ Second!StagesListed
        BY <2>1
           DEF BothInit, Second!ManagerInit, Second!CachedUsers,
               Second!StagesListed, Second!EnsureStages
    <2>5. OnlyAdministered
        BY <2>1, KeysTyped DEF BothInit, Init, ClusterInit, OnlyAdministered, Exists
    <2>. QED BY <2>2, <2>3, <2>4, <2>5 DEF BothListed
<1>2. Inv /\ [BothNext]_allVars /\ [BothSoundListing]_allVars => Inv'
    BY BothStep, BothListingSound, StepsSeen, FirstListsOn, SecondListsOn,
       ElectionListsOn, AdministeredOn
<1>3. Inv => IF ApiExtensions \in Scheme THEN SCCBeforeDeployment ELSE OnlyAdministered
    <2>1. SUFFICES ASSUME BothInv, BothListed, NEW cr \in Provisioners,
                          OwnedBy(DeploymentKey(NamespaceOf[cr]), cr)
                   PROVE  Listed(NamespaceOf[cr])
        BY DEF SCCBeforeDeployment, Listed
    <2>2. UidOf(cr, crs[cr]) # NoObj
        BY <2>1, NoObjAssumption
           DEF OwnedBy, BothInv, TypeOK, ClusterTypeOK, UidOf, Uids, CustomResources
    <2>. QED BY <2>1, <2>2, NamespaceAssumption
            DEF OwnedBy, BothListed, DeploymentsListed
<1>. QED BY <1>1, <1>2, <1>3, PTL DEF BothSpec

-----------------------------------------------------------------------------
(* What a Deployment's pod needs *)

LEMMA SamePrerequisites ==
    /\ \A ns : Second!Prerequisites(ns) = Prerequisites(ns)
    /\ \A ns, spec : Second!PVCKey(ns, Second!ClaimName(spec)) = PVCKey(ns, ClaimName(spec))
    /\ \A spec : Second!WantsClaim(spec) <=> WantsClaim(spec)
    /\ Second!OneResourceEach <=> OneResourceEach
    /\ \A cr : (Second!Pending(cr) <=> Pending(cr)) /\ (Second!Pending(cr)' <=> Pending(cr)')
    /\ \A k : (Second!Exists(k) <=> Exists(k)) /\ (Second!Exists(k)' <=> Exists(k)')
    /\ Second!AfterClaim = AfterClaim
    /\ Second!AfterServiceAccount = AfterServiceAccount
    /\ Second!AfterRole = AfterRole
    /\ Second!AfterRoleBinding = AfterRoleBinding
<1>. USE DEF Second!Prerequisites, Prerequisites, Second!PVCKey, PVCKey,
             Second!ClaimName, ClaimName, Second!Or, Or, Second!Unset, Unset,
             Second!DefaultPvc, DefaultPvc, Second!WantsClaim, WantsClaim,
             Second!ServiceAccountKey, ServiceAccountKey, Second!RoleKey, RoleKey,
             Second!RoleBindingKey, RoleBindingKey, Second!AdmittedSpecs,
             AdmittedSpecs, Second!Admitted, Admitted, Second!DefaultImage,
             DefaultImage
<1>1. /\ \A ns : Second!Prerequisites(ns) = Prerequisites(ns)
      /\ \A ns, spec : Second!PVCKey(ns, Second!ClaimName(spec)) = PVCKey(ns, ClaimName(spec))
      /\ \A spec : Second!WantsClaim(spec) <=> WantsClaim(spec)
    OBVIOUS
<1>2. Second!OneResourceEach <=> OneResourceEach
    BY <1>1 DEF Second!OneResourceEach, OneResourceEach
<1>3. /\ \A cr : (Second!Pending(cr) <=> Pending(cr)) /\ (Second!Pending(cr)' <=> Pending(cr)')
      /\ \A k : (Second!Exists(k) <=> Exists(k)) /\ (Second!Exists(k)' <=> Exists(k)')
    BY DEF Second!Pending, Pending, Second!Live, Live, Second!Exists, Exists
<1>4. /\ Second!AfterClaim = AfterClaim
      /\ Second!AfterServiceAccount = AfterServiceAccount
      /\ Second!AfterRole = AfterRole
      /\ Second!AfterRoleBinding = AfterRoleBinding
    BY DEF Second!AfterClaim, AfterClaim, Second!AfterServiceAccount,
           AfterServiceAccount, Second!AfterRole, AfterRole,
           Second!AfterRoleBinding, AfterRoleBinding
<1>. QED BY <1>1, <1>2, <1>3, <1>4

\* What PrerequisiteProofs says of the API server alone.
StoreReady ==
    ForegroundMarked /\ OwnersOfNamespace /\ RolesBuilt /\ DeploymentsReady

LEMMA SameStoreReady ==
    /\ Second!ForegroundMarked <=> ForegroundMarked
    /\ Second!OwnersOfNamespace <=> OwnersOfNamespace
    /\ Second!RolesBuilt <=> RolesBuilt
    /\ Second!DeploymentsReady <=> DeploymentsReady
    /\ Second!ForegroundMarked' <=> ForegroundMarked'
    /\ Second!OwnersOfNamespace' <=> OwnersOfNamespace'
    /\ Second!RolesBuilt' <=> RolesBuilt'
    /\ Second!DeploymentsReady' <=> DeploymentsReady'
<1>. USE SamePrerequisites
<1>1. /\ Second!ForegroundMarked <=> ForegroundMarked
      /\ Second!ForegroundMarked' <=> ForegroundMarked'
    BY DEF Second!ForegroundMarked, ForegroundMarked
<1>2. /\ Second!OwnersOfNamespace <=> OwnersOfNamespace
      /\ Second!OwnersOfNamespace' <=> OwnersOfNamespace'
    BY DEF Second!OwnersOfNamespace, OwnersOfNamespace, Second!Exists, Exists
<1>3. /\ Second!RolesBuilt <=> RolesBuilt
      /\ Second!RolesBuilt' <=> RolesBuilt'
    BY DEF Second!RolesBuilt, RolesBuilt, Second!Exists, Exists, Second!RoleKey,
           RoleKey, Second!RoleBindingKey, RoleBindingKey, Second!BuildRole,
           BuildRole, Second!BuildRoleBinding, BuildRoleBinding, Second!Rule,
           Rule, Second!ServiceAccountKey, ServiceAccountKey
<1>. USE DEF Second!DeploymentKey, DeploymentKey, Second!ServiceAccountKey,
             ServiceAccountKey, Second!RoleKey, RoleKey, Second!RoleBindingKey,
             RoleBindingKey, Second!MountsPrerequisite, MountsPrerequisite,
             Second!PVCKey, PVCKey, Second!Exists, Exists
<1>4. Second!DeploymentsReady <=> DeploymentsReady
    BY DEF Second!DeploymentsReady, DeploymentsReady
<1>5. Second!DeploymentsReady' <=> DeploymentsReady'
    BY DEF Second!DeploymentsReady, DeploymentsReady
<1>. QED BY <1>1, <1>2, <1>3, <1>4, <1>5

BothReady ==
    /\ StoreReady
    /\ Requested /\ CachedPrerequisites /\ StagesReady
    /\ Second!Requested /\ Second!CachedPrerequisites /\ Second!StagesReady

\* A resource somebody still wants was wanted before, and what it needs stays,
\* whichever process steps.
Steady ==
    \A cr \in Provisioners :
       Pending(cr)' =>
          /\ Pending(cr)
          /\ \A k \in Prerequisites(NamespaceOf[cr]) : Exists(k) => Exists(k)'

BirthsSteady == \A cr \in Provisioners : births[cr] > 0 => births'[cr] > 0

\* Then what the stages of a process left is still there.
LEMMA FirstStaysReady ==
    ASSUME BothInv, CachedPrerequisites, StagesReady, Requested, Steady,
           BirthsSteady, \A cr \in Provisioners : crs'[cr] # NoObj => births'[cr] > 0,
           UNCHANGED firstVars
    PROVE  CachedPrerequisites' /\ StagesReady' /\ Requested'
<1>1. CachedPrerequisites'
    BY DEF CachedPrerequisites, Steady, firstVars
<1>2. StagesReady'
    <2>1. SUFFICES ASSUME NEW cr, NEW obj, NEW ns,
                          cr = work.cr, obj = work.obj, ns = NamespaceOf[cr],
                          pc \in AfterClaim, Pending(cr)'
                   PROVE  /\ WantsClaim(obj.spec) => Exists(PVCKey(ns, ClaimName(obj.spec)))'
                          /\ pc \in AfterServiceAccount => Exists(ServiceAccountKey(ns))'
                          /\ pc \in AfterRole => Exists(RoleKey(ns))'
                          /\ pc \in AfterRoleBinding => Exists(RoleBindingKey(ns))'
        BY DEF StagesReady, firstVars, Exists, Pending, Live
    <2>2. pc # "idle"
        BY <2>1 DEF AfterClaim, AfterServiceAccount, AfterRole, AfterRoleBinding
    <2>3. cr \in Provisioners /\ obj.spec \in AdmittedSpecs
        BY <2>1, <2>2 DEF BothInv, TypeOK, ManagerTypeOK, Requests, CustomResources
    <2>4. {ServiceAccountKey(ns), RoleKey(ns), RoleBindingKey(ns),
           PVCKey(ns, ClaimName(obj.spec))} \subseteq Prerequisites(ns)
        BY <2>3 DEF Prerequisites
    <2>5. Pending(cr) /\ \A k \in Prerequisites(ns) : Exists(k) => Exists(k)'
        BY <2>1, <2>3 DEF Steady
    <2>. QED BY <2>1, <2>4, <2>5 DEF StagesReady
<1>3. Requested'
    <2>1. pc # "idle" => work.cr \in Provisioners
        BY DEF BothInv, TypeOK, ManagerTypeOK, Requests
    <2>2. crCache' = crCache /\ pc' = pc /\ work' = work
        BY DEF firstVars
    <2>3. \A cr \in Provisioners : crCache[cr] # NoObj => births'[cr] > 0
        BY DEF Requested, BirthsSteady
    <2>4. pc # "idle" => births'[work.cr] > 0
        BY <2>1 DEF Requested, BirthsSteady
    <2>. QED BY <2>2, <2>3, <2>4 DEF Requested
<1>. QED BY <1>1, <1>2, <1>3

LEMMA SecondStaysReady ==
    ASSUME BothInv, Second!CachedPrerequisites, Second!StagesReady,
           Second!Requested, Steady, BirthsSteady,
           \A cr \in Provisioners : crs'[cr] # NoObj => births'[cr] > 0,
           UNCHANGED secondVars
    PROVE  Second!CachedPrerequisites' /\ Second!StagesReady' /\ Second!Requested'
<1>. USE SamePrerequisites
<1>1. Second!CachedPrerequisites'
    BY DEF Second!CachedPrerequisites, Steady, secondVars
<1>2. Second!StagesReady'
    <2>1. SUFFICES ASSUME NEW cr, NEW obj, NEW ns,
                          cr = work2.cr, obj = work2.obj, ns = NamespaceOf[cr],
                          pc2 \in AfterClaim, Pending(cr)'
                   PROVE  /\ WantsClaim(obj.spec) => Exists(PVCKey(ns, ClaimName(obj.spec)))'
                          /\ pc2 \in AfterServiceAccount => Exists(ServiceAccountKey(ns))'
                          /\ pc2 \in AfterRole => Exists(RoleKey(ns))'
                          /\ pc2 \in AfterRoleBinding => Exists(RoleBindingKey(ns))'
        BY SamePrerequisites
           DEF Second!StagesReady, secondVars, Second!ServiceAccountKey,
               ServiceAccountKey, Second!RoleKey, RoleKey,
               Second!RoleBindingKey, RoleBindingKey
    <2>2. pc2 # "idle"
        BY <2>1 DEF AfterClaim, AfterServiceAccount, AfterRole, AfterRoleBinding
    <2>3. cr \in Provisioners /\ obj.spec \in AdmittedSpecs
        BY <2>1, <2>2, SameDefinitions
           DEF BothInv, Second!TypeOK, Second!ManagerTypeOK, Requests, CustomResources
    <2>4. {ServiceAccountKey(ns), RoleKey(ns), RoleBindingKey(ns),
           PVCKey(ns, ClaimName(obj.spec))} \subseteq Prerequisites(ns)
        BY <2>3 DEF Prerequisites
    <2>5. Pending(cr) /\ \A k \in Prerequisites(ns) : Exists(k) => Exists(k)'
        BY <2>1, <2>3 DEF Steady
    <2>. QED BY <2>1, <2>4, <2>5
            DEF Second!StagesReady, Second!ServiceAccountKey, ServiceAccountKey,
                Second!RoleKey, RoleKey, Second!RoleBindingKey, RoleBindingKey
<1>3. Second!Requested'
    <2>1. pc2 # "idle" => work2.cr \in Provisioners
        BY SameDefinitions
           DEF BothInv, Second!TypeOK, Second!ManagerTypeOK, Requests
    <2>2. crCache2' = crCache2 /\ pc2' = pc2 /\ work2' = work2
        BY DEF secondVars
    <2>3. \A cr \in Provisioners : crCache2[cr] # NoObj => births'[cr] > 0
        BY DEF Second!Requested, BirthsSteady
    <2>4. pc2 # "idle" => births'[work2.cr] > 0
        BY <2>1 DEF Second!Requested, BirthsSteady
    <2>. QED BY <2>2, <2>3, <2>4 DEF Second!Requested
<1>. QED BY <1>1, <1>2, <1>3

LEMMA FirstReadyOn ==
    ASSUME BothInv, OneResourceEach, BothReady, [Next]_vars, UNCHANGED secondVars
    PROVE  BothReady'
<1>1. ReadyFirst'
    BY RequestedStep, BranchStep, ForegroundMarkedStep, OwnersStep,
       CachedPrerequisitesStep, RolesBuiltStep, StagesReadyStep,
       DeploymentsReadyStep
       DEF BothInv, BothReady, StoreReady, ReadyFirst
<1>2. Steady
    BY PendingBefore, PrerequisiteStays DEF BothInv, BothReady, StoreReady, Steady, Exists
<1>3. BirthsSteady
    BY BirthsGrow DEF BothInv, BirthsSteady
<1>4. \A cr \in Provisioners : crs'[cr] # NoObj => births'[cr] > 0
    BY <1>1 DEF ReadyFirst, Requested
<1>. QED BY <1>1, <1>2, <1>3, <1>4, SecondStaysReady
        DEF BothReady, StoreReady, ReadyFirst

LEMMA SecondReadyOn ==
    ASSUME BothInv, OneResourceEach, BothReady,
           [Second!Next]_(Second!vars), UNCHANGED firstVars
    PROVE  BothReady'
<1>. USE SameDefinitions, SameViews, ViewsAssumption, QuantitiesAssumption,
         NamespaceAssumption, SpecsAssumption, BoundsAssumption, NoObjAssumption,
         ActorsAssumption, LaggingAssumption, FaultsAssumption,
         RequestsAssumption, EndsWithAssumption, ScopeAssumption
<1>. USE SamePrerequisites, SameStoreReady
<1>. Second!OneResourceEach /\ Second!TypeOK /\ Second!BranchTaken
    BY DEF BothInv
<1>0. Second!ForegroundMarked /\ Second!OwnersOfNamespace
    BY DEF BothReady, StoreReady
<1>1. Second!Requested' /\ Second!CachedPrerequisites' /\ Second!StagesReady'
    BY <1>0, Second!RequestedStep, Second!CachedPrerequisitesStep,
       Second!StagesReadyStep, Second!BranchStep
       DEF BothReady, StoreReady, Second!ReadyFirst
<1>2. StoreReady'
    BY <1>0, Second!ForegroundMarkedStep, Second!OwnersStep,
       Second!RolesBuiltStep, Second!DeploymentsReadyStep
       DEF BothReady, StoreReady, Second!ReadyFirst
<1>3. Steady
    BY <1>0, Second!PendingBefore, Second!PrerequisiteStays
       DEF Steady, Second!Exists, Exists
<1>4. BirthsSteady
    BY Second!BirthsGrow DEF BirthsSteady
<1>5. \A cr \in Provisioners : crs'[cr] # NoObj => births'[cr] > 0
    BY <1>1 DEF Second!Requested
<1>. QED BY <1>1, <1>2, <1>3, <1>4, <1>5, FirstStaysReady DEF BothReady

LEMMA ElectionReadyOn ==
    ASSUME BothInv, BothReady, ElectionStep
    PROVE  BothReady'
<1>1. UNCHANGED <<crs, births, store>>
    BY DEF ElectionStep, clusterVars
<1>2. StoreReady'
    BY <1>1
       DEF BothReady, StoreReady, ForegroundMarked, OwnersOfNamespace, RolesBuilt,
           DeploymentsReady, MountsPrerequisite, Pending, Live, Exists
<1>3. Steady /\ BirthsSteady
    BY <1>1 DEF Steady, BirthsSteady, Pending, Live, Exists
<1>4. \A cr \in Provisioners : crs'[cr] # NoObj => births'[cr] > 0
    BY <1>1 DEF BothReady, Requested
<1>5. Requested' /\ CachedPrerequisites' /\ StagesReady'
    <2>1. CASE UNCHANGED firstVars
        BY <1>3, <1>4, <2>1, FirstStaysReady DEF BothReady
    <2>2. CASE Restart \/ Stop
        BY <1>1, <1>4, <2>2
           DEF Restart, Stop, Requested, CachedPrerequisites, StagesReady,
               AfterClaim, AfterServiceAccount, AfterRole, AfterRoleBinding,
               Exists
    <2>. QED BY <2>1, <2>2 DEF ElectionStep
<1>6. Second!Requested' /\ Second!CachedPrerequisites' /\ Second!StagesReady'
    <2>1. CASE UNCHANGED secondVars
        BY <1>3, <1>4, <2>1, SecondStaysReady DEF BothReady
    <2>2. CASE Second!Restart \/ Second!Stop
        BY <1>1, <1>4, <2>2, SamePrerequisites
           DEF Second!Restart, Second!Stop, Second!Requested,
               Second!CachedPrerequisites, Second!StagesReady, AfterClaim,
               AfterServiceAccount, AfterRole, AfterRoleBinding, Exists
    <2>. QED BY <2>1, <2>2 DEF ElectionStep
<1>. QED BY <1>2, <1>5, <1>6 DEF BothReady

\* A successor that goes by its own copy of the resource, while the process it
\* succeeds finishes with an older one, still leaves no Deployment of a live
\* resource without what its pod needs, under what PrerequisitesKept assumes.
THEOREM PrerequisitesWithTwo ==
    ASSUME OneResourceEach PROVE BothSpec => []PrerequisitesInPlace
<1>. DEFINE Inv == BothInv /\ BothReady
<1>1. BothInit => Inv
    <2>1. SUFFICES ASSUME BothInit PROVE BothReady
        BY BothStart
    <2>2. ReadyFirst
        BY <2>1, ReadyStart DEF BothInit
    <2>3. Second!Requested /\ Second!CachedPrerequisites /\ Second!StagesReady
        BY <2>1, SamePrerequisites
           DEF BothInit, Init, ClusterInit, Second!ManagerInit, Second!Requested,
               Second!CachedPrerequisites, Second!StagesReady, AfterClaim,
               AfterServiceAccount, AfterRole, AfterRoleBinding
    <2>. QED BY <2>2, <2>3 DEF BothReady, StoreReady, ReadyFirst
<1>2. Inv /\ [BothNext]_allVars => Inv'
    BY BothStep, StepsSeen, FirstReadyOn, SecondReadyOn, ElectionReadyOn
<1>3. Inv => PrerequisitesInPlace
    BY ReadyMeansInPlace DEF BothInv, BothReady, StoreReady, ReadyFirst
<1>. QED BY <1>1, <1>2, <1>3, PTL DEF BothSpec

-----------------------------------------------------------------------------
(* Owners *)

BothOwned ==
    /\ OwnersKnown /\ MadeOwned
    /\ Requested /\ Born
    /\ Second!Requested /\ Second!Born

LEMMA SameOwners ==
    /\ Second!OwnersKnown <=> OwnersKnown
    /\ Second!OwnersKnown' <=> OwnersKnown'
    /\ Second!MadeOwned <=> MadeOwned
    /\ Second!MadeOwned' <=> MadeOwned'
<1>. USE SameDefinitions
     DEF Second!ClusterScoped, ClusterScoped, Second!Exists, Exists
<1>1. /\ Second!OwnersKnown <=> OwnersKnown
      /\ Second!OwnersKnown' <=> OwnersKnown'
    BY DEF Second!OwnersKnown, OwnersKnown
<1>2. /\ Second!MadeOwned <=> MadeOwned
      /\ Second!MadeOwned' <=> MadeOwned'
    BY DEF Second!MadeOwned, MadeOwned
<1>. QED BY <1>1, <1>2

\* No uid is taken back.
BirthsOn ==
    \A cr \in Provisioners :
       /\ births[cr] <= births'[cr]
       /\ births[cr] \in Nat /\ births'[cr] \in Nat

\* The copies of a process that does nothing stay as old as they are.
LEMMA FirstStaysBorn ==
    ASSUME BothInv, Born, BirthsOn, UNCHANGED firstVars,
           \A cr \in Provisioners : crs'[cr] # NoObj => crs'[cr].birth = births'[cr]
    PROVE  Born'
<1>1. crCache' = crCache /\ pc' = pc /\ work' = work
    BY DEF firstVars
<1>2. ASSUME NEW cr \in Provisioners, NEW obj \in CustomResources,
             obj.birth <= births[cr]
      PROVE  obj.birth <= births'[cr]
    <2>1. obj.birth \in Nat
        BY BoundsAssumption DEF CustomResources
    <2>. QED BY <1>2, <2>1 DEF BirthsOn
<1>3. \A cr \in Provisioners : crCache[cr] # NoObj => crCache[cr].birth <= births'[cr]
    BY <1>2 DEF Born, BothInv, TypeOK, ManagerTypeOK
<1>4. pc # "idle" => work.obj.birth <= births'[work.cr]
    BY <1>2 DEF Born, BothInv, TypeOK, ManagerTypeOK, Requests
<1>. QED BY <1>1, <1>3, <1>4 DEF Born

LEMMA SecondStaysBorn ==
    ASSUME BothInv, Second!Born, BirthsOn, UNCHANGED secondVars,
           \A cr \in Provisioners : crs'[cr] # NoObj => crs'[cr].birth = births'[cr]
    PROVE  Second!Born'
<1>1. crCache2' = crCache2 /\ pc2' = pc2 /\ work2' = work2
    BY DEF secondVars
<1>2. ASSUME NEW cr \in Provisioners, NEW obj \in CustomResources,
             obj.birth <= births[cr]
      PROVE  obj.birth <= births'[cr]
    <2>1. obj.birth \in Nat
        BY BoundsAssumption DEF CustomResources
    <2>. QED BY <1>2, <2>1 DEF BirthsOn
<1>3. \A cr \in Provisioners : crCache2[cr] # NoObj => crCache2[cr].birth <= births'[cr]
    BY <1>2, SameDefinitions
       DEF Second!Born, BothInv, Second!TypeOK, Second!ManagerTypeOK
<1>4. pc2 # "idle" => work2.obj.birth <= births'[work2.cr]
    BY <1>2, SameDefinitions
       DEF Second!Born, BothInv, Second!TypeOK, Second!ManagerTypeOK, Requests
<1>. QED BY <1>1, <1>3, <1>4 DEF Second!Born

\* So does what shows that a resource was requested.
LEMMA StaysRequested ==
    ASSUME BothInv, BirthsOn,
           \A cr \in Provisioners : crs'[cr] # NoObj => births'[cr] > 0
    PROVE  /\ UNCHANGED firstVars /\ Requested => Requested'
           /\ UNCHANGED secondVars /\ Second!Requested => Second!Requested'
<1>1. \A cr \in Provisioners : births[cr] > 0 => births'[cr] > 0
    BY DEF BirthsOn
<1>2. ASSUME UNCHANGED firstVars, Requested PROVE Requested'
    <2>1. crCache' = crCache /\ pc' = pc /\ work' = work
        BY <1>2 DEF firstVars
    <2>2. pc # "idle" => work.cr \in Provisioners
        BY DEF BothInv, TypeOK, ManagerTypeOK, Requests
    <2>. QED BY <1>1, <1>2, <2>1, <2>2 DEF Requested
<1>3. ASSUME UNCHANGED secondVars, Second!Requested PROVE Second!Requested'
    <2>1. crCache2' = crCache2 /\ pc2' = pc2 /\ work2' = work2
        BY <1>3 DEF secondVars
    <2>2. pc2 # "idle" => work2.cr \in Provisioners
        BY SameDefinitions DEF BothInv, Second!TypeOK, Second!ManagerTypeOK, Requests
    <2>. QED BY <1>1, <1>3, <2>1, <2>2 DEF Second!Requested
<1>. QED BY <1>2, <1>3

LEMMA FirstOwnsOn ==
    ASSUME BothInv, BothOwned, [Next]_vars, UNCHANGED secondVars
    PROVE  BothOwned'
<1>1. OwnersKnown' /\ MadeOwned' /\ Requested' /\ Born'
    BY OwnersKnownStep, MadeOwnedStep, RequestedStep, BornStep DEF BothInv, BothOwned
<1>2. BirthsOn
    BY BirthsGrow DEF BothInv, BirthsOn
<1>3. Second!Requested' /\ Second!Born'
    BY <1>1, <1>2, SecondStaysBorn, StaysRequested DEF BothOwned, Born, Requested
<1>. QED BY <1>1, <1>3 DEF BothOwned

LEMMA SecondOwnsOn ==
    ASSUME BothInv, BothOwned, [Second!Next]_(Second!vars), UNCHANGED firstVars
    PROVE  BothOwned'
<1>. USE SameDefinitions, SameViews, ViewsAssumption, QuantitiesAssumption,
         NamespaceAssumption, SpecsAssumption, BoundsAssumption, NoObjAssumption,
         ActorsAssumption, LaggingAssumption, FaultsAssumption,
         RequestsAssumption, EndsWithAssumption, ScopeAssumption
<1>. USE SameOwners
<1>. Second!TypeOK /\ Second!Requested /\ Second!Born
    BY DEF BothInv, BothOwned
<1>1. Second!OwnersKnown' /\ Second!MadeOwned'
    BY Second!OwnersKnownStep, Second!MadeOwnedStep DEF BothOwned
<1>2. Second!Requested' /\ Second!Born'
    BY Second!RequestedStep, Second!BornStep
<1>3. BirthsOn
    BY Second!BirthsGrow DEF BirthsOn
<1>4. Requested' /\ Born'
    BY <1>2, <1>3, FirstStaysBorn, StaysRequested
       DEF BothOwned, Second!Born, Second!Requested
<1>. QED BY <1>1, <1>2, <1>4 DEF BothOwned

LEMMA ElectionOwnsOn ==
    ASSUME BothInv, BothOwned, ElectionStep
    PROVE  BothOwned'
<1>1. UNCHANGED <<crs, births, store>>
    BY DEF ElectionStep, clusterVars
<1>2. OwnersKnown' /\ MadeOwned'
    BY <1>1 DEF BothOwned, OwnersKnown, MadeOwned, Exists
<1>3. BirthsOn
    BY <1>1, BoundsAssumption DEF BirthsOn, BothInv, TypeOK, ClusterTypeOK
<1>4. \A cr \in Provisioners :
         crs'[cr] # NoObj => /\ births'[cr] > 0
                             /\ crs'[cr].birth = births'[cr]
                             /\ crs'[cr].birth <= births'[cr]
    BY <1>1, <1>3 DEF BothOwned, Requested, Born, BirthsOn
<1>5. Requested' /\ Born'
    <2>1. CASE UNCHANGED firstVars
        BY <1>3, <1>4, <2>1, FirstStaysBorn, StaysRequested DEF BothOwned
    <2>2. CASE Restart \/ Stop
        BY <1>1, <1>4, <2>2 DEF Restart, Stop, Requested, Born
    <2>. QED BY <2>1, <2>2 DEF ElectionStep
<1>6. Second!Requested' /\ Second!Born'
    <2>1. CASE UNCHANGED secondVars
        BY <1>3, <1>4, <2>1, SecondStaysBorn, StaysRequested DEF BothOwned
    <2>2. CASE Second!Restart \/ Second!Stop
        BY <1>1, <1>4, <2>2
           DEF Second!Restart, Second!Stop, Second!Requested, Second!Born
    <2>. QED BY <2>1, <2>2 DEF ElectionStep
<1>. QED BY <1>2, <1>5, <1>6 DEF BothOwned

\* What a deposed process still makes for a resource its successor has already
\* let go is no orphan either: the garbage collector may take it.
THEOREM OrphansWithTwo == BothSpec => []OrphansCollectable
<1>. DEFINE Inv == BothInv /\ BothOwned
<1>1. BothInit => Inv
    BY BothStart
       DEF BothInit, Init, ClusterInit, ManagerInit, Second!ManagerInit,
           BothOwned, OwnersKnown, MadeOwned, Exists, Requested, Born,
           Second!Requested, Second!Born
<1>2. Inv /\ [BothNext]_allVars => Inv'
    BY BothStep, StepsSeen, FirstOwnsOn, SecondOwnsOn, ElectionOwnsOn
<1>3. Inv => OrphansCollectable
    BY OwnedTaken DEF BothInv, BothOwned
<1>. QED BY <1>1, <1>2, <1>3, PTL DEF BothSpec

=============================================================================
