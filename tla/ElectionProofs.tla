--------------------------- MODULE ElectionProofs ----------------------------
(***************************************************************************)
(* What ReconcilerProofs shows of one process holds with two of them: an   *)
(* invariant of each, and a step of one that leaves the other's alone.     *)
(***************************************************************************)
EXTENDS TwoManagers, OwnershipProofs

-----------------------------------------------------------------------------
(* The second process obeys the definitions of the first *)

\* No constant operator mentions a variable of a process, so the two agree.
LEMMA SameDefinitions ==
    /\ Second!Keys = Keys
    /\ Second!CustomResources = CustomResources
    /\ Second!Objects = Objects
    /\ Second!Uids = Uids
    /\ Second!Requests = Requests
    /\ Second!SpecFields = SpecFields
    /\ Second!DefaultStorageSize = DefaultStorageSize
    /\ Second!ClusterScope = ClusterScope
    /\ Second!ClusterTypeOK = ClusterTypeOK
    /\ Second!ClusterTypeOK' = ClusterTypeOK'
<1>. USE DEF
           Keys, CustomResources, Objects, Uids, Requests, SpecFields,
           DefaultStorageSize, ClusterTypeOK, SCCKey, ClusterRoleKey,
           ClusterRoleBindingKey, StorageClassKey, StorageClassName,
           AdmittedSpecs, PVCKey, ClaimName, ServiceAccountKey, RoleKey,
           RoleBindingKey, DeploymentKey, ServiceKey, Errors, Contents,
           SCCShape, ClusterScope, Or, DefaultSCForNFS, Admitted,
           DefaultPvc, NoError, ErrorText, Bare, BuildClusterRole,
           BuildRole, Accounts, BuildClusterRoleBinding,
           BuildRoleBinding, BuildPVC, BuildDeployment, BuildService,
           Unset, DefaultImage, Rule, DefaultSCForNFSPvc, ClaimSize,
           StorageType, LabelsFor, ImageFor, PullPolicyFor,
           NodeSelectorFor, GetVolumeSpec, DefaultPullPolicy,
           EmptySelector, NoSelector, DefaultNodeSelector, Second!Keys,
           Second!CustomResources, Second!Objects, Second!Uids,
           Second!Requests, Second!SpecFields,
           Second!DefaultStorageSize, Second!ClusterTypeOK,
           Second!SCCKey, Second!ClusterRoleKey,
           Second!ClusterRoleBindingKey, Second!StorageClassKey,
           Second!StorageClassName, Second!AdmittedSpecs, Second!PVCKey,
           Second!ClaimName, Second!ServiceAccountKey, Second!RoleKey,
           Second!RoleBindingKey, Second!DeploymentKey,
           Second!ServiceKey, Second!Errors, Second!Contents,
           Second!SCCShape, Second!ClusterScope, Second!Or,
           Second!DefaultSCForNFS, Second!Admitted, Second!DefaultPvc,
           Second!NoError, Second!ErrorText, Second!Bare,
           Second!BuildClusterRole, Second!BuildRole, Second!Accounts,
           Second!BuildClusterRoleBinding, Second!BuildRoleBinding,
           Second!BuildPVC, Second!BuildDeployment, Second!BuildService,
           Second!Unset, Second!DefaultImage, Second!Rule,
           Second!DefaultSCForNFSPvc, Second!ClaimSize,
           Second!StorageType, Second!LabelsFor, Second!ImageFor,
           Second!PullPolicyFor, Second!NodeSelectorFor,
           Second!GetVolumeSpec, Second!DefaultPullPolicy,
           Second!EmptySelector, Second!NoSelector,
           Second!DefaultNodeSelector
<1>1. Second!Keys = Keys /\ Second!CustomResources = CustomResources
    OBVIOUS
<1>2. Second!Objects = Objects /\ Second!Uids = Uids
    OBVIOUS
<1>3. Second!Requests = Requests /\ Second!SpecFields = SpecFields
    OBVIOUS
<1>4. Second!DefaultStorageSize = DefaultStorageSize /\ Second!ClusterScope = ClusterScope
    OBVIOUS
<1>5. Second!ClusterTypeOK = ClusterTypeOK
    OBVIOUS
<1>6. Second!ClusterTypeOK' = ClusterTypeOK'
    OBVIOUS
<1>. HIDE DEF
           Keys, CustomResources, Objects, Uids, Requests, SpecFields,
           DefaultStorageSize, ClusterTypeOK, SCCKey, ClusterRoleKey,
           ClusterRoleBindingKey, StorageClassKey, StorageClassName,
           AdmittedSpecs, PVCKey, ClaimName, ServiceAccountKey, RoleKey,
           RoleBindingKey, DeploymentKey, ServiceKey, Errors, Contents,
           SCCShape, ClusterScope, Or, DefaultSCForNFS, Admitted,
           DefaultPvc, NoError, ErrorText, Bare, BuildClusterRole,
           BuildRole, Accounts, BuildClusterRoleBinding,
           BuildRoleBinding, BuildPVC, BuildDeployment, BuildService,
           Unset, DefaultImage, Rule, DefaultSCForNFSPvc, ClaimSize,
           StorageType, LabelsFor, ImageFor, PullPolicyFor,
           NodeSelectorFor, GetVolumeSpec, DefaultPullPolicy,
           EmptySelector, NoSelector, DefaultNodeSelector, Second!Keys,
           Second!CustomResources, Second!Objects, Second!Uids,
           Second!Requests, Second!SpecFields,
           Second!DefaultStorageSize, Second!ClusterTypeOK,
           Second!SCCKey, Second!ClusterRoleKey,
           Second!ClusterRoleBindingKey, Second!StorageClassKey,
           Second!StorageClassName, Second!AdmittedSpecs, Second!PVCKey,
           Second!ClaimName, Second!ServiceAccountKey, Second!RoleKey,
           Second!RoleBindingKey, Second!DeploymentKey,
           Second!ServiceKey, Second!Errors, Second!Contents,
           Second!SCCShape, Second!ClusterScope, Second!Or,
           Second!DefaultSCForNFS, Second!Admitted, Second!DefaultPvc,
           Second!NoError, Second!ErrorText, Second!Bare,
           Second!BuildClusterRole, Second!BuildRole, Second!Accounts,
           Second!BuildClusterRoleBinding, Second!BuildRoleBinding,
           Second!BuildPVC, Second!BuildDeployment, Second!BuildService,
           Second!Unset, Second!DefaultImage, Second!Rule,
           Second!DefaultSCForNFSPvc, Second!ClaimSize,
           Second!StorageType, Second!LabelsFor, Second!ImageFor,
           Second!PullPolicyFor, Second!NodeSelectorFor,
           Second!GetVolumeSpec, Second!DefaultPullPolicy,
           Second!EmptySelector, Second!NoSelector,
           Second!DefaultNodeSelector
<1>. QED BY <1>1, <1>2, <1>3, <1>4, <1>5, <1>6

LEMMA SecondTyped ==
    ASSUME Second!TypeOK, [Second!Next]_(Second!vars)
    PROVE  Second!TypeOK'
BY Second!StepTyped, SameDefinitions, QuantitiesAssumption, NamespaceAssumption,
   SpecsAssumption, BoundsAssumption, NoObjAssumption, ActorsAssumption,
   LaggingAssumption, FaultsAssumption, RequestsAssumption, EndsWithAssumption, ScopeAssumption

LEMMA SecondBranch ==
    ASSUME Second!TypeOK, Second!BranchTaken, [Second!Next]_(Second!vars)
    PROVE  Second!BranchTaken'
BY Second!BranchStep, SameDefinitions, QuantitiesAssumption, NamespaceAssumption,
   SpecsAssumption, BoundsAssumption, NoObjAssumption, ActorsAssumption,
   LaggingAssumption, FaultsAssumption, RequestsAssumption, EndsWithAssumption, ScopeAssumption

LEMMA SecondKeepsIntent ==
    ASSUME Second!TypeOK, Second!BranchTaken, [Second!Next]_(Second!vars),
           NEW cr \in Provisioners
    PROVE  IntentKept(cr)
<1>1. Second!IntentKept(cr)
    BY Second!StepKeepsIntent, SameDefinitions, QuantitiesAssumption,
       NamespaceAssumption, SpecsAssumption, BoundsAssumption, NoObjAssumption,
       ActorsAssumption, LaggingAssumption, FaultsAssumption,
       RequestsAssumption, EndsWithAssumption, ScopeAssumption
<1>. QED BY <1>1 DEF IntentKept, Second!IntentKept

LEMMA SecondTellsTruth ==
    ASSUME Second!TypeOK, Second!OnlyInvalid, [Second!Next]_(Second!vars)
    PROVE  /\ Second!OnlyInvalid'
           /\ \A cr \in Provisioners : ErrorTruthful(cr)
<1>1. Second!OnlyInvalid'
    BY Second!OnlyInvalidStep, SameDefinitions, QuantitiesAssumption,
       NamespaceAssumption, SpecsAssumption, BoundsAssumption, NoObjAssumption,
       ActorsAssumption, LaggingAssumption, FaultsAssumption,
       RequestsAssumption, EndsWithAssumption, ScopeAssumption
<1>2. ASSUME NEW cr \in Provisioners
      PROVE  Second!ErrorTruthful(cr)
    BY Second!StepTellsTruth, SameDefinitions, QuantitiesAssumption,
       NamespaceAssumption, SpecsAssumption, BoundsAssumption, NoObjAssumption,
       ActorsAssumption, LaggingAssumption, FaultsAssumption,
       RequestsAssumption, EndsWithAssumption, ScopeAssumption
<1>3. \A spec : /\ Second!Valid(spec) <=> Valid(spec)
                /\ Second!ErrorText(spec) = ErrorText(spec)
    BY DEF Valid, PvcConflict, HostPathConflict, StorageClassConflict, Unset,
           ErrorText, Second!Valid, Second!PvcConflict, Second!HostPathConflict,
           Second!StorageClassConflict, Second!Unset, Second!ErrorText
<1>. QED BY <1>1, <1>2, <1>3 DEF ErrorTruthful, Second!ErrorTruthful

LEMMA SecondKeepsUsers ==
    ASSUME Second!TypeOK, [Second!Next]_(Second!vars)
    PROVE  UsersKept
<1>1. Second!UsersKept
    BY Second!StepKeepsUsers, SameDefinitions, QuantitiesAssumption,
       NamespaceAssumption, SpecsAssumption, BoundsAssumption, NoObjAssumption,
       ActorsAssumption, LaggingAssumption, FaultsAssumption,
       RequestsAssumption, EndsWithAssumption, ScopeAssumption
<1>. QED BY <1>1
        DEF UsersKept, Second!UsersKept, Exists, Second!Exists, SCCKey,
            Second!SCCKey, ClusterScope, Second!ClusterScope

LEMMA SecondRestarts ==
    ASSUME Second!TypeOK, Second!Restart, UNCHANGED clusterVars,
           faults' \in 0 .. MaxFaults
    PROVE  Second!TypeOK' /\ Second!BranchTaken' /\ Second!OnlyInvalid'
<1>1. Second!TypeOK'
    BY Second!RestartTyped, SameDefinitions, QuantitiesAssumption,
       NamespaceAssumption, SpecsAssumption, BoundsAssumption, NoObjAssumption,
       ActorsAssumption, LaggingAssumption, FaultsAssumption,
       RequestsAssumption, EndsWithAssumption, ScopeAssumption
       DEF clusterVars, Second!clusterVars
<1>. QED BY <1>1
        DEF Second!Restart, Second!BranchTaken, Second!OnlyInvalid,
            Second!CleanupStages, Second!DeleteStages

-----------------------------------------------------------------------------
(* One process steps *)

\* Types of both processes, and the branch each took from its own copy.
BothInv ==
    /\ TypeOK /\ BranchTaken /\ OnlyInvalid
    /\ Second!TypeOK /\ Second!BranchTaken /\ Second!OnlyInvalid

\* What a step of either process may not do.
BothHarmless ==
    /\ \A cr \in Provisioners : IntentKept(cr) /\ ErrorTruthful(cr)
    /\ UsersKept

\* The first process does nothing while the API server is changed.
LEMMA FirstUndisturbed ==
    ASSUME TypeOK, BranchTaken, OnlyInvalid, UNCHANGED firstVars,
           ClusterTypeOK', faults' \in 0 .. MaxFaults
    PROVE  TypeOK' /\ BranchTaken' /\ OnlyInvalid'
<1>1. ManagerTypeOK'
    BY DEF TypeOK, ManagerTypeOK, firstVars, SCCShape
<1>2. BranchTaken' /\ OnlyInvalid'
    BY DEF BranchTaken, OnlyInvalid, CleanupStages, DeleteStages, Deleting, Finalized,
           firstVars
<1>. QED BY <1>1, <1>2 DEF TypeOK

LEMMA SecondUndisturbed ==
    ASSUME Second!TypeOK, Second!BranchTaken, Second!OnlyInvalid,
           UNCHANGED secondVars, ClusterTypeOK', faults' \in 0 .. MaxFaults
    PROVE  Second!TypeOK' /\ Second!BranchTaken' /\ Second!OnlyInvalid'
<1>1. Second!ManagerTypeOK'
    BY DEF Second!TypeOK, Second!ManagerTypeOK, secondVars, Second!SCCShape
<1>2. Second!BranchTaken' /\ Second!OnlyInvalid'
    BY DEF Second!BranchTaken, Second!OnlyInvalid, Second!CleanupStages, Second!DeleteStages,
           Second!Deleting, Second!Finalized, secondVars
<1>. QED BY <1>1, <1>2, SameDefinitions DEF Second!TypeOK

LEMMA FirstStep ==
    ASSUME BothInv, FirstWorks
    PROVE  BothInv' /\ BothHarmless
<1>1. Next /\ UNCHANGED secondVars
    BY DEF FirstWorks, Next
<1>2. TypeOK' /\ BranchTaken' /\ OnlyInvalid'
    BY <1>1, StepTyped, BranchStep, OnlyInvalidStep DEF BothInv
<1>3. BothHarmless
    BY <1>1, StepKeepsIntent, StepTellsTruth, StepKeepsUsers DEF BothInv, BothHarmless
<1>4. ClusterTypeOK' /\ faults' \in 0 .. MaxFaults
    BY <1>2 DEF TypeOK, ManagerTypeOK
<1>. QED BY <1>1, <1>2, <1>3, <1>4, SecondUndisturbed DEF BothInv

LEMMA SecondStep ==
    ASSUME BothInv, SecondWorks
    PROVE  BothInv' /\ BothHarmless
<1>1. Second!Next /\ UNCHANGED firstVars
    BY DEF SecondWorks, Second!Next
<1>2. Second!TypeOK' /\ Second!BranchTaken' /\ Second!OnlyInvalid'
    BY <1>1, SecondTyped, SecondBranch, SecondTellsTruth DEF BothInv
<1>3. BothHarmless
    BY <1>1, SecondKeepsIntent, SecondTellsTruth, SecondKeepsUsers DEF BothInv, BothHarmless
<1>4. ClusterTypeOK' /\ faults' \in 0 .. MaxFaults
    BY <1>2, SameDefinitions DEF Second!TypeOK, Second!ManagerTypeOK
<1>. QED BY <1>1, <1>2, <1>3, <1>4, FirstUndisturbed DEF BothInv

LEMMA EnvironmentStep ==
    ASSUME BothInv, Environment,
           UNCHANGED <<managerVars, secondVars, electionVars>>
    PROVE  BothInv' /\ BothHarmless
<1>1. Next /\ UNCHANGED secondVars
    BY DEF Next, managerVars
<1>2. TypeOK' /\ BranchTaken' /\ OnlyInvalid'
    BY <1>1, StepTyped, BranchStep, OnlyInvalidStep DEF BothInv
<1>3. BothHarmless
    BY <1>1, StepKeepsIntent, StepTellsTruth, StepKeepsUsers DEF BothInv, BothHarmless
<1>4. ClusterTypeOK' /\ faults' \in 0 .. MaxFaults
    BY <1>2 DEF TypeOK, ManagerTypeOK
<1>. QED BY <1>1, <1>2, <1>3, <1>4, SecondUndisturbed DEF BothInv

-----------------------------------------------------------------------------
(* A process starts, stops or changes hands with the other *)

\* What all steps of the election have in common.
ElectionStep ==
    /\ UNCHANGED clusterVars
    /\ faults' \in 0 .. MaxFaults
    /\ UNCHANGED firstVars \/ Restart \/ Stop
    /\ UNCHANGED secondVars \/ Second!Restart \/ Second!Stop

LEMMA ElectionSteps ==
    ASSUME BothInv,
           \/ \E m \in Managers : Acquire(m) \/ LoseLease(m) \/ Exit(m) \/ Die(m)
           \/ Expire
    PROVE  ElectionStep
<1>1. faults \in 0 .. MaxFaults
    BY DEF BothInv, TypeOK, ManagerTypeOK
<1>2. Fault => faults' \in 0 .. MaxFaults
    BY <1>1, FaultsAssumption DEF Fault
<1>3. ASSUME NEW m, Starts(m) \/ Stops(m)
      PROVE  /\ UNCHANGED firstVars \/ Restart \/ Stop
             /\ UNCHANGED secondVars \/ Second!Restart \/ Second!Stop
    BY <1>3 DEF Starts, Stops
<1>. QED BY <1>1, <1>2, <1>3
        DEF Acquire, LoseLease, Exit, Die, Expire, ElectionStep

LEMMA ElectionKeeps ==
    ASSUME BothInv, ElectionStep
    PROVE  BothInv' /\ BothHarmless
<1>1. ClusterTypeOK' /\ BothHarmless
    BY UnchangedKept
       DEF BothInv, TypeOK, ClusterTypeOK, SCCShape, ElectionStep, clusterVars,
           BothHarmless, ErrorTruthful, UsersKept
<1>2. TypeOK' /\ BranchTaken' /\ OnlyInvalid'
    <2>1. CASE UNCHANGED firstVars
        BY <1>1, <2>1, FirstUndisturbed DEF BothInv, ElectionStep
    <2>2. CASE Restart
        BY <1>1, <2>2, RestartTyped
           DEF BothInv, ElectionStep, Restart, BranchTaken, OnlyInvalid,
               CleanupStages, DeleteStages
    <2>3. CASE Stop
        BY <1>1, <2>3
           DEF Stop, TypeOK, ManagerTypeOK, SCCShape, ElectionStep, Stages,
               BranchTaken, OnlyInvalid, CleanupStages, DeleteStages
    <2>. QED BY <2>1, <2>2, <2>3 DEF ElectionStep
<1>3. Second!TypeOK' /\ Second!BranchTaken' /\ Second!OnlyInvalid'
    <2>1. CASE UNCHANGED secondVars
        BY <1>1, <2>1, SecondUndisturbed DEF BothInv, ElectionStep
    <2>2. CASE Second!Restart
        BY <1>1, <2>2, SecondRestarts
           DEF BothInv, ElectionStep, clusterVars
    <2>3. CASE Second!Stop
        BY <1>1, <2>3, SameDefinitions
           DEF Second!Stop, Second!TypeOK, Second!ManagerTypeOK, Second!SCCShape,
               ElectionStep, Second!Stages, Second!BranchTaken,
               Second!OnlyInvalid, Second!CleanupStages, Second!DeleteStages
    <2>. QED BY <2>1, <2>2, <2>3 DEF ElectionStep
<1>. QED BY <1>1, <1>2, <1>3 DEF BothInv

-----------------------------------------------------------------------------

LEMMA BothStart ==
    ASSUME BothInit
    PROVE  BothInv
<1>1. TypeOK /\ BranchTaken /\ OnlyInvalid
    BY InitTyped
       DEF BothInit, Init, ManagerInit, BranchTaken, OnlyInvalid, CleanupStages,
           DeleteStages
<1>2. Second!TypeOK /\ Second!BranchTaken /\ Second!OnlyInvalid
    BY <1>1, SameDefinitions, FaultsAssumption
       DEF TypeOK, BothInit, Second!ManagerInit, Second!TypeOK,
           Second!ManagerTypeOK, Second!SCCShape, Second!Stages,
           Second!BranchTaken, Second!OnlyInvalid, Second!CleanupStages,
           Second!DeleteStages
<1>. QED BY <1>1, <1>2 DEF BothInv

LEMMA BothStep ==
    ASSUME BothInv, [BothNext]_allVars
    PROVE  BothInv' /\ BothHarmless
<1>1. CASE UNCHANGED allVars
    <2>1. ElectionStep
        BY <1>1 DEF allVars, vars, clusterVars, firstVars, ElectionStep,
                    BothInv, TypeOK, ManagerTypeOK
    <2>. QED BY <2>1, ElectionKeeps
<1>2. CASE BothNext
    BY <1>2, EnvironmentStep, FirstStep, SecondStep, ElectionSteps,
       ElectionKeeps DEF BothNext
<1>. QED BY <1>1, <1>2

\* Whether or not leader election is on, and although a process that lost its
\* lease still reconciles beside its successor, no write of either undoes what
\* a user did.
THEOREM IntentWithTwo == BothSpec => BothKeepIntent
<1>1. BothInit => BothInv
    BY BothStart
<1>2. BothInv /\ [BothNext]_allVars => BothInv' /\ BothHarmless
    BY BothStep
<1>3. BothInv /\ [BothNext]_allVars =>
          [\A cr \in Provisioners : IntentKept(cr)]_allVars
    BY <1>2 DEF BothHarmless
<1>4. BothInv /\ [BothNext]_allVars => BothInv'
    BY <1>2
<1>. QED BY <1>1, <1>3, <1>4, PTL DEF BothSpec, BothKeepIntent

\* Neither process stores an error that is not that of the stored spec.
BothTellTruth == [][\A cr \in Provisioners : ErrorTruthful(cr)]_allVars

\* Neither process drops an account from the SCC.
BothKeepUsers == [][UsersKept]_allVars

\* With copies of two ages about, a resource still never gets an error that is
\* not that of the spec it is stored with.
THEOREM TruthWithTwo == BothSpec => BothTellTruth
<1>1. BothInit => BothInv
    BY BothStart
<1>2. BothInv /\ [BothNext]_allVars => BothInv'
    BY BothStep
<1>3. BothInv /\ [BothNext]_allVars =>
          [\A cr \in Provisioners : ErrorTruthful(cr)]_allVars
    BY BothStep DEF BothHarmless
<1>. QED BY <1>1, <1>2, <1>3, PTL DEF BothSpec, BothTellTruth

\* Two processes add accounts to one SCC, each from a list of its own that may
\* be out of date: no account is lost.
THEOREM UsersWithTwo == BothSpec => BothKeepUsers
<1>1. BothInit => BothInv
    BY BothStart
<1>2. BothInv /\ [BothNext]_allVars => BothInv'
    BY BothStep
<1>3. BothInv /\ [BothNext]_allVars => [UsersKept]_allVars
    BY BothStep DEF BothHarmless
<1>. QED BY <1>1, <1>2, <1>3, PTL DEF BothSpec, BothKeepUsers

\* The lease and the processes that run.
ElectionTypeOK == holder \in Managers \cup {NoHolder} /\ active \subseteq Managers

LEMMA ElectionTyped ==
    ASSUME ElectionTypeOK, [BothNext]_allVars
    PROVE  ElectionTypeOK'
<1>1. CASE UNCHANGED electionVars
    BY <1>1 DEF electionVars, ElectionTypeOK
<1>2. CASE Expire \/ \E m \in Managers : Acquire(m) \/ LoseLease(m) \/ Exit(m) \/ Die(m)
    BY <1>2 DEF Expire, Acquire, LoseLease, Exit, Die, ElectionTypeOK
<1>. QED BY <1>1, <1>2
        DEF BothNext, FirstWorks, SecondWorks, allVars, electionVars

\* The types of both processes, of the lease and of the API server they share
\* hold in every behaviour, also while both run at once.
THEOREM TypesOfTwo == BothSpec => []BothTypeOK
<1>1. BothInit => BothInv /\ ElectionTypeOK
    BY BothStart DEF BothInit, ElectionTypeOK
<1>2. BothInv /\ ElectionTypeOK /\ [BothNext]_allVars => BothInv' /\ ElectionTypeOK'
    BY BothStep, ElectionTyped
<1>3. BothInv /\ ElectionTypeOK => BothTypeOK
    BY DEF BothInv, ElectionTypeOK, BothTypeOK, Second!TypeOK
<1>. QED BY <1>1, <1>2, <1>3, PTL DEF BothSpec

=============================================================================
