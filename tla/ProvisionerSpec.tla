--------------------------- MODULE ProvisionerSpec ---------------------------
(***************************************************************************)
(* The spec of the NFSProvisioner custom resource and everything the       *)
(* operator computes from it without touching the cluster: the CRD's       *)
(* defaulting, validate(), the names the managers look up, and the parts   *)
(* of the objects the builders derive from the spec.                       *)
(*                                                                         *)
(* Names, sizes and images are opaque strings.  Unset is Go's zero value   *)
(* of a string field; NoSelector is the nil node selector.                 *)
(***************************************************************************)
EXTENDS Naturals, FiniteSets

CONSTANT
    Quantities      \* the strings resource.MustParse accepts (external)

Unset == ""
NoSelector == "nil"
EmptySelector == "{}"

-----------------------------------------------------------------------------
(* controllers/defaults *)

DefaultPvc == "nfs-server"
DefaultSCForNFSPvc == "local-sc"
DefaultSCForNFS == "nfs"
DefaultStorageSize == "10G"
DefaultNodeSelector == "app=nfs-provisioner"
DefaultImage == "nfs-provisioner@pinned"
DefaultPullPolicy == "Always"

ASSUME QuantitiesAssumption == DefaultStorageSize \in Quantities

-----------------------------------------------------------------------------
(* api/v1alpha1 *)

\* The fields of NFSProvisionerSpec.  imageConfig says whether the optional
\* nfsImageConfiguration block is present; image and pullPolicy are its
\* fields, Unset for a nil pointer.
SpecFields ==
    [ pvc : STRING, hostPathDir : STRING, scForNFSPvc : STRING,
      scForNFS : STRING, storageSize : STRING, nodeSelector : STRING,
      imageConfig : BOOLEAN, image : STRING, pullPolicy : STRING ]

EmptySpec ==
    [ pvc |-> Unset, hostPathDir |-> Unset, scForNFSPvc |-> Unset,
      scForNFS |-> Unset, storageSize |-> Unset, nodeSelector |-> NoSelector,
      imageConfig |-> FALSE, image |-> Unset, pullPolicy |-> Unset ]

Or(value, default) == IF value = Unset THEN default ELSE value

\* What the API server stores: inside nfsImageConfiguration the CRD gives
\* both fields a default, outside it nothing is defaulted.
Admitted(spec) ==
    IF spec.imageConfig
    THEN [spec EXCEPT !.image = Or(@, DefaultImage),
                      !.pullPolicy = Or(@, "IfNotPresent")]
    ELSE spec

-----------------------------------------------------------------------------
(* controllers/nfsprovisioner_controller.go *)

\* The three tests of validate(), each guarded by the field that asks for
\* its storage.
PvcConflict(spec) ==
    /\ spec.pvc # Unset
    /\ spec.scForNFSPvc # Unset \/ spec.hostPathDir # Unset

HostPathConflict(spec) ==
    /\ spec.hostPathDir # Unset
    /\ spec.scForNFSPvc # Unset \/ spec.pvc # Unset

StorageClassConflict(spec) ==
    /\ spec.scForNFSPvc # Unset
    /\ spec.pvc # Unset \/ spec.hostPathDir # Unset

Valid(spec) ==
    /\ ~ PvcConflict(spec)
    /\ ~ HostPathConflict(spec)
    /\ ~ StorageClassConflict(spec)

\* The text Reconcile stores in status.error, by the fields it names.
NoError == <<>>
ErrorText(spec) == <<spec.pvc, spec.scForNFSPvc, spec.hostPathDir>>

-----------------------------------------------------------------------------
(* controllers/resources: what each manager takes from the spec *)

\* PVCManager skips hostPath storage and otherwise works on this claim.
WantsClaim(spec) == spec.hostPathDir = Unset
ClaimName(spec) == Or(spec.pvc, DefaultPvc)
OwnsClaim(spec) == spec.pvc = Unset

ClaimSize(spec) == Or(spec.storageSize, DefaultStorageSize)
SizeParses(spec) == ClaimSize(spec) \in Quantities

BuildPVC(spec) ==
    [ storageClass |-> Or(spec.scForNFSPvc, DefaultSCForNFSPvc),
      size |-> ClaimSize(spec) ]

\* DeploymentManager decides on the storage by itself.
StorageType(spec) ==
    IF spec.hostPathDir # Unset THEN "HOSTPATH" ELSE "PVC"

\* Altered form of GetVolumeSpec: the claim the user names is forgotten.
DefaultVolumeSpec(spec, storageType) ==
    IF storageType = "HOSTPATH"
    THEN [kind |-> "hostPath", ref |-> spec.hostPathDir]
    ELSE [kind |-> "claim", ref |-> DefaultPvc]

GetVolumeSpec(spec, storageType) ==
    IF storageType = "HOSTPATH"
    THEN [kind |-> "hostPath", ref |-> spec.hostPathDir]
    ELSE [kind |-> "claim", ref |-> Or(spec.pvc, DefaultPvc)]

NodeSelectorFor(spec, storageType) ==
    IF storageType = "PVC" THEN EmptySelector
    ELSE IF spec.nodeSelector # NoSelector THEN spec.nodeSelector
    ELSE DefaultNodeSelector

ImageFor(spec) ==
    IF spec.imageConfig THEN Or(spec.image, DefaultImage) ELSE DefaultImage

PullPolicyFor(spec) ==
    IF spec.imageConfig THEN Or(spec.pullPolicy, DefaultPullPolicy)
    ELSE DefaultPullPolicy

\* labelsForNFSProvisioner, the labels of the pods and of the Service's
\* selector alike; only the CR's name tells two of them apart.
LabelsFor(name) == [app |-> "nfs-provisioner", nfsprovisioner_cr |-> name]

BuildDeployment(name, spec) ==
    LET storageType == StorageType(spec) IN
    [ labels |-> LabelsFor(name),
      image |-> ImageFor(spec),
      pullPolicy |-> PullPolicyFor(spec),
      nodeSelector |-> NodeSelectorFor(spec, storageType),
      volume |-> GetVolumeSpec(spec, storageType) ]

BuildService(name) == [selector |-> LabelsFor(name)]

\* StorageClassManager: the name it looks up and the name it creates.
StorageClassName(spec) == Or(spec.scForNFS, DefaultSCForNFS)

=============================================================================
