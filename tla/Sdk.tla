-------------------------------- MODULE Sdk --------------------------------
(***************************************************************************)
(* The TypeScript client the web pages speak to the network with           *)
(* (packages/trustmcp-sdk/src/index.ts): its methods, what each asks of    *)
(* the network and under which credential, and what a caller can learn.    *)
(* A method sends one request and never repeats it.  Whatever is not an    *)
(* answer with a success status is an exception, so a caller cannot tell a *)
(* request that was lost from one whose answer was.                        *)
(***************************************************************************)
EXTENDS Integers, Sequences, FiniteSets

CONSTANTS
  MaxActs,    \* pages and dialogs opened and actions called, by everyone
  Ids,        \* ids of artifacts
  FirstIds    \* the artifacts there are at first

ASSUME SdkAssumption == MaxActs \in Nat /\ FirstIds \subseteq Ids

VARIABLES
  acts,       \* pages and dialogs opened and actions called so far
  artifacts,  \* the network's artifacts: id -> does it have content
  unused,     \* ids not given to an artifact yet
  nda         \* the vendor's nda_required

Counted == acts < MaxActs /\ acts' = acts + 1

network == <<artifacts, unused, nda>>

SdkInit ==
  /\ acts = 0
  /\ artifacts = [id \in FirstIds |-> TRUE]
  /\ unused = Ids \ FirstIds
  /\ nda = FALSE

-----------------------------------------------------------------------------
(* A collection of one item, and a collection with another's items behind  *)
(* its own.  (TLC's :> and @@, as definitions that a proof can expand.)    *)
Item(x, value) == [y \in {x} |-> value]
f ++ g == [x \in DOMAIN f \cup DOMAIN g |-> IF x \in DOMAIN f THEN f[x] ELSE g[x]]

(* Methods by verb and credential: the service's token, the vendor's owner *)
(* token, a reader's access key, or nothing.                               *)
By(verb, as, methods) == [m \in methods |-> [verb |-> verb, as |-> as]]

VendorCalls ==
  By("POST", "service", {"createVendor"})
  ++ By("GET", "owner", {"getVendor"})
  ++ By("PUT", "owner", {"updateProfile"})
  ++ By("POST", "owner", {"uploadBrandingLogo", "uploadBrandingLogoWide", "publish"})

ArtifactCalls ==
  By("GET", "owner", {"listArtifacts", "getArtifactVersions"})
  ++ By("POST", "owner", {"createArtifact", "uploadArtifactContent"})
  ++ By("PATCH", "owner", {"updateArtifact"})
  ++ By("DELETE", "owner", {"deleteVendor", "deleteArtifact"})

SectionCalls ==
  By("GET", "owner", {"getOwnerAttestations", "getOwnerSubprocessors", "getOwnerBadges",
       "getOwnerControls", "getOwnerDataTypes", "getOwnerFaqs", "getOwnerUpdates"})
  ++ By("PUT", "owner", {"replaceAttestations", "replaceSubprocessors", "replaceBadges",
       "replaceControls", "replaceDataTypes", "replaceFaqs", "replaceUpdates"})

AudienceCalls ==
  By("GET", "owner", {"listSubscribers", "listAgreements", "listDomains"})
  ++ By("POST", "owner", {"sendAgreement", "addDomain", "verifyDomain"})
  ++ By("DELETE", "owner", {"removeDomain"})

CustomDomainCalls ==
  By("GET", "owner", {"getCustomDomain"})
  ++ By("POST", "owner", {"setCustomDomain", "verifyCustomDomain", "detectDnsProvider",
       "autoConfigureDns", "discoverDomainConnect"})
  ++ By("DELETE", "owner", {"removeCustomDomain"})
  ++ By("POST", "service", {"revokeMark", "reinstateMark"})

KeyCalls ==
  By("GET", "owner", {"listKeyRequests", "getInsights", "listKeys", "getAudit"})
  ++ By("POST", "owner", {"approveKeyRequest", "denyKeyRequest", "revokeKey"})

PublicCalls ==
  By("GET", "none", {"getMark", "getDirectory", "getPublicProfile", "resolveCustomDomain",
       "getPublicArtifact"})
  ++ By("POST", "none", {"requestAccessWithContract", "requestAccess", "subscribe", "ask",
       "reclaimAccess", "submitAgreement"})

ReaderCalls ==
  By("GET", "none", {"getFrameworks", "getNetworkKey"})
  ++ By("GET", "key", {"getMappedAttestations", "getManifest", "getAttestations",
       "getFreshness", "getSubprocessorGraph"})

PresentationCalls ==
  By("GET", "owner", {"getResourceDisplay"})
  ++ By("PUT", "owner", {"updateResourceDisplay", "updateArtifactPresentation"})

DriveCalls ==
  By("GET", "owner", {"getDriveConnection", "listDriveFiles"})
  ++ By("POST", "owner", {"connectDrive", "syncDrive", "decideDriveFile",
       "excludeDriveFiles"})
  ++ By("PATCH", "owner", {"updateDriveConnection"})
  ++ By("DELETE", "owner", {"disconnectDrive"})

DriveSetupCalls ==
  By("POST", "owner", {"previewDriveRules", "driveOAuthExchange", "setDriveFolder"})
  ++ By("GET", "owner", {"driveOAuthStart", "listDriveFolders"})

OscalCalls ==
  By("GET", "none", {"getOscalCapabilities"})
  ++ By("GET", "key", {"getOscalModel", "getOscalBundle", "getOscalChanges"})
  ++ By("POST", "key", {"subscribeOscalChanges"})
  ++ By("POST", "owner", {"importOscal"})
  ++ By("POST", "none", {"validateOscal"})

(* The trust center's content, who reads it, and its documents. *)
ContentCalls == VendorCalls ++ ArtifactCalls ++ SectionCalls ++ AudienceCalls

AccessCalls == CustomDomainCalls ++ KeyCalls ++ PublicCalls ++ ReaderCalls

DocumentCalls == PresentationCalls ++ DriveCalls ++ DriveSetupCalls ++ OscalCalls

Client == ContentCalls ++ AccessCalls ++ DocumentCalls

-----------------------------------------------------------------------------
(* What becomes of a request: it is answered, it fails (the network        *)
(* refuses it with a status that is no success, or it does not arrive), or *)
(* it is carried out and its answer does not arrive.                       *)
Outcomes == {"answered", "failed", "unheard"}

Done(outcome) == outcome \in {"answered", "unheard"}
Throws(outcome) == outcome # "answered"

(* What a call leaves of a collection: PUT replaces it, POST adds to it,   *)
(* PATCH changes items of it, DELETE takes them out, GET leaves it alone.  *)
After(m, old, given, outcome) ==
  IF ~Done(outcome) THEN old
  ELSE CASE Client[m].verb = "GET" -> old
         [] Client[m].verb = "PUT" -> given
         [] Client[m].verb \in {"POST", "PATCH"} -> given ++ old
         [] Client[m].verb = "DELETE" -> [x \in DOMAIN old \ DOMAIN given |-> old[x]]
=============================================================================
