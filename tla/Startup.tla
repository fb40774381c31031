------------------------------ MODULE Startup ------------------------------
(***************************************************************************)
(* What the process reads when it starts, and keeps: its options (newApp   *)
(* in main.go), whether BareMetalHosts are served, the certificate in the  *)
(* Secret and the ConfigMap with the device models and the label prefix    *)
(* (StartCDIManager in pkg/manager/manager.go and what it calls in         *)
(* kube_utils, client and config), while a user creates and edits these in *)
(* any order and the process fails, stops and is started again.            *)
(*                                                                         *)
(* DriverLifecycle has the rest of a life and ResourcePoolLoop the scans;  *)
(* here a process that runs keeps running until it is stopped, or until a  *)
(* scan falls over what the start has left.                                *)
(*                                                                         *)
(* Values are told apart only by what is asked of them: an option is       *)
(* "unset", "bad" or "good", and the fields of a device model that need no *)
(* comparison are wellFormed or not.                                       *)
(*                                                                         *)
(* Bounds: a ConfigMap lists at most MaxDeviceInfos models; `upsets'       *)
(* counts the edits, failed calls and stops, from any number to MaxUpsets. *)
(***************************************************************************)
EXTENDS Integers

CONSTANTS
    DeviceInfos,        \* the entries a ConfigMap may have
    MaxDeviceInfos,
    MaxUpsets,
    None,               \* nothing yet, or nothing of the kind
    Absent              \* an object that does not exist

Values == {"unset", "bad", "good"}
Flags ==
    [args : BOOLEAN, scanInterval : Values, tenantID : Values, clusterID : Values,
     cdiEndpoint : Values, useCapiBmh : BOOLEAN, useCM : BOOLEAN]

DeviceLists == UNION {[1 .. n -> DeviceInfos] : n \in 0 .. MaxDeviceInfos}
ConfigMap == [devices : DeviceLists \cup {None}, prefix : Values]
Certificates == {"tooLong", "wrong", "right"}

(* The group version of BareMetalHosts is not served, served without them, *)
(* or served with them.                                                    *)
BmhResources == {"noGroup", "noResource", "served"}

ASSUME DeviceInfosAssumption ==
    \A d \in DeviceInfos :
        DOMAIN d = {"index", "cdiModelName", "k8sDeviceName", "driverName", "wellFormed"}
ASSUME BoundsAssumption == MaxDeviceInfos \in Nat /\ MaxUpsets \in Nat
ASSUME SentinelsAssumption ==
    /\ None # Absent
    /\ None \notin ConfigMap \cup Certificates \cup DeviceLists \cup Values
    /\ Absent \notin ConfigMap \cup Certificates

VARIABLES
    flags,             \* the options of the Deployment
    configMap, secret, \* the objects in the API server
    bmh, dra,          \* what it serves: BareMetalHosts, ResourceSlices
    upsets,
    outdated,          \* history: an object or resource has changed in this life
    step,              \* where the process is
    configMapCache, secretCache,    \* the informers' copies, None: not listed yet
    bmhInformer,       \* whether there is one
    certificate,       \* in the root CAs of the HTTP client
    deviceInfos, labelPrefix,
    controllers        \* the drivers with a slice controller

cluster == <<configMap, secret, bmh, dra>>
caches == <<configMapCache, secretCache>>
settings == <<bmhInformer, certificate, deviceInfos, labelPrefix, controllers>>
vars == <<flags, cluster, upsets, outdated, step, caches, settings>>

Steps == {"down", "flags", "kubernetes", "syncing", "client", "configuration",
          "controllers", "running"}

Init ==
    /\ flags \in Flags
    /\ configMap \in ConfigMap \cup {Absent}
    /\ secret \in Certificates \cup {Absent}
    /\ bmh \in BmhResources
    /\ dra \in BOOLEAN
    /\ upsets \in 0 .. MaxUpsets
    /\ outdated = FALSE
    /\ step = "down"
    /\ configMapCache = None
    /\ secretCache = None
    /\ bmhInformer = FALSE
    /\ certificate = None
    /\ deviceInfos = << >>
    /\ labelPrefix = None
    /\ controllers = {}

-----------------------------------------------------------------------------
(* A life ends: an error returned to main, a panic, a signal. *)
Ended ==
    /\ step' = "down"
    /\ configMapCache' = None
    /\ secretCache' = None
    /\ bmhInformer' = FALSE
    /\ certificate' = None
    /\ deviceInfos' = << >>
    /\ labelPrefix' = None
    /\ controllers' = {}

Launch ==
    /\ step = "down"
    /\ step' = "flags"
    /\ outdated' = FALSE
    /\ UNCHANGED <<flags, cluster, upsets, caches, settings>>

(* The options: Required, then Before, then the Action of every option     *)
(* that is set.                                                            *)
Required == flags.tenantID # "unset" /\ flags.cdiEndpoint # "unset"

(* Faulty variant of the next definition: no cluster id is asked for.      *)
Before_anyCluster == ~flags.args

Before == ~flags.args /\ (flags.useCM => flags.clusterID # "unset")

FlagActions ==
    /\ flags.scanInterval # "bad"
    /\ flags.tenantID # "bad"
    /\ flags.useCM => flags.clusterID # "bad"
    /\ flags.cdiEndpoint # "bad"

newApp ==
    /\ step = "flags"
    /\ \/ Required /\ Before /\ FlagActions
          /\ step' = "kubernetes" /\ UNCHANGED <<caches, settings>>
       \/ ~(Required /\ Before /\ FlagActions) /\ Ended
    /\ UNCHANGED <<flags, cluster, upsets, outdated>>

CreateKubeControllers ==
    /\ step = "kubernetes"
    /\ \/ flags.useCapiBmh /\ bmh = "noGroup" /\ Ended
       \/ /\ flags.useCapiBmh => bmh # "noGroup"
          /\ bmhInformer' = (flags.useCapiBmh /\ bmh = "served")
          /\ step' = "syncing"
          /\ UNCHANGED <<caches, certificate, deviceInfos, labelPrefix, controllers>>
    /\ UNCHANGED <<flags, cluster, upsets, outdated>>

Watching == step \notin {"down", "flags", "kubernetes"}

DeliverConfigMap ==
    /\ Watching
    /\ configMapCache # configMap
    /\ configMapCache' = configMap
    /\ UNCHANGED <<flags, cluster, upsets, outdated, step, secretCache, settings>>

DeliverSecret ==
    /\ Watching
    /\ secretCache # secret
    /\ secretCache' = secret
    /\ UNCHANGED <<flags, cluster, upsets, outdated, step, configMapCache, settings>>

(* Faulty variants of the next definition: ConfigMaps or Secrets are not   *)
(* waited for.                                                             *)
HasSynced_notConfigMaps == secretCache # None
HasSynced_notSecrets == configMapCache # None

HasSynced == configMapCache # None /\ secretCache # None

Run ==
    /\ step = "syncing"
    /\ HasSynced
    /\ step' = "client"
    /\ UNCHANGED <<flags, cluster, upsets, outdated, caches, settings>>

(* A certificate that is none is taken like any other. *)
BuildCDIClient ==
    /\ step = "client"
    /\ \/ secretCache \in {None, Absent, "tooLong"} /\ Ended
       \/ /\ secretCache \in {"wrong", "right"}
          /\ certificate' = secretCache
          /\ step' = "configuration"
          /\ UNCHANGED <<caches, bmhInformer, deviceInfos, labelPrefix, controllers>>
    /\ UNCHANGED <<flags, cluster, upsets, outdated>>

(* Entries of one list may share neither index, model nor name. *)
Clash(d, e) ==
    d.index = e.index \/ d.cdiModelName = e.cdiModelName \/ d.k8sDeviceName = e.k8sDeviceName

ValidDeviceInfos(list) ==
    /\ \A i \in DOMAIN list : list[i].wellFormed
    /\ \A i, j \in DOMAIN list : i # j => ~Clash(list[i], list[j])

(* Faulty variant of the next definition: any prefix is taken. *)
ValidConfigMap_anyPrefix(cm) == cm.devices # None /\ ValidDeviceInfos(cm.devices)

ValidConfigMap(cm) ==
    /\ cm.devices # None
    /\ ValidDeviceInfos(cm.devices)
    /\ cm.prefix = "good"

(* Without a ConfigMap there are no models and the prefix is "". *)
GetConfigMap ==
    /\ step = "configuration"
    /\ \/ /\ configMapCache \in {None, Absent}
          /\ step' = "controllers"
          /\ UNCHANGED <<caches, settings>>
       \/ /\ configMapCache \notin {None, Absent}
          /\ ValidConfigMap(configMapCache)
          /\ deviceInfos' = configMapCache.devices
          /\ labelPrefix' = configMapCache.prefix
          /\ step' = "controllers"
          /\ UNCHANGED <<caches, bmhInformer, certificate, controllers>>
       \/ /\ configMapCache \notin {None, Absent}
          /\ ~ValidConfigMap(configMapCache)
          /\ Ended
    /\ UNCHANGED <<flags, cluster, upsets, outdated>>

DriversOf(list) == {list[i].driverName : i \in DOMAIN list}

startResourceSliceController ==
    /\ step = "controllers"
    /\ \/ ~dra /\ Ended
       \/ /\ dra
          /\ controllers' = DriversOf(deviceInfos)
          /\ step' = "running"
          /\ UNCHANGED <<caches, bmhInformer, certificate, deviceInfos, labelPrefix>>
    /\ UNCHANGED <<flags, cluster, upsets, outdated>>

(* Faulty variant of the next definition: the panic is recovered from. *)
ScanPanics_recovered == FALSE

(* The first scan that finds a node asks an informer that is not there. *)
ScanPanics ==
    /\ step = "running"
    /\ flags.useCapiBmh
    /\ ~bmhInformer
    /\ Ended
    /\ UNCHANGED <<flags, cluster, upsets, outdated>>

-----------------------------------------------------------------------------
Upset ==
    /\ upsets < MaxUpsets
    /\ upsets' = upsets + 1

(* A call of the start fails, or the process is killed, evicted, told to   *)
(* stop.                                                                   *)
Stops ==
    /\ Upset
    /\ step # "down"
    /\ Ended
    /\ UNCHANGED <<flags, cluster, outdated>>

Edited ==
    /\ Upset
    /\ outdated' = TRUE
    /\ UNCHANGED <<flags, step, caches, settings>>

ConfigMapChanges ==
    /\ Edited
    /\ configMap' \in (ConfigMap \cup {Absent}) \ {configMap}
    /\ UNCHANGED <<secret, bmh, dra>>

SecretChanges ==
    /\ Edited
    /\ secret' \in (Certificates \cup {Absent}) \ {secret}
    /\ UNCHANGED <<configMap, bmh, dra>>

ResourcesChange ==
    /\ Edited
    /\ \/ bmh' \in BmhResources \ {bmh} /\ UNCHANGED dra
       \/ dra' = ~dra /\ UNCHANGED bmh
    /\ UNCHANGED <<configMap, secret>>

-----------------------------------------------------------------------------
ProcessStep ==
    \/ Launch
    \/ newApp
    \/ CreateKubeControllers
    \/ Run
    \/ BuildCDIClient
    \/ GetConfigMap
    \/ startResourceSliceController
    \/ ScanPanics

Next ==
    \/ ProcessStep
    \/ DeliverConfigMap
    \/ DeliverSecret
    \/ Stops
    \/ ConfigMapChanges
    \/ SecretChanges
    \/ ResourcesChange

(* The kubelet starts the container again, the start goes on, and watches  *)
(* deliver; edits and stops are never owed.                                *)
Fairness == WF_vars(ProcessStep) /\ WF_vars(DeliverConfigMap) /\ WF_vars(DeliverSecret)

Spec == Init /\ [][Next]_vars /\ Fairness

-----------------------------------------------------------------------------
(* Properties. *)

(* Every variable has its type. *)
TypeOK ==
    /\ flags \in Flags
    /\ configMap \in ConfigMap \cup {Absent}
    /\ secret \in Certificates \cup {Absent}
    /\ bmh \in BmhResources
    /\ dra \in BOOLEAN
    /\ upsets \in 0 .. MaxUpsets
    /\ outdated \in BOOLEAN
    /\ step \in Steps
    /\ configMapCache \in ConfigMap \cup {Absent, None}
    /\ secretCache \in Certificates \cup {Absent, None}
    /\ bmhInformer \in BOOLEAN
    /\ certificate \in {None, "wrong", "right"}
    /\ deviceInfos \in DeviceLists
    /\ labelPrefix \in {None, "good"}
    /\ controllers = IF step = "running" THEN DriversOf(deviceInfos) ELSE {}

ValidFlags ==
    /\ ~flags.args
    /\ flags.scanInterval \in {"unset", "good"}
    /\ flags.tenantID = "good"
    /\ flags.cdiEndpoint = "good"
    /\ flags.useCM => flags.clusterID = "good"

(* What the scans rely on and never check again: whichever of the three    *)
(* stages an option is or is not caught by, and whatever was edited while  *)
(* the process started, it scans only with sound options and with models   *)
(* that can be told apart by name, so that no two share a pool.            *)
SoundSettings ==
    step = "running" =>
        /\ ValidFlags
        /\ \A i, j \in DOMAIN deviceInfos : i # j =>
              deviceInfos[i].k8sDeviceName # deviceInfos[j].k8sDeviceName

Uses(cm) ==
    IF cm = Absent THEN deviceInfos = << >> /\ labelPrefix = None
    ELSE deviceInfos = cm.devices /\ labelPrefix = cm.prefix

(* The settings are read once, from caches (Run in kube_utils.go waits for *)
(* them): a process that nothing was edited under runs with the ConfigMap, *)
(* certificate and informers of the cluster, never with less because its   *)
(* caches were still empty.                                                *)
RunsAsConfigured ==
    step = "running" /\ ~outdated =>
        /\ Uses(configMap)
        /\ certificate = secret
        /\ bmhInformer = (flags.useCapiBmh /\ bmh = "served")

(* All that the process needs is there. *)
Ready ==
    /\ ValidFlags
    /\ configMap # Absent /\ ValidConfigMap(configMap)
    /\ secret = "right"
    /\ dra
    /\ flags.useCapiBmh => bmh = "served"

(* A life ends for a cause: a failed call, a stop, an edit under it, or    *)
(* something that is not in place.  No order in which informers, caches    *)
(* and goroutines get to work makes a start or a scan fall over by itself. *)
EndsForCause ==
    [][step # "down" /\ step' = "down" => upsets' # upsets \/ outdated \/ ~Ready]_vars

(* A restart cures: when all is in place for good, a process runs and goes *)
(* on running, with the informers it needs, and it uses what is in place   *)
(* unless that was edited under it; whatever the starts before failed of,  *)
(* and whichever options were left out that are not needed.                *)
EventuallyRuns ==
    <>[](Ready => /\ step = "running"
                  /\ bmhInformer = flags.useCapiBmh
                  /\ outdated \/ Uses(configMap))
=============================================================================
