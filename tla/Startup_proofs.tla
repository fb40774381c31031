--------------------------- MODULE Startup_proofs ---------------------------
(***************************************************************************)
(* Theorems about Startup, for any entries of ConfigMaps, lists of any     *)
(* length and any number of upsets.                                        *)
(*                                                                         *)
(* SoundSettings and RunsAsConfigured speak of a process that runs, whose  *)
(* settings were made by steps long over.  IInv adds what each step leaves *)
(* to those after it: the options are checked after "flags", the informers *)
(* decided after "kubernetes", the caches filled after "syncing", and so   *)
(* on; and that a copy which is not the object itself makes the life       *)
(* outdated.                                                               *)
(***************************************************************************)
EXTENDS Startup, TLAPS

Synced == step \in {"client", "configuration", "controllers", "running"}
Connected == step \in {"configuration", "controllers", "running"}
Configured == step \in {"controllers", "running"}

CachesTrue ==
    /\ ~Watching => configMapCache = None /\ secretCache = None
    /\ Synced => configMapCache # None /\ secretCache # None
    /\ ~outdated => configMapCache \in {None, configMap} /\ secretCache \in {None, secret}

SettingsTrue ==
    /\ step \notin {"down", "flags"} => ValidFlags
    /\ Watching /\ ~outdated => bmhInformer = (flags.useCapiBmh /\ bmh = "served")
    /\ Connected /\ ~outdated => certificate = secret
    /\ ~Configured => deviceInfos = << >> /\ labelPrefix = None
    /\ Configured => ValidDeviceInfos(deviceInfos)
    /\ Configured /\ ~outdated => Uses(configMap)

IInv == TypeOK /\ CachesTrue /\ SettingsTrue

USE DEF Values, BmhResources, Certificates, Steps, Synced, Connected, Configured, Watching

-----------------------------------------------------------------------------
(* The list without entries is a list, and a sound one. *)
LEMMA EmptyList == << >> \in DeviceLists /\ ValidDeviceInfos(<< >>) /\ DriversOf(<< >>) = {}
<1>1. << >> \in [1 .. 0 -> DeviceInfos] /\ DOMAIN << >> = {}
    OBVIOUS
<1>2. 0 \in 0 .. MaxDeviceInfos
    BY BoundsAssumption
<1>. QED BY <1>1, <1>2 DEF DeviceLists, ValidDeviceInfos, DriversOf

LEMMA InitIInv == Init => IInv
<1> SUFFICES ASSUME Init PROVE IInv
    OBVIOUS
<1>1. TypeOK
    <2>1. dra \in BOOLEAN /\ outdated \in BOOLEAN /\ bmhInformer \in BOOLEAN
        BY Zenon DEF Init
    <2>. QED BY <2>1, EmptyList, BoundsAssumption DEF Init, TypeOK
<1>2. CachesTrue
    BY DEF Init, CachesTrue
<1>3. SettingsTrue
    BY DEF Init, SettingsTrue
<1>. QED BY <1>1, <1>2, <1>3 DEF IInv

(* The end of a life keeps the invariant: nothing is left to be wrong. *)
LEMMA EndedIInv ==
    ASSUME IInv, Ended, UNCHANGED <<flags, cluster>>,
           upsets' \in 0 .. MaxUpsets, outdated' \in BOOLEAN
    PROVE  IInv'
<1>1. TypeOK'
    BY EmptyList DEF IInv, TypeOK, Ended, cluster
<1>2. CachesTrue'
    BY DEF CachesTrue, Ended
<1>3. SettingsTrue'
    BY DEF SettingsTrue, Ended
<1>. QED BY <1>1, <1>2, <1>3 DEF IInv

LEMMA LaunchIInv == ASSUME IInv, Launch PROVE IInv'
BY DEF IInv, TypeOK, CachesTrue, SettingsTrue, Launch, cluster, caches, settings

LEMMA NewAppIInv == ASSUME IInv, newApp PROVE IInv'
<1>1. CASE Ended
    BY <1>1, EndedIInv DEF newApp, IInv, TypeOK
<1>2. CASE /\ Required /\ Before /\ FlagActions
           /\ step' = "kubernetes" /\ UNCHANGED <<caches, settings>>
    <2>1. ValidFlags
        BY <1>2 DEF Required, Before, FlagActions, ValidFlags, IInv, TypeOK, Flags
    <2>. QED BY <1>2, <2>1 DEF newApp, IInv, TypeOK, CachesTrue, SettingsTrue, ValidFlags,
                                cluster, caches, settings, Uses
<1>. QED BY <1>1, <1>2 DEF newApp

LEMMA CreateKubeControllersIInv == ASSUME IInv, CreateKubeControllers PROVE IInv'
<1>1. CASE Ended
    BY <1>1, EndedIInv DEF CreateKubeControllers, IInv, TypeOK
<1>2. CASE step' = "syncing"
    BY <1>2 DEF CreateKubeControllers, Ended, IInv, TypeOK, CachesTrue, SettingsTrue,
                ValidFlags, cluster, caches, Flags
<1>. QED BY <1>1, <1>2 DEF CreateKubeControllers

LEMMA DeliverIInv == ASSUME IInv, DeliverConfigMap \/ DeliverSecret PROVE IInv'
BY SentinelsAssumption
   DEF DeliverConfigMap, DeliverSecret, IInv, TypeOK, CachesTrue, SettingsTrue, ValidFlags, Uses,
       cluster, settings

LEMMA RunIInv == ASSUME IInv, Run PROVE IInv'
BY DEF Run, HasSynced, IInv, TypeOK, CachesTrue, SettingsTrue, ValidFlags, Uses,
       cluster, caches, settings

LEMMA BuildCDIClientIInv == ASSUME IInv, BuildCDIClient PROVE IInv'
<1>1. CASE Ended
    BY <1>1, EndedIInv DEF BuildCDIClient, IInv, TypeOK
<1>2. CASE step' = "configuration"
    BY <1>2 DEF BuildCDIClient, Ended, IInv, TypeOK, CachesTrue, SettingsTrue, ValidFlags,
                cluster, caches
<1>. QED BY <1>1, <1>2 DEF BuildCDIClient

LEMMA GetConfigMapIInv == ASSUME IInv, GetConfigMap PROVE IInv'
<1>1. CASE Ended
    BY <1>1, EndedIInv DEF GetConfigMap, IInv, TypeOK
<1>2. CASE /\ configMapCache \in {None, Absent}
           /\ step' = "controllers"
           /\ UNCHANGED <<caches, settings>>
    BY <1>2, EmptyList, SentinelsAssumption
       DEF GetConfigMap, IInv, TypeOK, CachesTrue, SettingsTrue, ValidFlags, Uses,
           cluster, caches, settings
<1>3. CASE /\ configMapCache \notin {None, Absent}
           /\ ValidConfigMap(configMapCache)
           /\ deviceInfos' = configMapCache.devices
           /\ labelPrefix' = configMapCache.prefix
           /\ step' = "controllers"
           /\ UNCHANGED <<caches, bmhInformer, certificate, controllers>>
    <2>1. /\ deviceInfos' \in DeviceLists
          /\ labelPrefix' = "good"
          /\ ValidDeviceInfos(deviceInfos')
        BY <1>3 DEF ValidConfigMap, IInv, TypeOK, ConfigMap
    <2>2. ~outdated => configMapCache = configMap
        BY <1>3 DEF IInv, CachesTrue
    <2>3. TypeOK'
        BY <1>3, <2>1 DEF GetConfigMap, IInv, TypeOK, cluster, caches
    <2>4. CachesTrue'
        BY <1>3 DEF GetConfigMap, IInv, CachesTrue, cluster, caches
    <2>5. SettingsTrue'
        BY <1>3, <2>1, <2>2
           DEF GetConfigMap, IInv, SettingsTrue, ValidFlags, Uses, cluster, caches
    <2>. QED BY <2>3, <2>4, <2>5 DEF IInv
<1>. QED BY <1>1, <1>2, <1>3 DEF GetConfigMap

LEMMA ControllersIInv == ASSUME IInv, startResourceSliceController PROVE IInv'
<1>1. CASE Ended
    BY <1>1, EndedIInv DEF startResourceSliceController, IInv, TypeOK
<1>2. CASE step' = "running"
    BY <1>2 DEF startResourceSliceController, Ended, IInv, TypeOK, CachesTrue, SettingsTrue,
                ValidFlags, Uses, cluster, caches
<1>. QED BY <1>1, <1>2 DEF startResourceSliceController

LEMMA ScanPanicsIInv == ASSUME IInv, ScanPanics PROVE IInv'
BY EndedIInv DEF ScanPanics, IInv, TypeOK

LEMMA StopsIInv == ASSUME IInv, Stops PROVE IInv'
<1>1. upsets' \in 0 .. MaxUpsets
    BY BoundsAssumption DEF Stops, Upset, IInv, TypeOK
<1>. QED BY <1>1, EndedIInv DEF Stops, IInv, TypeOK

(* An edit makes the life outdated; what it was built from stays sound. *)
LEMMA EditedIInv ==
    ASSUME IInv, ConfigMapChanges \/ SecretChanges \/ ResourcesChange
    PROVE  IInv'
<1>1. /\ upsets' \in 0 .. MaxUpsets
      /\ outdated' = TRUE
      /\ UNCHANGED <<flags, step, caches, settings>>
    BY BoundsAssumption
       DEF ConfigMapChanges, SecretChanges, ResourcesChange, Edited, Upset, IInv, TypeOK
<1>2. /\ configMap' \in ConfigMap \cup {Absent}
      /\ secret' \in Certificates \cup {Absent}
      /\ bmh' \in BmhResources
      /\ dra' \in BOOLEAN
    BY DEF ConfigMapChanges, SecretChanges, ResourcesChange, IInv, TypeOK
<1>. QED BY <1>1, <1>2 DEF IInv, TypeOK, CachesTrue, SettingsTrue, ValidFlags, caches, settings

LEMMA StutterIInv == ASSUME IInv, UNCHANGED vars PROVE IInv'
BY DEF vars, cluster, caches, settings, IInv, TypeOK, CachesTrue, SettingsTrue, ValidFlags, Uses

LEMMA NextIInv == ASSUME IInv, [Next]_vars PROVE IInv'
BY LaunchIInv, NewAppIInv, CreateKubeControllersIInv, DeliverIInv, RunIInv, BuildCDIClientIInv,
   GetConfigMapIInv, ControllersIInv, ScanPanicsIInv, StopsIInv, EditedIInv, StutterIInv
   DEF Next, ProcessStep

-----------------------------------------------------------------------------
(* The inductive invariant holds in every state. *)
THEOREM Invariance == Spec => []IInv
BY InitIInv, NextIInv, PTL DEF Spec

(* Every variable has its type. *)
THEOREM SettingsTypeCorrect == Spec => []TypeOK
<1>1. IInv => TypeOK
    BY DEF IInv
<1>. QED BY <1>1, Invariance, PTL

(* A process scans only with sound options and models that can be told     *)
(* apart (newApp in main.go, GetDeviceInfos in config.go).                 *)
THEOREM OnlySoundSettings == Spec => []SoundSettings
<1>1. IInv => SoundSettings
    BY DEF IInv, SettingsTrue, SoundSettings, ValidDeviceInfos, Clash
<1>. QED BY <1>1, Invariance, PTL

(* A process that nothing was edited under runs as the cluster says (Run   *)
(* in kube_utils.go waits for the caches StartCDIManager reads).           *)
THEOREM RunsAsTheClusterSays == Spec => []RunsAsConfigured
<1>1. IInv => RunsAsConfigured
    BY DEF IInv, SettingsTrue, RunsAsConfigured
<1>. QED BY <1>1, Invariance, PTL

(* A start that finds all in place does not fail, and no scan falls over   *)
(* what it left, unless something was edited in between (Run in            *)
(* kube_utils.go, BuildCDIClient, GetConfigMap).                           *)
THEOREM LivesEndForCause == Spec => EndsForCause
<1> DEFINE Cause == step # "down" /\ step' = "down" =>
                      upsets' # upsets \/ outdated \/ ~Ready
<1>1. ASSUME IInv, Next, step # "down", step' = "down", ~outdated, Ready
      PROVE  upsets' # upsets
    <2>1. CASE newApp
        BY <1>1, <2>1 DEF newApp, Ready, ValidFlags, Required, Before, FlagActions, Flags
    <2>2. CASE CreateKubeControllers
        BY <1>1, <2>2 DEF CreateKubeControllers, Ready
    <2>3. CASE BuildCDIClient
        BY <1>1, <2>3, SentinelsAssumption DEF BuildCDIClient, Ready, IInv, CachesTrue
    <2>4. CASE GetConfigMap
        BY <1>1, <2>4 DEF GetConfigMap, Ready, IInv, CachesTrue
    <2>5. CASE startResourceSliceController
        BY <1>1, <2>5 DEF startResourceSliceController, Ready
    <2>6. CASE ScanPanics
        BY <1>1, <2>6 DEF ScanPanics, Ready, IInv, SettingsTrue
    <2>7. CASE Stops
        BY <2>7, BoundsAssumption, <1>1 DEF Stops, Upset, IInv, TypeOK
    <2>8. CASE \/ Launch \/ Run \/ DeliverConfigMap \/ DeliverSecret
               \/ ConfigMapChanges \/ SecretChanges \/ ResourcesChange
        BY <1>1, <2>8 DEF Launch, Run, DeliverConfigMap, DeliverSecret, ConfigMapChanges,
                         SecretChanges, ResourcesChange, Edited
    <2>. QED BY <1>1, <2>1, <2>2, <2>3, <2>4, <2>5, <2>6, <2>7, <2>8 DEF Next, ProcessStep
<1>2. IInv /\ [Next]_vars => [Cause]_vars
    BY <1>1
<1>. QED BY <1>2, Invariance, PTL DEF Spec, EndsForCause
=============================================================================
