-------------------------- MODULE PrometheusConfig --------------------------
(***************************************************************************)
(* What the reconciler renders from a PrometheusCluster spec: the data of  *)
(* the <name>-config ConfigMap (renderConfig, reconcileConfigMap) and the  *)
(* pod template of the StatefulSet (buildStatefulSet and the two sidecar   *)
(* builders), together with the admission webhook's rules (validate).      *)
(* The operators are pure: SpecRendering checks them over all specs, and   *)
(* ClusterReconciler reconciles towards them.                              *)
(*                                                                         *)
(* A file path is the sequence of its components, a volume the name of     *)
(* what backs it, and the text of prometheus.yml the record of the blocks  *)
(* it is made of.  Resources, retention, probes, ports and storage reach   *)
(* the template unchanged; the field image stands for all of them.         *)
(***************************************************************************)
EXTENDS Naturals, Sequences

CONSTANT None     \* a nil reference or an empty string

----------------------------------------------------------------------------
(* The generated prometheus.yml and the ConfigMap that carries it.          *)

ConfigDir      == <<"etc", "prometheus">>
ExtraSecretDir == Append(ConfigDir, "extra-secret")
AuthDir(name)  == ConfigDir \o <<"secrets", name>>

Inline(s)    == s.scrape # None /\ s.scrape.inline # None
SecretRef(s) == IF s.scrape = None THEN None ELSE s.scrape.secretRef

\* The file scrape_config_files names, as a set of at most one path.
additionalScrapePath(s) ==
    IF Inline(s) THEN {Append(ConfigDir, "additional-scrape-configs.yml")}
    ELSE IF SecretRef(s) # None THEN {Append(ExtraSecretDir, SecretRef(s).key)}
    ELSE {}

AuthFiles(rw) ==
    {Append(AuthDir(n), f) : n \in {rw.basicAuth} \ {None},
                             f \in {"username", "password"}}
    \cup {Append(AuthDir(n), "token") : n \in {rw.bearer} \ {None}}

\* The placeholders of external_labels, each by the name between its braces:
\* replica: ${POD_NAME:-unknown}.
externalLabels(s) == IF s.thanos.enabled THEN {"POD_NAME:-unknown"} ELSE {}

renderConfig(s) ==
    [externalLabels    |-> externalLabels(s),
     scrapeConfigFiles |-> additionalScrapePath(s),
     remoteWrite       |-> [i \in DOMAIN s.remoteWrite |->
                              [url  |-> s.remoteWrite[i].url,
                               auth |-> AuthFiles(s.remoteWrite[i])]]]

\* Mistake: the branch that stores the inline list is missing.
configMapDataNoInline(s) ==
    [yml |-> renderConfig(s), files |-> {"prometheus.yml"}, wrapped |-> None]

\* cm.Data: prometheus.yml always, the wrapped inline list when there is one.
configMapData(s) ==
    [yml   |-> renderConfig(s),
     files |-> {"prometheus.yml"}
               \cup (IF Inline(s) THEN {"additional-scrape-configs.yml"} ELSE {}),
     wrapped |-> IF Inline(s) THEN s.scrape.inline ELSE None]

----------------------------------------------------------------------------
(* The pod template.  A mount names a volume and the directory it appears   *)
(* under; "data" is the volume claim template of the StatefulSet.           *)

Mount(volume, dir) == [volume |-> volume, dir |-> dir]

buildReloaderSidecar ==
    [name |-> "config-reloader", args |-> {"volume-dir"},
     mounts |-> {Mount("config", ConfigDir)}]

\* objstore is a pointer; the name of the Secret it refers to may be empty.
buildThanosSidecar(t) ==
    [name   |-> "thanos-sidecar",
     args   |-> {"sidecar"} \cup
                (IF t.objstore # None THEN {"objstore.config-file"} ELSE {}),
     mounts |-> {Mount("data", <<"prometheus">>)} \cup
                (IF t.objstore # None
                 THEN {Mount("thanos-objstore", <<"etc", "thanos", "objstore">>)}
                 ELSE {})]

\* Mistake: the Thanos arguments hang on the objstore Secret, not on enabled.
prometheusArgsNoObjstore(s) ==
    {"config.file", "web.enable-lifecycle"}
    \cup (IF s.backup.enabled THEN {"web.enable-admin-api"} ELSE {})
    \cup (IF s.thanos.objstore # None
          THEN {"min-block-duration=2h", "max-block-duration=2h",
                "expand-external-labels"} ELSE {})

prometheusArgs(s) ==
    {"config.file", "web.enable-lifecycle"}
    \cup (IF s.backup.enabled THEN {"web.enable-admin-api"} ELSE {})
    \cup (IF s.thanos.enabled
          THEN {"min-block-duration=2h", "max-block-duration=2h",
                "expand-external-labels"} ELSE {})

prometheusContainer(s) ==
    [name   |-> "prometheus", args |-> prometheusArgs(s),
     mounts |-> {Mount("data", <<"prometheus">>), Mount("config", ConfigDir)}
                \cup (IF SecretRef(s) # None
                      THEN {Mount("extra-scrape-secret", ExtraSecretDir)} ELSE {})]

\* Mistake: the sidecar's objstore volume is built but never appended.
volumesNoObjstore(s) ==
    [v \in {"config"} \cup (IF SecretRef(s) # None THEN {"extra-scrape-secret"} ELSE {})
       |-> IF v = "config" THEN "configmap" ELSE SecretRef(s).name]

\* What backs each volume of the pod: the ConfigMap, or a Secret by name, None
\* when the reference has no name.
volumes(s) ==
    [v \in {"config"}
        \cup (IF s.thanos.enabled /\ s.thanos.objstore # None
              THEN {"thanos-objstore"} ELSE {})
        \cup (IF SecretRef(s) # None THEN {"extra-scrape-secret"} ELSE {})
       |-> CASE v = "config"              -> "configmap"
             [] v = "thanos-objstore"     -> s.thanos.objstore.name
             [] v = "extra-scrape-secret" -> SecretRef(s).name]

podTemplate(s) ==
    [image      |-> s.image,
     containers |-> {buildReloaderSidecar, prometheusContainer(s)}
                    \cup (IF s.thanos.enabled THEN {buildThanosSidecar(s.thanos)} ELSE {}),
     volumes    |-> volumes(s)]

\* The parts of the desired StatefulSet that a reconcile compares and writes.
buildStatefulSet(s) == [replicas |-> s.replicas, template |-> podTemplate(s)]

----------------------------------------------------------------------------
(* The admission webhook.                                                   *)

validBackup(b) == b.enabled => b.bucket # None /\ b.schedule # "bogus"

\* Mistake: inline text and a secretRef are accepted together.
validScrapeBoth(asc) ==
    asc = None \/
      IF asc.inline # None
      THEN asc.inline # "scalar"
      ELSE asc.secretRef # None /\ asc.secretRef.name # None /\ asc.secretRef.key # None

validScrape(asc) ==
    asc = None \/
      IF asc.inline # None
      THEN asc.secretRef = None /\ asc.inline # "scalar"
      ELSE asc.secretRef # None /\ asc.secretRef.name # None /\ asc.secretRef.key # None

validate(s) ==
    /\ s.replicas >= 1
    /\ validBackup(s.backup)
    /\ \A i \in DOMAIN s.remoteWrite : s.remoteWrite[i].url # None
    /\ validScrape(s.scrape)
=============================================================================
