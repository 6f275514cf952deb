---------------------------- MODULE SpecRendering ----------------------------
(***************************************************************************)
(* A user edits the spec of one PrometheusCluster, field by field; the     *)
(* properties say what the objects rendered from it must agree on for a    *)
(* Prometheus pod to start, to load its configuration and to be reloaded.  *)
(* The CRD schema keeps replicas at 1 or more and a remote_write url       *)
(* non-empty; the webhook is optional, so specs it rejects occur too.      *)
(***************************************************************************)
EXTENDS PrometheusConfig, SequencesExt

CONSTANTS
    MaxReplicas,   \* replica counts a user asks for: 1 .. MaxReplicas
    Secrets,       \* names of the Secrets a spec may refer to
    MaxWrites      \* bound on the number of remote_write targets

ASSUME RenderBounds == MaxReplicas \in Nat \ {0} /\ MaxWrites \in Nat
ASSUME NoneAssumption == None # "configmap"

VARIABLE spec

Selectors == [name : Secrets \cup {None}, key : {"scrape.yml", None}]

\* Inline text is absent, a YAML list of scrape entries, or other YAML.
ScrapeSources == {None} \cup [inline : {None, "list", "scalar"},
                              secretRef : {None} \cup Selectors]

RemoteWrites == [url : {"url"}, basicAuth : Secrets \cup {None},
                 bearer : Secrets \cup {None}]

Backups == [enabled : BOOLEAN, bucket : {"bucket", None},
            schedule : {None, "daily", "bogus"}]

\* The schema defaults the name of a reference to the empty string.
Thanos == [enabled : BOOLEAN, objstore : {None} \cup [name : Secrets \cup {None}]]

\* The defaults of the CRD: one replica, nothing optional turned on.
Init == spec = [replicas |-> 1, image |-> "image",
                backup |-> [enabled |-> FALSE, bucket |-> None, schedule |-> None],
                thanos |-> [enabled |-> FALSE, objstore |-> None],
                scrape |-> None, remoteWrite |-> <<>>]

EditReplicas    == \E n \in 1..MaxReplicas : spec' = [spec EXCEPT !.replicas = n]
EditBackup      == \E b \in Backups : spec' = [spec EXCEPT !.backup = b]
EditThanos      == \E t \in Thanos : spec' = [spec EXCEPT !.thanos = t]
EditScrape      == \E x \in ScrapeSources : spec' = [spec EXCEPT !.scrape = x]
EditRemoteWrite == \E w \in BoundedSeq(RemoteWrites, MaxWrites) :
                       spec' = [spec EXCEPT !.remoteWrite = w]

Next == EditReplicas \/ EditBackup \/ EditThanos \/ EditScrape \/ EditRemoteWrite

Spec == Init /\ [][Next]_spec

----------------------------------------------------------------------------
(* Which file a container sees under a path: the deepest mount above the    *)
(* path serves it, the ConfigMap its keys and a Secret any one key.         *)

MountsOver(c, path) == {m \in c.mounts : IsPrefix(m.dir, path)}

ServedBy(c, path) == CHOOSE m \in MountsOver(c, path) :
                         \A n \in MountsOver(c, path) : Len(n.dir) <= Len(m.dir)

Readable(s, path) ==
    LET c == prometheusContainer(s)
        m == ServedBy(c, path)
        f == SubSeq(path, Len(m.dir) + 1, Len(path))
    IN  /\ MountsOver(c, path) # {}
        /\ Len(f) = 1
        /\ m.volume = "config" => f[1] \in configMapData(s).files

\* Every file that scrape_config_files names exists in the prometheus
\* container: a ConfigMap key for inline text, a key of the mounted Secret for
\* a secretRef (renderConfig and reconcileConfigMap against buildStatefulSet).
ScrapeFilesReadable ==
    validate(spec) => \A p \in renderConfig(spec).scrapeConfigFiles : Readable(spec, p)

\* Every volume a container mounts is declared in the pod spec or is the data
\* claim, whichever combination of sidecars is on, and for an admitted spec it
\* names what backs it.  The one exception is the Thanos objstore volume: the
\* webhook does not look at its reference, and {} admits a volume of no Secret.
MountsBacked ==
    LET t == podTemplate(spec) IN
    /\ \A c \in t.containers : \A m \in c.mounts :
           m.volume \in DOMAIN t.volumes \cup {"data"}
    /\ validate(spec) =>
           \A v \in DOMAIN t.volumes \ {"thanos-objstore"} : t.volumes[v] # None

\* A spec the webhook admits has each scrape source it sets loaded by
\* Prometheus: neither the inline text nor the secretRef is silently shadowed.
ScrapeSourcesUsed ==
    LET files == renderConfig(spec).scrapeConfigFiles IN
    validate(spec) =>
        /\ Inline(spec) => \E p \in files : ServedBy(prometheusContainer(spec), p).volume = "config"
        /\ SecretRef(spec) # None =>
              \E p \in files : ServedBy(prometheusContainer(spec), p).volume = "extra-scrape-secret"
        /\ spec.scrape # None => files # {}

\* external_labels with a placeholder are rendered exactly when Prometheus runs
\* with the flag that expands placeholders, and beside a Thanos sidecar with the
\* block durations the sidecar insists on.  What a placeholder expands to is not
\* said here.
ThanosLabelsExpand ==
    LET args == prometheusContainer(spec).args
        side == {c.name : c \in podTemplate(spec).containers}
    IN  /\ renderConfig(spec).externalLabels # {} <=> "expand-external-labels" \in args
        /\ "thanos-sidecar" \in side =>
              {"min-block-duration=2h", "max-block-duration=2h"} \subseteq args
                /\ renderConfig(spec).externalLabels # {}

\* README: remoteWrite "renders into prometheus.yml with basicAuth /
\* bearerToken Secret refs", so the credential files it renders should exist
\* in the container.  No volume carries them: the code violates this.
RemoteWriteAuthReadable ==
    \A i \in DOMAIN spec.remoteWrite :
        \A p \in renderConfig(spec).remoteWrite[i].auth : Readable(spec, p)
=============================================================================
