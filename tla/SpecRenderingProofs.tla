------------------------- MODULE SpecRenderingProofs -------------------------
(***************************************************************************)
(* Proofs about what is rendered from a PrometheusCluster spec, for any    *)
(* replica counts, Secret names and number of remote_write targets.        *)
(***************************************************************************)
EXTENDS SpecRendering, TLAPS

----------------------------------------------------------------------------
(* Which mounts lie over the two files that a spec may name.                *)

InlinePath    == Append(ConfigDir, "additional-scrape-configs.yml")
SecretPath(k) == Append(ExtraSecretDir, k)

\* The components that occur in them, with the key k of the Secret.
Names(k) == {"etc", "prometheus", "extra-secret", "additional-scrape-configs.yml", k}

\* One more component at the end.
LEMMA Appended ==
    ASSUME NEW S, NEW s \in Seq(S), NEW e \in S
    PROVE  /\ Append(s, e) \in Seq(S) /\ Len(Append(s, e)) = Len(s) + 1
           /\ \A i \in 1..Len(s) : Append(s, e)[i] = s[i]
           /\ Append(s, e)[Len(s) + 1] = e
  OBVIOUS

LEMMA DataDirIs ==
    ASSUME NEW k
    PROVE  <<"prometheus">> \in Seq(Names(k)) /\ Len(<<"prometheus">>) = 1
           /\ <<"prometheus">>[1] = "prometheus"
  BY DEF Names

LEMMA ConfigDirIs ==
    ASSUME NEW k
    PROVE  /\ ConfigDir \in Seq(Names(k)) /\ Len(ConfigDir) = 2
           /\ ConfigDir[1] = "etc" /\ ConfigDir[2] = "prometheus"
  BY DEF ConfigDir, Names

LEMMA ExtraSecretDirIs ==
    ASSUME NEW k
    PROVE  /\ ExtraSecretDir \in Seq(Names(k)) /\ Len(ExtraSecretDir) = 3
           /\ ExtraSecretDir[1] = "etc" /\ ExtraSecretDir[2] = "prometheus"
           /\ ExtraSecretDir[3] = "extra-secret"
  <1>1. "extra-secret" \in Names(k)
    BY DEF Names
  <1>2. /\ ExtraSecretDir \in Seq(Names(k)) /\ Len(ExtraSecretDir) = Len(ConfigDir) + 1
        /\ \A i \in 1..Len(ConfigDir) : ExtraSecretDir[i] = ConfigDir[i]
        /\ ExtraSecretDir[Len(ConfigDir) + 1] = "extra-secret"
    BY <1>1, ConfigDirIs, Appended, Zenon DEF ExtraSecretDir
  <1> QED BY <1>2, ConfigDirIs

LEMMA InlinePathIs ==
    ASSUME NEW k
    PROVE  /\ InlinePath \in Seq(Names(k)) /\ Len(InlinePath) = 3
           /\ InlinePath[1] = "etc" /\ InlinePath[2] = "prometheus"
           /\ InlinePath[3] = "additional-scrape-configs.yml"
  <1>1. "additional-scrape-configs.yml" \in Names(k)
    BY DEF Names
  <1>2. /\ InlinePath \in Seq(Names(k)) /\ Len(InlinePath) = Len(ConfigDir) + 1
        /\ \A i \in 1..Len(ConfigDir) : InlinePath[i] = ConfigDir[i]
        /\ InlinePath[Len(ConfigDir) + 1] = "additional-scrape-configs.yml"
    BY <1>1, ConfigDirIs, Appended, Zenon DEF InlinePath
  <1> QED BY <1>2, ConfigDirIs

LEMMA SecretPathIs ==
    ASSUME NEW k
    PROVE  /\ SecretPath(k) \in Seq(Names(k)) /\ Len(SecretPath(k)) = 4
           /\ SecretPath(k)[1] = "etc" /\ SecretPath(k)[2] = "prometheus"
           /\ SecretPath(k)[3] = "extra-secret" /\ SecretPath(k)[4] = k
  <1>1. k \in Names(k)
    BY DEF Names
  <1>2. /\ SecretPath(k) \in Seq(Names(k)) /\ Len(SecretPath(k)) = Len(ExtraSecretDir) + 1
        /\ \A i \in 1..Len(ExtraSecretDir) : SecretPath(k)[i] = ExtraSecretDir[i]
        /\ SecretPath(k)[Len(ExtraSecretDir) + 1] = k
    BY <1>1, ExtraSecretDirIs, Appended, SMT DEF SecretPath
  <1> QED BY <1>2, ExtraSecretDirIs

\* A prefix agrees with the path on each of its components, and conversely.
LEMMA PrefixMeaning ==
    ASSUME NEW S, NEW s \in Seq(S), NEW t \in Seq(S)
    PROVE  IsPrefix(s, t) <=> Len(s) <= Len(t) /\ \A i \in 1..Len(s) : s[i] = t[i]
  BY DEF IsPrefix

LEMMA FirstDiffers ==
    ASSUME NEW S, NEW s \in Seq(S), NEW t \in Seq(S), Len(s) = 1, s[1] # t[1]
    PROVE  ~IsPrefix(s, t)
  <1>1. 1 \in 1..Len(s)
    OBVIOUS
  <1> SUFFICES ASSUME IsPrefix(s, t) PROVE FALSE
    OBVIOUS
  <1>2. \A i \in 1..Len(s) : s[i] = t[i]
    BY DEF IsPrefix
  <1> QED BY <1>1, <1>2

\* Over the inline file lies the ConfigMap's mount alone, over a Secret's file
\* that mount and the Secret's.
LEMMA Over ==
    ASSUME NEW k
    PROVE  /\ IsPrefix(ConfigDir, InlinePath) /\ IsPrefix(ConfigDir, SecretPath(k))
           /\ ~IsPrefix(<<"prometheus">>, InlinePath)
           /\ ~IsPrefix(<<"prometheus">>, SecretPath(k))
           /\ ~IsPrefix(ExtraSecretDir, InlinePath)
           /\ IsPrefix(ExtraSecretDir, SecretPath(k))
  <1>1. IsPrefix(ConfigDir, InlinePath)
    BY ConfigDirIs, InlinePathIs, PrefixMeaning
  <1>2. IsPrefix(ConfigDir, SecretPath(k))
    BY ConfigDirIs, SecretPathIs, PrefixMeaning
  <1> DEFINE d == <<"prometheus">>
  <1>0. d \in Seq(Names(k)) /\ Len(d) = 1 /\ d[1] = "prometheus"
    BY DataDirIs
  <1> HIDE DEF d
  <1>3. ~IsPrefix(d, InlinePath)
    BY <1>0, InlinePathIs, FirstDiffers
  <1>4. ~IsPrefix(d, SecretPath(k))
    BY <1>0, SecretPathIs, FirstDiffers
  <1>5. ~IsPrefix(ExtraSecretDir, InlinePath)
    BY ExtraSecretDirIs, InlinePathIs, PrefixMeaning
  <1>6. IsPrefix(ExtraSecretDir, SecretPath(k))
    BY ExtraSecretDirIs, SecretPathIs, PrefixMeaning
  <1> QED BY <1>1, <1>2, <1>3, <1>4, <1>5, <1>6 DEF d

ConfigMount == Mount("config", ConfigDir)
SecretMount == Mount("extra-scrape-secret", ExtraSecretDir)

LEMMA Mounts ==
    /\ ConfigMount.volume = "config" /\ ConfigMount.dir = ConfigDir
    /\ SecretMount.volume = "extra-scrape-secret" /\ SecretMount.dir = ExtraSecretDir
    /\ Mount("data", <<"prometheus">>).dir = <<"prometheus">>
  BY DEF ConfigMount, SecretMount, Mount

\* The mounts of the prometheus container.
LEMMA PrometheusMounts ==
    ASSUME NEW s
    PROVE  prometheusContainer(s).mounts =
              {Mount("data", <<"prometheus">>), ConfigMount}
              \cup (IF SecretRef(s) # None THEN {SecretMount} ELSE {})
  BY DEF prometheusContainer, ConfigMount, SecretMount

\* The ConfigMap serves the inline file.
LEMMA InlineServed ==
    ASSUME NEW s
    PROVE  /\ MountsOver(prometheusContainer(s), InlinePath) = {ConfigMount}
           /\ ServedBy(prometheusContainer(s), InlinePath) = ConfigMount
  <1> DEFINE c == prometheusContainer(s)
  <1>1. MountsOver(c, InlinePath) = {ConfigMount}
    BY Mounts, PrometheusMounts, Over DEF MountsOver
  <1>2. Len(ConfigMount.dir) <= Len(ConfigMount.dir)
    BY Mounts, ConfigDirIs
  <1>3. \A m \in {ConfigMount} : m = ConfigMount
    OBVIOUS
  <1> QED BY <1>1, <1>2, <1>3 DEF ServedBy

\* The Secret serves the file of a secretRef, whatever its key: its mount is
\* the deeper of the two.
LEMMA SecretServed ==
    ASSUME NEW s, SecretRef(s) # None, NEW k
    PROVE  /\ MountsOver(prometheusContainer(s), SecretPath(k)) = {ConfigMount, SecretMount}
           /\ ServedBy(prometheusContainer(s), SecretPath(k)) = SecretMount
  <1> DEFINE c == prometheusContainer(s)
  <1>1. MountsOver(c, SecretPath(k)) = {ConfigMount, SecretMount}
    BY Mounts, PrometheusMounts, Over DEF MountsOver
  <1>2. Len(ConfigMount.dir) = 2 /\ Len(SecretMount.dir) = 3
    BY Mounts, ConfigDirIs, ExtraSecretDirIs
  <1>3. \A n \in {ConfigMount, SecretMount} : Len(n.dir) <= Len(SecretMount.dir)
    <2>1. Len(ConfigMount.dir) <= Len(SecretMount.dir) /\ Len(SecretMount.dir) <= Len(SecretMount.dir)
      BY <1>2
    <2> QED BY <2>1, Zenon
  <1>4. ~(\A n \in {ConfigMount, SecretMount} : Len(n.dir) <= Len(ConfigMount.dir))
    BY <1>2
  <1> QED BY <1>1, <1>3, <1>4 DEF ServedBy

\* What is left of a path under a directory one component shorter.
LEMMA LastComponent ==
    ASSUME NEW S, NEW t \in Seq(S), NEW n \in Nat, Len(t) = n + 1
    PROVE  /\ Len(SubSeq(t, n + 1, Len(t))) = 1
           /\ SubSeq(t, n + 1, Len(t))[1] = t[Len(t)]
  OBVIOUS

LEMMA InlineReadable ==
    ASSUME NEW s, Inline(s) PROVE Readable(s, InlinePath)
  <1> DEFINE c == prometheusContainer(s)
             f == SubSeq(InlinePath, Len(ConfigDir) + 1, Len(InlinePath))
  <1>1. MountsOver(c, InlinePath) # {} /\ ServedBy(c, InlinePath).dir = ConfigDir
    BY InlineServed, Mounts
  <1>2. Len(f) = 1 /\ f[1] = "additional-scrape-configs.yml"
    <2>1. /\ InlinePath \in Seq(Names("etc")) /\ Len(ConfigDir) \in Nat
          /\ Len(InlinePath) = Len(ConfigDir) + 1
          /\ InlinePath[Len(InlinePath)] = "additional-scrape-configs.yml"
      BY ConfigDirIs, InlinePathIs
    <2>2. Len(f) = 1 /\ f[1] = InlinePath[Len(InlinePath)]
      BY <2>1, LastComponent, Zenon
    <2> QED BY <2>1, <2>2
  <1>3. "additional-scrape-configs.yml" \in configMapData(s).files
    BY DEF configMapData
  <1> HIDE DEF f
  <1>4. f[1] \in configMapData(s).files
    BY <1>2, <1>3
  <1> QED BY <1>1, <1>2, <1>4 DEF Readable, f

LEMMA SecretReadable ==
    ASSUME NEW s, SecretRef(s) # None, NEW k PROVE Readable(s, SecretPath(k))
  <1> DEFINE c == prometheusContainer(s)
             f == SubSeq(SecretPath(k), Len(ExtraSecretDir) + 1, Len(SecretPath(k)))
  <1>1. /\ MountsOver(c, SecretPath(k)) # {}
        /\ ServedBy(c, SecretPath(k)).dir = ExtraSecretDir
        /\ ServedBy(c, SecretPath(k)).volume # "config"
    BY SecretServed, Mounts
  <1>2. Len(f) = 1
    <2>1. SecretPath(k) \in Seq(Names(k)) /\ Len(SecretPath(k)) = 4
      BY SecretPathIs, Zenon
    <2>2. Len(ExtraSecretDir) = 3
      BY ExtraSecretDirIs, Zenon
    <2>3. Len(ExtraSecretDir) \in Nat /\ Len(SecretPath(k)) = Len(ExtraSecretDir) + 1
      BY <2>1, <2>2
    <2> QED BY <2>1, <2>3, LastComponent, Zenon
  <1> HIDE DEF f
  <1> QED BY <1>1, <1>2 DEF Readable, f

\* The files that scrape_config_files names.
LEMMA ScrapeFiles ==
    ASSUME NEW s
    PROVE  /\ Inline(s) => renderConfig(s).scrapeConfigFiles = {InlinePath}
           /\ ~Inline(s) /\ SecretRef(s) # None =>
                 renderConfig(s).scrapeConfigFiles = {SecretPath(SecretRef(s).key)}
           /\ ~Inline(s) /\ SecretRef(s) = None => renderConfig(s).scrapeConfigFiles = {}
  BY DEF renderConfig, additionalScrapePath, InlinePath, SecretPath

----------------------------------------------------------------------------
(* The theorems: first of every spec, then of every edit.                   *)

LEMMA FilesReadable == ScrapeFilesReadable
  <1> DEFINE files == renderConfig(spec).scrapeConfigFiles
  <1> SUFFICES ASSUME NEW p \in files PROVE Readable(spec, p)
    BY DEF ScrapeFilesReadable
  <1>1. CASE Inline(spec)
    BY <1>1, ScrapeFiles, InlineReadable
  <1>2. CASE ~Inline(spec) /\ SecretRef(spec) # None
    BY <1>2, ScrapeFiles, SecretReadable
  <1> QED BY <1>1, <1>2, ScrapeFiles

\* Every path that renderConfig writes into scrape_config_files is a file of
\* the prometheus container that buildStatefulSet builds.
THEOREM ScrapeFilesAreReadable == Spec => []ScrapeFilesReadable
  BY FilesReadable, PTL

LEMMA SourcesUsed == ScrapeSourcesUsed
  <1> DEFINE files == renderConfig(spec).scrapeConfigFiles
             c     == prometheusContainer(spec)
  <1> SUFFICES ASSUME validate(spec)
               PROVE  /\ Inline(spec) => \E p \in files : ServedBy(c, p).volume = "config"
                      /\ SecretRef(spec) # None =>
                            \E p \in files : ServedBy(c, p).volume = "extra-scrape-secret"
                      /\ spec.scrape # None => files # {}
    BY DEF ScrapeSourcesUsed
  <1>1. CASE Inline(spec)
    <2>1. SecretRef(spec) = None
      BY <1>1 DEF validate, validScrape, Inline, SecretRef
    <2> QED BY <1>1, <2>1, ScrapeFiles, InlineServed, Mounts
  <1>2. CASE ~Inline(spec) /\ SecretRef(spec) # None
    BY <1>2, ScrapeFiles, SecretServed, Mounts
  <1>3. CASE ~Inline(spec) /\ SecretRef(spec) = None
    BY <1>3 DEF validate, validScrape, Inline, SecretRef
  <1> QED BY <1>1, <1>2, <1>3

\* Each scrape source of a spec that the webhook's validate admits is loaded
\* from the volume that carries it.
THEOREM ScrapeSourcesAreUsed == Spec => []ScrapeSourcesUsed
  BY SourcesUsed, PTL

LEMMA Backed == MountsBacked
  <1> DEFINE t == podTemplate(spec)
  <1>1. ASSUME NEW c \in t.containers, NEW m \in c.mounts
        PROVE  m.volume \in DOMAIN t.volumes \cup {"data"}
    <2>1. "config" \in DOMAIN t.volumes
      BY DEF podTemplate, volumes
    <2>2. CASE c = buildReloaderSidecar
      BY <2>1, <2>2 DEF buildReloaderSidecar, Mount
    <2>3. CASE c = prometheusContainer(spec)
      <3>1. SecretRef(spec) # None => "extra-scrape-secret" \in DOMAIN t.volumes
        BY DEF podTemplate, volumes
      <3>2. m.volume \in {"data", "config"} \/ (SecretRef(spec) # None /\ m.volume = "extra-scrape-secret")
        BY <2>3 DEF prometheusContainer, Mount
      <3> QED BY <2>1, <3>1, <3>2
    <2>4. CASE spec.thanos.enabled /\ c = buildThanosSidecar(spec.thanos)
      <3>1. spec.thanos.objstore # None => "thanos-objstore" \in DOMAIN t.volumes
        BY <2>4 DEF podTemplate, volumes
      <3>2. m.volume = "data" \/ (spec.thanos.objstore # None /\ m.volume = "thanos-objstore")
        BY <2>4 DEF buildThanosSidecar, Mount
      <3> QED BY <3>1, <3>2
    <2> QED BY <2>2, <2>3, <2>4 DEF podTemplate
  <1>2. ASSUME validate(spec), NEW v \in DOMAIN t.volumes \ {"thanos-objstore"}
        PROVE  t.volumes[v] # None
    <2>1. CASE v = "config"
      BY <2>1, NoneAssumption DEF podTemplate, volumes
    <2>2. CASE v = "extra-scrape-secret"
      <3>1. SecretRef(spec) # None
        BY <1>2, <2>2 DEF podTemplate, volumes
      <3>2. SecretRef(spec).name # None
        BY <1>2, <3>1 DEF validate, validScrape, SecretRef
      <3>3. t.volumes[v] = SecretRef(spec).name
        BY <2>2 DEF podTemplate, volumes
      <3> QED BY <3>2, <3>3
    <2> QED BY <2>1, <2>2 DEF podTemplate, volumes
  <1> QED BY <1>1, <1>2 DEF MountsBacked

\* Whichever sidecars buildStatefulSet adds, each mount has its volume, and for
\* an admitted spec each volume but the Thanos objstore names what backs it.
THEOREM MountsAreBacked == Spec => []MountsBacked
  BY Backed, PTL

LEMMA LabelsExpand == ThanosLabelsExpand
  <1> DEFINE args == prometheusContainer(spec).args
             side == {c.name : c \in podTemplate(spec).containers}
  <1>1. renderConfig(spec).externalLabels # {} <=> spec.thanos.enabled
    BY DEF renderConfig, externalLabels
  <1>2. args = prometheusArgs(spec)
    BY DEF prometheusContainer
  <1>3. spec.thanos.enabled <=> "expand-external-labels" \in prometheusArgs(spec)
    BY DEF prometheusArgs
  <1>4. spec.thanos.enabled =>
          {"min-block-duration=2h", "max-block-duration=2h"} \subseteq prometheusArgs(spec)
    BY DEF prometheusArgs
  <1>5. "thanos-sidecar" \in side => spec.thanos.enabled
    BY DEF podTemplate, buildReloaderSidecar, prometheusContainer
  <1> QED BY <1>1, <1>2, <1>3, <1>4, <1>5 DEF ThanosLabelsExpand

\* The placeholders of renderConfig's labels, the flag of the prometheus
\* container that expands placeholders and the block durations of the Thanos
\* sidecar go together, for every spec.
THEOREM LabelsAreExpanded == Spec => []ThanosLabelsExpand
  BY LabelsExpand, PTL
=============================================================================
