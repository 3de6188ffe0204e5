---------------------------- MODULE InstallDoctor ---------------------------
(***************************************************************************)
(* install_doctor.py and install_doctor_io.py: is what is installed the    *)
(* version that the source names?  Everything is read piece by piece while *)
(* the harness installs, the user reconfigures and build-targets.py        *)
(* writes; the plugin store is found once, and read through a descriptor.  *)
(* The files of the source are those that BuildTargets generates.          *)
(***************************************************************************)
EXTENDS BuildTargets

CONSTANTS
  Homes,         \* what config.toml may say
  Installs,      \* what a plugin store may contain
  Stores,        \* the directories that may be the plugin store
  Marketplace,   \* the path of the marketplace that the doctor reads,
  Manifest,      \* and that of the source's manifest
  Alien,         \* the version of a manifest of another plugin
  NoSnapshot     \* no snapshot

(***************************************************************************)
(* There is a store, and each has finitely many version directories.       *)
(***************************************************************************)
ASSUME StoresAssumption == Stores # {}

ASSUME InstallsAssumption ==
  \A x \in Installs :
    /\ IsFiniteSet(DOMAIN x.cache)
    /\ \A d \in DOMAIN x.cache :
         x.cache[d].hooks \in {"undeclared", "missing", "torn", "unsupported", "fine"}

VARIABLES
  config,    \* config.toml
  stores,    \* the directories, as they are
  named,     \* which of them HOME/plugins leads to, and the identity of the link
  saved,     \* the snapshot file
  dpc,       \* where the doctor is
  asked,     \* its options
  seen,      \* config.toml, as it was read
  link,      \* HOME/plugins, as it was when it was resolved
  pinned,    \* the store whose descriptor is open
  picked,    \* the version directory
  installed, \* the manifest in it
  origins,   \* all that was read
  found,     \* the observations
  drc,       \* the exit code
  ending,    \* history: the store that HOME/plugins led to at the last check
  still      \* history: nothing was changed, and no read failed, since it began

worldVars == << config, stores, named >>
doctorVars == << saved, dpc, asked, seen, link, pinned, picked, installed, origins, found, drc, ending, still >>

(***************************************************************************)
(* config.toml, a store, and a version directory in it: its manifest and   *)
(* its hook manifest.                                                      *)
(***************************************************************************)
Home(type, checkout) == [type |-> type, checkout |-> checkout]
Store(safe, cache) == [safe |-> safe, cache |-> cache]
Plugin(version, hooks) == [version |-> version, hooks |-> hooks]
Options(parser, snapshot, capture, given) ==
  [parser |-> parser, snapshot |-> snapshot, capture |-> capture, given |-> given]

Bad(version) == version \in {Missing, Torn, Alien}

Seen(kind, what) == [kind |-> kind, what |-> what]
Observation(code, layer) == [rc |-> code, layer |-> layer]

DoctorInit ==
  /\ saved = NoSnapshot /\ dpc = "idle"
  /\ asked = Options(TRUE, FALSE, FALSE, Missing)
  /\ seen = Broken /\ link = 0 /\ pinned = Missing /\ picked = Missing /\ installed = Missing
  /\ origins = {} /\ found = {} /\ drc = 0 /\ ending = Missing /\ still = FALSE

-----------------------------------------------------------------------------
Goto(phase) == dpc' = phase

(***************************************************************************)
(* Confirmed defects outrank unknown evidence, which outranks a match.     *)
(***************************************************************************)
WorstCode(observations) ==  \* variant: what is unknown outranks what is confirmed
  IF \E o \in observations : o.rc = 2 THEN 2 ELSE IF \E o \in observations : o.rc = 1 THEN 1 ELSE 0

Decision(observations) ==
  IF \E o \in observations : o.rc = 1 THEN 1 ELSE IF \E o \in observations : o.rc = 2 THEN 2 ELSE 0

(***************************************************************************)
(* An error outside the layers that are collected ends the diagnosis.      *)
(***************************************************************************)
Conclude(observations) ==
  /\ found' = observations /\ drc' = Decision(observations)
  /\ dpc' = "done"

Stop(code, layer) == Conclude(found \cup {Observation(code, layer)})

(***************************************************************************)
(* A read that takes too long, or fails, is unknown evidence.              *)
(***************************************************************************)
GiveUp ==
  /\ "slow" \in Faults
  /\ dpc \in {"config", "store", "snapshot", "installation", "verify", "capture", "reverify"}
  /\ Stop(2, dpc)
  /\ still' = FALSE
  /\ UNCHANGED << source, out, buildVars, worldVars, saved, asked, seen, link, pinned, picked, installed, origins, ending >>

StartDoctor(options) ==
  /\ dpc \in {"idle", "done"}
  /\ asked' = options /\ Goto("config") /\ still' = TRUE
  /\ seen' = Broken /\ link' = 0 /\ pinned' = Missing /\ picked' = Missing /\ installed' = Missing
  /\ origins' = {} /\ found' = {} /\ drc' = 0 /\ ending' = Missing
  /\ UNCHANGED << source, out, buildVars, worldVars, saved >>

(***************************************************************************)
(* load_config: without a TOML parser, only a snapshot helps.              *)
(***************************************************************************)
ReadConfig ==
  /\ dpc = "config"
  /\ \/ /\ config = Broken \/ (~asked.parser /\ ~asked.snapshot)
        /\ Stop(2, "config")
        /\ UNCHANGED << seen, origins >>
     \/ /\ config # Broken /\ (asked.parser \/ asked.snapshot)
        /\ seen' = config /\ origins' = {Seen("config", config)}
        /\ Goto("store") /\ UNCHANGED << found, drc >>
  /\ UNCHANGED << source, out, buildVars, worldVars, saved, asked, link, pinned, picked, installed, ending, still >>

(***************************************************************************)
(* bind_store: the link is looked at, resolved, and looked at again.       *)
(***************************************************************************)
LookAtLink ==
  /\ dpc = "store" /\ link = 0
  /\ link' = named.link
  /\ UNCHANGED << source, out, buildVars, worldVars, saved, dpc, asked, seen, pinned, picked, installed, origins, found, drc, ending, still >>

Pin ==
  /\ dpc = "store" /\ link # 0
  /\ \/ /\ named.link # link
        /\ Stop(2, "store") /\ UNCHANGED << pinned, origins >>
     \/ /\ named.link = link /\ ~stores[named.store].safe
        /\ Stop(1, "store") /\ UNCHANGED << pinned, origins >>
     \/ /\ named.link = link /\ stores[named.store].safe
        /\ pinned' = named.store
        /\ origins' = origins \cup {Seen("plugin_store", named)}
        /\ Goto(IF asked.snapshot THEN "snapshot" ELSE "installation")
        /\ UNCHANGED << found, drc >>
  /\ UNCHANGED << source, out, buildVars, worldVars, saved, asked, seen, link, picked, installed, ending, still >>

(***************************************************************************)
(* snapshot_config: the snapshot must be of this config.toml, and of this  *)
(* store.                                                                  *)
(***************************************************************************)
Fits ==
  /\ saved # NoSnapshot
  /\ {Seen("config", seen), Seen("plugin_store", [store |-> pinned, link |-> link])} \subseteq saved

LoadSnapshot ==
  /\ dpc = "snapshot"
  /\ IF Fits THEN Goto("installation") /\ UNCHANGED << found, drc >> ELSE Stop(2, "config")
  /\ UNCHANGED << source, out, buildVars, worldVars, saved, asked, seen, link, pinned, picked, installed, origins, ending, still >>

-----------------------------------------------------------------------------
(***************************************************************************)
(* Every read of the store goes through its descriptor, and first looks    *)
(* whether it has become writable by others.                               *)
(***************************************************************************)
Safe == stores[pinned].safe
Cache == stores[pinned].cache

Endangered ==
  /\ dpc = "installation" /\ ~Safe
  /\ Stop(1, "installation")
  /\ UNCHANGED << source, out, buildVars, worldVars, saved, asked, seen, link, pinned, picked, installed, origins, ending, still >>

(***************************************************************************)
(* installed_root.                                                         *)
(***************************************************************************)
Locate ==
  /\ dpc = "installation" /\ Safe /\ picked = Missing
  /\ \/ /\ asked.given = Missing /\ Cardinality(DOMAIN Cache) # 1
        /\ Stop(IF DOMAIN Cache = {} THEN 1 ELSE 2, "installation") /\ UNCHANGED picked
     \/ /\ asked.given # Missing /\ asked.given \notin DOMAIN Cache
        /\ Stop(2, "installation") /\ UNCHANGED picked
     \/ /\ picked' \in IF asked.given = Missing THEN DOMAIN Cache ELSE DOMAIN Cache \cap {asked.given}
        /\ asked.given = Missing => Cardinality(DOMAIN Cache) = 1
        /\ UNCHANGED << dpc, found, drc >>
  /\ UNCHANGED << source, out, buildVars, worldVars, saved, asked, seen, link, pinned, installed, origins, ending, still >>

(***************************************************************************)
(* manifest, of the installed plugin.                                      *)
(***************************************************************************)
ReadInstalled ==
  /\ dpc = "installation" /\ Safe /\ picked # Missing
  /\ \/ /\ picked \in DOMAIN Cache => Bad(Cache[picked].version)
        /\ Stop(1, "installation") /\ UNCHANGED << installed, origins >>
     \/ /\ picked \in DOMAIN Cache /\ ~Bad(Cache[picked].version)
        /\ installed' = Cache[picked]
        /\ origins' = origins \cup {Seen("plugin_manifest", << picked, Cache[picked].version >>)}
        /\ Goto("hooks") /\ UNCHANGED << found, drc >>
  /\ UNCHANGED << source, out, buildVars, worldVars, saved, asked, seen, link, pinned, picked, ending, still >>

(***************************************************************************)
(* observe_hooks: whatever it finds is noted beside the comparison, which  *)
(* goes on.  A hook manifest that is declared and not there does not count *)
(* against it.                                                             *)
(***************************************************************************)
HookFile == IF picked \in DOMAIN Cache THEN Cache[picked].hooks ELSE "missing"

HookCode ==
  IF ~Safe THEN 1
  ELSE CASE HookFile \in {"undeclared", "missing"} -> 0
         [] HookFile = "torn" -> 1
         [] HookFile = "unsupported" -> 2
         [] HookFile = "fine" -> 0

ReadHooks ==
  /\ dpc = "hooks"
  /\ \/ installed.hooks = "undeclared" /\ UNCHANGED << found, origins, still >>
     \/ /\ installed.hooks # "undeclared"
        /\ found' = found \cup {Observation(HookCode, "hooks")}
        /\ origins' = origins \cup
             (IF Safe /\ HookFile \notin {"undeclared", "missing"} THEN {Seen("hook_manifest", HookFile)} ELSE {})
        /\ UNCHANGED still
     \/ /\ "slow" \in Faults /\ installed.hooks # "undeclared"
        /\ found' = found \cup {Observation(2, "hooks")}
        /\ UNCHANGED origins /\ still' = FALSE
  /\ Goto("marketplace")
  /\ UNCHANGED << source, out, buildVars, worldVars, saved, asked, seen, link, pinned, picked, installed, drc, ending >>

-----------------------------------------------------------------------------
(***************************************************************************)
(* The source, which for a git source is only a checkout: what is wrong    *)
(* there says nothing for certain.                                         *)
(***************************************************************************)
Local == seen.type = "local"

SourceError(code) ==
  /\ found' = found \cup {Observation(IF Local THEN code ELSE 2, "source")}
  /\ Goto("verify")

ReadMarketplace ==
  /\ dpc = "marketplace"
  /\ \/ ~Local /\ ~seen.checkout /\ SourceError(2) /\ UNCHANGED << origins, still >>
     \/ /\ Local \/ seen.checkout
        /\ \/ out[Marketplace] = Missing /\ SourceError(2) /\ UNCHANGED origins
           \/ /\ out[Marketplace] = Torn /\ SourceError(1)
              /\ origins' = origins \cup {Seen("marketplace_manifest", Torn)}
           \/ /\ out[Marketplace] \notin {Missing, Torn}
              /\ origins' = origins \cup {Seen("marketplace_manifest", out[Marketplace])}
              /\ Goto("source") /\ UNCHANGED found
        /\ UNCHANGED still
     \/ "slow" \in Faults /\ SourceError(2) /\ still' = FALSE /\ UNCHANGED origins
  /\ UNCHANGED << source, out, buildVars, worldVars, saved, asked, seen, link, pinned, picked, installed, drc, ending >>

Compare(text) == IF text.version = installed.version THEN 0 ELSE 1

ReadSource ==
  /\ dpc = "source"
  /\ \/ out[Manifest] = Missing /\ SourceError(1) /\ UNCHANGED << origins, still >>
     \/ /\ out[Manifest] = Torn /\ SourceError(1)
        /\ origins' = origins \cup {Seen("source_manifest", Torn)} /\ UNCHANGED still
     \/ /\ out[Manifest] \notin {Missing, Torn}
        /\ origins' = origins \cup {Seen("source_manifest", out[Manifest])}
        /\ IF Compare(out[Manifest]) = 0
           THEN found' = found \cup {Observation(0, "source")} /\ Goto("verify")
           ELSE SourceError(1)
        /\ UNCHANGED still
     \/ "slow" \in Faults /\ SourceError(2) /\ still' = FALSE /\ UNCHANGED origins
  /\ UNCHANGED << source, out, buildVars, worldVars, saved, asked, seen, link, pinned, picked, installed, drc, ending >>

-----------------------------------------------------------------------------
(***************************************************************************)
(* verify_store: the descriptor's store is still safe, and HOME/plugins    *)
(* still leads to it by the same link.                                     *)
(***************************************************************************)
LinkOnly == named.link = link  \* variant: a directory that was put in the store's place is not noticed

Same == named.link = link /\ named.store = pinned

(***************************************************************************)
(* A captured snapshot is one more file, which must not be there yet; it   *)
(* is written for a match, or a mismatch with a local source.              *)
(***************************************************************************)
Captures ==
  /\ asked.capture /\ ~asked.snapshot
  /\ \A o \in found : o.layer = "source" => o.rc \in {0, 1}
  /\ Seen("source_manifest", Torn) \notin origins
  /\ \E o \in origins : o.kind = "source_manifest"

Stale == asked.snapshot /\ saved # origins

Verify ==
  /\ dpc \in {"verify", "reverify"}
  /\ ending' = named.store
  /\ \/ /\ ~Safe \/ (named.link = link /\ ~stores[named.store].safe)
        /\ Stop(1, "store")
     \/ /\ Safe /\ ~Same /\ (named.link = link => stores[named.store].safe)
        /\ Stop(2, "store")
     \/ /\ Safe /\ Same /\ dpc = "verify" /\ Captures
        /\ Goto("capture") /\ UNCHANGED << found, drc >>
     \/ /\ Safe /\ Same /\ ~(dpc = "verify" /\ Captures)
        /\ Conclude(found \cup (IF Stale THEN {Observation(2, "snapshot")} ELSE {}))
  /\ UNCHANGED << source, out, buildVars, worldVars, saved, asked, seen, link, pinned, picked, installed, origins, still >>

Capture ==
  /\ dpc = "capture"
  /\ \/ saved # NoSnapshot /\ Stop(2, "snapshot") /\ UNCHANGED saved
     \/ /\ saved = NoSnapshot
        /\ saved' = origins /\ Goto("reverify") /\ UNCHANGED << found, drc >>
  /\ UNCHANGED << source, out, buildVars, worldVars, asked, seen, link, pinned, picked, installed, origins, ending, still >>

-----------------------------------------------------------------------------
(***************************************************************************)
(* The user reconfigures the harness; the harness installs; HOME/plugins   *)
(* is made to lead elsewhere, by another link or under the same one.       *)
(***************************************************************************)
Reconfigure == config' \in Homes \ {config} /\ UNCHANGED << stores, named >>

Install ==
  /\ \E s \in Stores : \E x \in Installs \ {stores[s]} : stores' = [stores EXCEPT ![s] = x]
  /\ UNCHANGED << config, named >>

Swap ==
  /\ \E s \in Stores \ {named.store} :
       \E l \in {named.link, named.link + 1} : named' = [store |-> s, link |-> l]
  /\ UNCHANGED << config, stores >>

DoctorSteps ==
  \/ GiveUp \/ ReadConfig \/ LookAtLink \/ Pin \/ LoadSnapshot
  \/ Endangered \/ Locate \/ ReadInstalled \/ ReadHooks
  \/ ReadMarketplace \/ ReadSource \/ Verify \/ Capture

-----------------------------------------------------------------------------
(***************************************************************************)
(* The truth, of which the doctor has read one piece after the other.      *)
(***************************************************************************)
Actual == stores[named.store]

Located ==
  IF asked.given # Missing THEN DOMAIN Actual.cache \cap {asked.given}
  ELSE IF Cardinality(DOMAIN Actual.cache) = 1 THEN DOMAIN Actual.cache ELSE {}

Truth(d) == Actual.cache[d]

SourceDefect(d) ==
  /\ config.type = "local"
  /\ \/ out[Marketplace] = Torn
     \/ /\ out[Marketplace] # Missing
        /\ out[Manifest] \in {Missing, Torn} \/ out[Manifest].version # Truth(d).version

Defective ==
  \/ ~Actual.safe
  \/ asked.given = Missing /\ DOMAIN Actual.cache = {}
  \/ \E d \in Located : Bad(Truth(d).version) \/ Truth(d).hooks = "torn" \/ SourceDefect(d)

Matching ==
  /\ Actual.safe
  /\ \E d \in Located :
       /\ ~Bad(Truth(d).version)
       /\ out[Marketplace] \notin {Missing, Torn} /\ out[Manifest] \notin {Missing, Torn}
       /\ Truth(d).version = out[Manifest].version

Evidence ==
  {Seen("config", config), Seen("plugin_store", named),
   Seen("marketplace_manifest", out[Marketplace]), Seen("source_manifest", out[Manifest])}
  \cup {Seen("plugin_manifest", << d, Truth(d).version >>) : d \in Located}
  \cup {Seen("hook_manifest", Truth(d).hooks) : d \in {x \in Located : Truth(x).hooks \notin {"undeclared", "missing"}}}

(***************************************************************************)
(* A match is never reported of a store that HOME/plugins no longer led to *)
(* at the end.  When nothing changed meanwhile, versions really match, and *)
(* all is as it was when the snapshot that was relied upon was captured.   *)
(***************************************************************************)
MatchIsTrue ==
  dpc = "done" /\ drc = 0 =>
    /\ ending = pinned
    /\ still => Matching
    /\ still /\ asked.snapshot => saved = Evidence

(***************************************************************************)
(* What is confirmed to be wrong is reported as such, however little is    *)
(* known of the rest, and nothing else is.                                 *)
(***************************************************************************)
VerdictIsRight ==
  dpc = "done" /\ still /\ config # Broken /\ asked.parser /\ ~asked.snapshot =>
    (drc = 1 <=> Defective)

=============================================================================
