---------------------------- MODULE BuildTargets ----------------------------
(***************************************************************************)
(* build-targets.py: the manifests of the other harnesses are computed     *)
(* from one source and written, or compared with what is there.  A write   *)
(* is not atomic, neither of one file nor of all of them: it goes on after *)
(* a file has failed, stops where a source is bad, and rolls nothing back; *)
(* the check is what has to notice.                                        *)
(***************************************************************************)
EXTENDS Integers, Sequences, FiniteSets, SequencesExt

CONSTANTS
  Targets,   \* the targets of the policy, in order
  Sources,   \* the source trees that there may be
  Broken,    \* a source that cannot be read
  Missing,   \* there is no such file
  Torn,      \* a file that is truncated, half written or not readable
  All,       \* no --only
  Faults     \* what may go wrong: "io", "kill", "slow"

(***************************************************************************)
(* No two targets have one id, and no two skills one name.                 *)
(***************************************************************************)
ASSUME TargetsAssumption ==
  /\ Targets \in Seq(Range(Targets))
  /\ \A i, j \in DOMAIN Targets : Targets[i].id = Targets[j].id => i = j

ASSUME SourcesAssumption ==
  \A tree \in Sources :
    /\ tree.skills \in Seq(Range(tree.skills))
    /\ \A i \in DOMAIN tree.skills :
         /\ tree.skills[i].name \notin {"manifest", "hooks", "marketplace"}
         /\ \A j \in DOMAIN tree.skills : tree.skills[i].name = tree.skills[j].name => i = j

(***************************************************************************)
(* A file that cannot be read is there.                                    *)
(***************************************************************************)
ASSUME FilesAssumption == Missing # Torn

VARIABLES
  source,  \* the source tree
  out,     \* the generated files
  bpc,     \* where the command is
  mode,    \* "check" or "write"
  only,    \* the target it is for, or All
  loaded,  \* the source manifest, as it was read at the start
  todo,    \* the targets still to be handled
  arts,    \* the artifacts of the first of them that are still to be handled
  failed,  \* an artifact failed or differs
  brc,     \* the exit code
  calm     \* history: nobody else has touched its files since it began

buildVars == << bpc, mode, only, loaded, todo, arts, failed, brc, calm >>

(***************************************************************************)
(* A target of the policy, a source tree with the artifacts whose paths    *)
(* lead out of the repository, and an artifact: its path, which is         *)
(* resolved once, and what its text depends on.                            *)
(***************************************************************************)
TargetOf(id, enabled, needs, hooks, skills, market) ==
  [id |-> id, enabled |-> enabled, needs |-> needs, hooks |-> hooks, skills |-> skills,
   market |-> market]

Tree(version, fields, parts, script, skills, outside) ==
  [manifest |-> [version |-> version, fields |-> fields], parts |-> parts, script |-> script,
   skills |-> skills, outside |-> outside]

Skill(name, text) == [name |-> name, text |-> text]

Unreadable(tree) == [tree EXCEPT !.manifest = Broken]

Path(id, kind) == << id, kind >>

Artifact(tree, id, kind, version, detail) ==
  [path |-> Path(id, kind), text |-> [version |-> version, detail |-> detail],
   escapes |-> Path(id, kind) \in tree.outside]

(***************************************************************************)
(* artifacts_for raises PolicyError before any artifact of the target is   *)
(* there: a field that the target needs, a hook script that it declares,   *)
(* or the frontmatter of a skill is missing.                               *)
(***************************************************************************)
Uses(t, part, tree) == part \in tree.parts

Refuses(t, manifest, tree) ==
  \/ ~(t.needs \subseteq manifest.fields)
  \/ t.hooks /\ Uses(t, "hooks", tree) /\ ~tree.script
  \/ t.skills /\ Uses(t, "skills", tree) /\ \E i \in DOMAIN tree.skills : tree.skills[i].text = Broken

Artifacts(t, manifest, tree) ==
  << Artifact(tree, t.id, "manifest", manifest.version, tree.parts) >>
  \o (IF t.hooks /\ Uses(t, "hooks", tree) THEN << Artifact(tree, t.id, "hooks", 0, {}) >> ELSE << >>)
  \o (IF t.skills /\ Uses(t, "skills", tree)
      THEN [i \in DOMAIN tree.skills |->
              Artifact(tree, t.id, tree.skills[i].name, 0, {tree.skills[i].text})] ELSE << >>)
  \o (IF t.market THEN << Artifact(tree, t.id, "marketplace", 0, {}) >> ELSE << >>)

-----------------------------------------------------------------------------
BuildInit ==
  /\ bpc = "idle" /\ mode = "check" /\ only = All /\ loaded = Broken
  /\ todo = << >> /\ arts = << >> /\ failed = FALSE /\ brc = 0 /\ calm = FALSE

Known(id) == id = All \/ \E i \in DOMAIN Targets : Targets[i].id = id

Wanted(t, id) == t.enabled /\ id \in {All, t.id}

End(code) == bpc' = "ended" /\ brc' = code

(***************************************************************************)
(* main: the manifest is read first; an unknown target ends the command.   *)
(***************************************************************************)
StartBuild(command, id) ==
  /\ bpc \in {"idle", "ended"}
  /\ mode' = command /\ only' = id /\ calm' = TRUE
  /\ failed' = FALSE /\ arts' = << >>
  /\ \/ /\ source.manifest = Broken \/ ~Known(id)
        /\ End(1) /\ loaded' = Broken /\ todo' = << >>
     \/ /\ source.manifest # Broken /\ Known(id)
        /\ loaded' = source.manifest /\ todo' = Targets
        /\ bpc' = "target" /\ UNCHANGED brc
  /\ UNCHANGED << source, out >>

(***************************************************************************)
(* _selected_targets: a target is passed over if another one was asked     *)
(* for, or if it is not enabled.                                           *)
(***************************************************************************)
PassOver ==
  /\ bpc = "target" /\ todo # << >> /\ ~Wanted(Head(todo), only)
  /\ todo' = Tail(todo)
  /\ UNCHANGED << source, out, bpc, mode, only, loaded, arts, failed, brc, calm >>

RefuseTarget ==
  /\ bpc = "target" /\ todo # << >> /\ Wanted(Head(todo), only)
  /\ Refuses(Head(todo), loaded, source)
  /\ End(1)
  /\ UNCHANGED << source, out, mode, only, loaded, todo, arts, failed, calm >>

TakeTarget ==
  /\ bpc = "target" /\ todo # << >> /\ Wanted(Head(todo), only)
  /\ ~Refuses(Head(todo), loaded, source)
  /\ arts' = Artifacts(Head(todo), loaded, source)
  /\ todo' = Tail(todo)
  /\ bpc' = "artifact"
  /\ UNCHANGED << source, out, mode, only, loaded, failed, brc, calm >>

NextTarget ==
  /\ bpc = "artifact" /\ arts = << >>
  /\ bpc' = "target"
  /\ UNCHANGED << source, out, mode, only, loaded, todo, arts, failed, brc, calm >>

EndBuild ==
  /\ bpc = "target" /\ todo = << >>
  /\ End(IF failed THEN 1 ELSE 0)
  /\ UNCHANGED << source, out, mode, only, loaded, todo, arts, failed, calm >>

Art == Head(arts)

Handled(bad) ==
  /\ arts' = Tail(arts) /\ failed' = (failed \/ bad) /\ bpc' = "artifact"
  /\ UNCHANGED << source, mode, only, loaded, todo, brc, calm >>

Confine ==
  /\ bpc = "artifact" /\ arts # << >> /\ Art.escapes
  /\ Handled(TRUE) /\ UNCHANGED out

DiffersIfThere(a) == out[a.path] \notin {Missing, a.text}  \* variant: a missing file is no drift

(***************************************************************************)
(* An enabled target whose file is missing has drifted.                    *)
(***************************************************************************)
Differs(a) == out[a.path] # a.text

CheckArtifact ==
  /\ bpc = "artifact" /\ arts # << >> /\ ~Art.escapes /\ mode = "check"
  /\ Handled(Differs(Art)) /\ UNCHANGED out

(***************************************************************************)
(* write_text truncates the file, and then writes it; either may fail.     *)
(***************************************************************************)
Truncate ==
  /\ bpc = "artifact" /\ arts # << >> /\ ~Art.escapes /\ mode = "write"
  /\ \/ /\ out' = [out EXCEPT ![Art.path] = Torn]
        /\ bpc' = "fill"
        /\ UNCHANGED << source, mode, only, loaded, todo, arts, failed, brc, calm >>
     \/ "io" \in Faults /\ Handled(TRUE) /\ UNCHANGED out

Fill ==
  /\ bpc = "fill"
  /\ \/ out' = [out EXCEPT ![Art.path] = Art.text] /\ Handled(FALSE)
     \/ "io" \in Faults /\ Handled(TRUE) /\ UNCHANGED out

Kill ==
  /\ "kill" \in Faults /\ bpc \in {"target", "artifact", "fill"}
  /\ bpc' = "idle"
  /\ UNCHANGED << source, out, mode, only, loaded, todo, arts, failed, brc, calm >>

BuildSteps ==
  \/ PassOver \/ RefuseTarget \/ TakeTarget \/ NextTarget \/ EndBuild
  \/ Confine \/ CheckArtifact \/ Truncate \/ Fill \/ Kill

-----------------------------------------------------------------------------
(***************************************************************************)
(* The maintainer edits the source tree, or a generated file.              *)
(***************************************************************************)
EditSource ==
  /\ source' \in Sources \ {source}
  /\ calm' = FALSE
  /\ UNCHANGED << out, bpc, mode, only, loaded, todo, arts, failed, brc >>

Meddle ==
  /\ \E p \in DOMAIN out : \E x \in {Missing, Torn} : out' = [out EXCEPT ![p] = x]
  /\ calm' = FALSE
  /\ UNCHANGED << source, bpc, mode, only, loaded, todo, arts, failed, brc >>

-----------------------------------------------------------------------------
(***************************************************************************)
(* What was asked for can be computed from the sources, and is in place.   *)
(***************************************************************************)
InPlace ==
  /\ source.manifest # Broken /\ Known(only)
  /\ \A t \in {x \in Range(Targets) : Wanted(x, only)} :
       /\ ~Refuses(t, source.manifest, source)
       /\ \A a \in Range(Artifacts(t, source.manifest, source)) :
            ~a.escapes /\ out[a.path] = a.text

(***************************************************************************)
(* A command that ends well leaves, or finds, all that it is about in      *)
(* place, whatever earlier writes have left behind that were killed,       *)
(* failed in part or stopped at a bad source; and a check that finds       *)
(* drift is right.                                                         *)
(***************************************************************************)
DriftIsSeen ==
  bpc = "ended" /\ calm =>
    /\ brc = 0 => InPlace
    /\ mode = "check" /\ brc = 1 => ~InPlace

=============================================================================
