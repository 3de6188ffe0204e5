--------------------------- MODULE ReleaseProofs ----------------------------
(***************************************************************************)
(* Theorems about Release, for any targets, source trees, stores and       *)
(* plans, and whatever fails or is changed meanwhile.                      *)
(*                                                                         *)
(* 1. A write or a check that ends well leaves, or finds, everything in    *)
(*    place, and a check that finds drift is right (DriftIsSeen).          *)
(* 2. A match is true (MatchIsTrue), and so is a defect (VerdictIsRight).  *)
(***************************************************************************)
EXTENDS Release, FiniteSetTheorems, SequenceTheorems, TLAPS

(***************************************************************************)
(* What is handled next, and what remains.                                 *)
(***************************************************************************)
LEMMA TailRange ==
  ASSUME NEW S, NEW s \in Seq(S), s # << >>
  PROVE  /\ Tail(s) \in Seq(S)
         /\ Head(s) \in Range(s)
         /\ Range(Tail(s)) \subseteq Range(s)
         /\ \A x \in Range(s) : x = Head(s) \/ x \in Range(Tail(s))
<1>1. /\ Tail(s) \in Seq(S) /\ Len(Tail(s)) = Len(s) - 1
      /\ \A i \in 1..Len(Tail(s)) : Tail(s)[i] = s[i + 1]
  BY HeadTailProperties
<1>2. Len(s) \in Nat /\ Len(s) > 0 /\ Head(s) = s[1]
  BY EmptySeq, LenProperties
<1>3. /\ Range(s) = {s[i] : i \in 1..Len(s)}
      /\ Range(Tail(s)) = {Tail(s)[i] : i \in 1..Len(Tail(s))}
  BY <1>1, RangeEquality
<1>4. \A i \in 1..Len(s) : i = 1 \/ (i - 1 \in 1..Len(Tail(s)) /\ s[i] = Tail(s)[i - 1])
  BY <1>1, <1>2
<1>5. \A i \in 1..Len(Tail(s)) : i + 1 \in 1..Len(s)
  BY <1>1, <1>2
<1>6. Head(s) \in Range(s)
  BY <1>2, <1>3
<1>7. Range(Tail(s)) \subseteq Range(s)
  BY <1>1, <1>3, <1>5
<1>8. \A x \in Range(s) : x = Head(s) \/ x \in Range(Tail(s))
  BY <1>2, <1>3, <1>4
<1> QED BY <1>1, <1>6, <1>7, <1>8

(***************************************************************************)
(* The artifacts of a target, as a set.                                    *)
(***************************************************************************)
SkillArt(t, tree, i) ==
  Artifact(tree, t.id, tree.skills[i].name, 0, {tree.skills[i].text})

ArtSet(t, manifest, tree) ==
  {Artifact(tree, t.id, "manifest", manifest.version, tree.parts)}
  \cup (IF t.hooks /\ Uses(t, "hooks", tree) THEN {Artifact(tree, t.id, "hooks", 0, {})} ELSE {})
  \cup (IF t.skills /\ Uses(t, "skills", tree)
        THEN {SkillArt(t, tree, i) : i \in DOMAIN tree.skills} ELSE {})
  \cup (IF t.market THEN {Artifact(tree, t.id, "marketplace", 0, {})} ELSE {})

LEMMA OneOrNone ==
  ASSUME NEW S, NEW a \in S, NEW b
  PROVE  /\ (IF b THEN << a >> ELSE << >>) \in Seq(S)
         /\ Range(IF b THEN << a >> ELSE << >>) = IF b THEN {a} ELSE {}
<1>1. << a >> \in Seq(S) /\ Range(<< a >>) = {a}
  BY DEF Range
<1>2. << >> \in Seq(S) /\ Range(<< >>) = {}
  BY DEF Range
<1> QED BY <1>1, <1>2

LEMMA ArtifactsAre ==
  ASSUME NEW t, NEW manifest, NEW tree, tree.skills \in Seq(Range(tree.skills))
  PROVE  /\ Artifacts(t, manifest, tree) \in Seq(ArtSet(t, manifest, tree))
         /\ Range(Artifacts(t, manifest, tree)) = ArtSet(t, manifest, tree)
<1> DEFINE first == Artifact(tree, t.id, "manifest", manifest.version, tree.parts)
           hook == Artifact(tree, t.id, "hooks", 0, {})
           market == Artifact(tree, t.id, "marketplace", 0, {})
           withHooks == t.hooks /\ Uses(t, "hooks", tree)
           withSkills == t.skills /\ Uses(t, "skills", tree)
           skills == {SkillArt(t, tree, i) : i \in DOMAIN tree.skills}
           S == {first, hook, market} \cup skills
           A == << first >>
           B == IF withHooks THEN << hook >> ELSE << >>
           list == [i \in DOMAIN tree.skills |-> SkillArt(t, tree, i)]
           C == IF withSkills THEN list ELSE << >>
           D == IF t.market THEN << market >> ELSE << >>
<1>1. A \in Seq(S) /\ Range(A) = {first}
  <2> HIDE DEF first
  <2> QED BY DEF Range
<1>2. B \in Seq(S) /\ Range(B) = IF withHooks THEN {hook} ELSE {}
  <2> HIDE DEF hook, withHooks, first, market, skills
  <2> QED BY OneOrNone
<1>3. D \in Seq(S) /\ Range(D) = IF t.market THEN {market} ELSE {}
  <2> HIDE DEF hook, first, market, skills
  <2> QED BY OneOrNone
<1>4. C \in Seq(S) /\ Range(C) = IF withSkills THEN skills ELSE {}
  <2>1. DOMAIN tree.skills = 1..Len(tree.skills) /\ Len(tree.skills) \in Nat
    BY LenProperties
  <2>2. \A i \in DOMAIN tree.skills : SkillArt(t, tree, i) \in S
    OBVIOUS
  <2>3. list \in Seq(S) /\ Range(list) = skills
    <3> HIDE DEF S
    <3>1. list \in [1..Len(tree.skills) -> S]
      BY <2>1, <2>2
    <3>2. list \in Seq(S)
      BY <3>1, <2>1
    <3>3. DOMAIN list = DOMAIN tree.skills /\ \A i \in DOMAIN tree.skills : list[i] = SkillArt(t, tree, i)
      OBVIOUS
    <3>4. Range(list) = skills
      BY <3>3 DEF Range
    <3> QED BY <3>2, <3>4
  <2>4. << >> \in Seq(S) /\ Range(<< >>) = {}
    BY DEF Range
  <2> HIDE DEF S, skills, list, withSkills
  <2> QED BY <2>3, <2>4
<1>5. Artifacts(t, manifest, tree) = ((A \o B) \o C) \o D
  BY DEF Artifacts, SkillArt
<1>6. ArtSet(t, manifest, tree) =
        {first} \cup (IF withHooks THEN {hook} ELSE {}) \cup (IF withSkills THEN skills ELSE {})
        \cup (IF t.market THEN {market} ELSE {})
  BY DEF ArtSet
<1> HIDE DEF A, B, C, D, S, first, hook, market, withHooks, withSkills, skills
<1> DEFINE AB == A \o B
           ABC == AB \o C
<1>7. AB \in Seq(S) /\ Range(AB) = Range(A) \cup Range(B)
  BY <1>1, <1>2, ConcatProperties, RangeConcatenation
<1> HIDE DEF AB
<1>8. ABC \in Seq(S) /\ Range(ABC) = Range(AB) \cup Range(C)
  BY <1>4, <1>7, ConcatProperties, RangeConcatenation
<1> HIDE DEF ABC
<1>9. ABC \o D \in Seq(S) /\ Range(ABC \o D) = Range(ABC) \cup Range(D)
  BY <1>3, <1>8, ConcatProperties, RangeConcatenation
<1>10. Artifacts(t, manifest, tree) = ABC \o D
  BY <1>5 DEF AB, ABC
<1>11. Range(Artifacts(t, manifest, tree)) = ArtSet(t, manifest, tree)
  BY <1>1, <1>2, <1>3, <1>4, <1>6, <1>7, <1>8, <1>9, <1>10
<1> QED BY <1>9, <1>10, <1>11, SeqOfRange

(***************************************************************************)
(* Two artifacts of one source tree have one path only if they are one.    *)
(***************************************************************************)
LEMMA PathsDiffer ==
  ASSUME NEW tree \in Sources, NEW manifest, NEW t \in Range(Targets), NEW u \in Range(Targets),
         NEW a \in Range(Artifacts(t, manifest, tree)), NEW b \in Range(Artifacts(u, manifest, tree)),
         a.path = b.path
  PROVE  a = b
<1>1. a \in ArtSet(t, manifest, tree) /\ b \in ArtSet(u, manifest, tree)
  BY ArtifactsAre, SourcesAssumption DEF SourcesAssumption
<1>2. \A x \in Range(Targets) : \A c \in ArtSet(x, manifest, tree) : c.path[1] = x.id
  <2>1. ASSUME NEW x, NEW kind, NEW version, NEW detail
        PROVE  Artifact(tree, x, kind, version, detail).path[1] = x
    <3>1. Artifact(tree, x, kind, version, detail).path = << x, kind >>
      BY DEF Artifact, Path
    <3> QED BY <3>1
  <2>2. ASSUME NEW x \in Range(Targets), NEW c \in ArtSet(x, manifest, tree)
        PROVE  \E kind, version, detail : c = Artifact(tree, x.id, kind, version, detail)
    <3>1. CASE \E i \in DOMAIN tree.skills : c = SkillArt(x, tree, i)
      BY <3>1 DEF SkillArt
    <3>2. CASE c \in {Artifact(tree, x.id, "manifest", manifest.version, tree.parts),
                      Artifact(tree, x.id, "hooks", 0, {}), Artifact(tree, x.id, "marketplace", 0, {})}
      BY <3>2
    <3> QED BY <3>1, <3>2 DEF ArtSet
  <2> QED BY <2>1, <2>2
<1>3. t = u
  <2>1. t.id = u.id
    BY <1>1, <1>2
  <2>2. PICK i \in DOMAIN Targets, j \in DOMAIN Targets : t = Targets[i] /\ u = Targets[j]
    BY DEF Range
  <2> QED BY <2>1, <2>2, TargetsAssumption DEF TargetsAssumption
<1>4. a.path[2] = b.path[2]
  OBVIOUS
<1>5. \A i \in DOMAIN tree.skills :
        /\ tree.skills[i].name \notin {"manifest", "hooks", "marketplace"}
        /\ \A j \in DOMAIN tree.skills : tree.skills[i].name = tree.skills[j].name => i = j
  BY SourcesAssumption DEF SourcesAssumption
<1> DEFINE kinds == {Artifact(tree, t.id, "manifest", manifest.version, tree.parts),
                     Artifact(tree, t.id, "hooks", 0, {}), Artifact(tree, t.id, "marketplace", 0, {})}
<1>6. \A c \in ArtSet(t, manifest, tree) :
        c \in kinds \/ \E i \in DOMAIN tree.skills : c = SkillArt(t, tree, i)
  BY DEF ArtSet
<1>7. \A i \in DOMAIN tree.skills : SkillArt(t, tree, i).path[2] = tree.skills[i].name
  BY DEF SkillArt, Artifact, Path
<1>8. /\ \A c, d \in kinds : c.path[2] = d.path[2] => c = d
      /\ \A c \in kinds : c.path[2] \in {"manifest", "hooks", "marketplace"}
  BY DEF Artifact, Path
<1> HIDE DEF kinds
<1> QED BY <1>1, <1>3, <1>4, <1>5, <1>6, <1>7, <1>8


-----------------------------------------------------------------------------
(***************************************************************************)
(* Its(t): what the sources, as they are now, make of a target.            *)
(***************************************************************************)
Its(t) == Range(Artifacts(t, source.manifest, source))

Placed(a) == ~a.escapes /\ out[a.path] = a.text

LEMMA PathIsThere ==
  ASSUME source \in Sources, source.manifest # Broken,
         NEW t \in Range(Targets), NEW a \in Its(t)
  PROVE  a.path \in Paths(Readable)
<1>1. source \in Readable
  BY DEF Readable
<1>2. a \in UNION {Range(Artifacts(u, tree.manifest, tree)) : u \in Range(Targets), tree \in Readable}
  BY <1>1 DEF Its
<1> QED BY <1>2 DEF Paths

(***************************************************************************)
(* Undisturbed, a command has found every target before the next one       *)
(* sound, and every artifact before the next one in place, unless it has   *)
(* failed; a check fails only where something really is not in place.      *)
(***************************************************************************)
Working == bpc \in {"target", "artifact", "fill"}

ProgressInv ==
  /\ source.manifest # Broken /\ loaded = source.manifest /\ Known(only)
  /\ todo \in Seq(Range(Targets))
  /\ arts \in Seq(Range(arts))
  /\ \A a \in Range(arts) : \E t \in Range(Targets) : Wanted(t, only) /\ a \in Its(t)
  /\ bpc = "target" => arts = << >>
  /\ bpc = "fill" => arts # << >> /\ mode = "write" /\ ~Head(arts).escapes
  /\ \A t \in Range(Targets) : Wanted(t, only) /\ t \notin Range(todo) =>
       /\ ~Refuses(t, source.manifest, source)
       /\ \A a \in Its(t) : a \in Range(arts) \/ failed \/ Placed(a)
  /\ mode = "check" /\ failed => ~InPlace

BuildInv ==
  /\ source \in Sources
  /\ out = [p \in Paths(Readable) |-> out[p]] /\ failed \in BOOLEAN
  /\ calm /\ Working => ProgressInv
  /\ DriftIsSeen

LEMMA InPlaceIs ==
  InPlace <=>
    /\ source.manifest # Broken /\ Known(only)
    /\ \A t \in Range(Targets) : Wanted(t, only) =>
         ~Refuses(t, source.manifest, source) /\ \A a \in Its(t) : Placed(a)
BY DEF InPlace, Its, Placed

LEMMA BuildInvInit == Init => BuildInv
<1> SUFFICES ASSUME Init PROVE BuildInv
  OBVIOUS
<1>1. PICK p \in Plans : source \in p.sources /\ out = Fresh(p.made)
  BY DEF Init
<1>2. source \in Sources
  BY <1>1, PlansAssumption DEF PlansAssumption
<1>3. out = [q \in Paths(Readable) |-> out[q]]
  BY <1>1 DEF Fresh
<1>4. bpc = "idle" /\ ~calm /\ failed = FALSE
  BY DEF Init, BuildInit
<1> QED BY <1>2, <1>3, <1>4 DEF BuildInv, DriftIsSeen

LEMMA BuildFrame ==
  ASSUME BuildInv, UNCHANGED << source, out, buildVars >>
  PROVE  BuildInv'
<1> USE DEF buildVars
<1>1. InPlace' <=> InPlace
  BY DEF InPlace
<1>2. \A t \in Range(Targets) : Its(t)' = Its(t)
  BY DEF Its
<1>3. \A a : Placed(a)' <=> Placed(a)
  BY DEF Placed
<1>4. ProgressInv' <=> ProgressInv
  BY <1>1, <1>2, <1>3 DEF ProgressInv
<1>5. DriftIsSeen' <=> DriftIsSeen
  BY <1>1 DEF DriftIsSeen
<1> QED BY <1>4, <1>5 DEF BuildInv, Working

LEMMA StartKeepsBuild ==
  ASSUME BuildInv, NEW command, NEW id, StartBuild(command, id)
  PROVE  BuildInv'
<1>1. source' = source /\ out' = out /\ only' = id
  BY DEF StartBuild
<1>2. CASE (source.manifest = Broken \/ ~Known(id)) /\ End(1)
  <2>1. ~InPlace'
    BY <1>1, <1>2 DEF InPlace
  <2>2. failed' = FALSE
    BY DEF StartBuild
  <2>3. bpc' = "ended" /\ brc' = 1
    BY <1>2 DEF End
  <2>4. DriftIsSeen'
    BY <2>1, <2>3 DEF DriftIsSeen
  <2>5. ~Working'
    BY <2>3 DEF Working
  <2> QED BY <1>1, <2>2, <2>4, <2>5 DEF BuildInv
<1>3. CASE /\ source.manifest # Broken /\ Known(id)
           /\ loaded' = source.manifest /\ todo' = Targets /\ bpc' = "target"
  <2>1. failed' = FALSE /\ arts' = << >>
    BY DEF StartBuild
  <2>2. todo' \in Seq(Range(Targets))
    BY <1>3, TargetsAssumption DEF TargetsAssumption
  <2>3. arts' \in Seq(Range(arts')) /\ Range(arts') = {}
    BY <2>1 DEF Range
  <2>4. ProgressInv'
    BY <1>1, <1>3, <2>1, <2>2, <2>3 DEF ProgressInv
  <2> QED BY <1>1, <1>3, <2>1, <2>4 DEF BuildInv, DriftIsSeen
<1> QED BY <1>2, <1>3 DEF StartBuild


(***************************************************************************)
(* An artifact is done with: it is in place now, or the command has failed.*)
(***************************************************************************)
LEMMA HandlingKeepsBuild ==
  ASSUME BuildInv, bpc \in {"artifact", "fill"}, arts # << >>, NEW art, art = Head(arts),
         NEW bad \in BOOLEAN, Handled(bad),
         out' = [p \in Paths(Readable) |-> out'[p]],
         mode = "check" => out' = out,
         calm => \A t \in Range(Targets) : \A b \in Its(t) : b # art => out'[b.path] = out[b.path],
         calm => bad \/ Placed(art)',
         calm /\ mode = "check" /\ bad => ~InPlace'
  PROVE  BuildInv'
<1>1. /\ arts' = Tail(arts) /\ bpc' = "artifact" /\ failed' \in BOOLEAN
      /\ UNCHANGED << source, mode, only, loaded, todo, brc, calm >>
  BY DEF Handled
<1>2. failed' <=> failed \/ bad
  BY DEF Handled, BuildInv
<1>3. ASSUME calm PROVE ProgressInv'
  <2>1. ProgressInv
    BY <1>3 DEF BuildInv, Working
  <2>2. /\ Tail(arts) \in Seq(Range(arts))
        /\ Range(Tail(arts)) \subseteq Range(arts)
        /\ \A x \in Range(arts) : x = Head(arts) \/ x \in Range(Tail(arts))
    BY <2>1, TailRange DEF ProgressInv
  <2>3. arts' \in Seq(Range(arts'))
    BY <1>1, <2>2, SeqOfRange
  <2>4. \A t : Its(t)' = Its(t)
    BY <1>1 DEF Its
  <2>5. ASSUME NEW t \in Range(Targets), Wanted(t, only), t \notin Range(todo), NEW a \in Its(t)
        PROVE  a \in Range(arts') \/ failed' \/ Placed(a)'
    <3>1. a \in Range(arts) \/ failed \/ Placed(a)
      BY <2>1, <2>5 DEF ProgressInv
    <3>2. CASE a = art
      BY <3>2, <1>2, <1>3
    <3>3. CASE a # art
      <4>1. Placed(a)' <=> Placed(a)
        BY <3>3, <1>3, <2>5 DEF Placed
      <4> QED BY <3>1, <3>3, <4>1, <1>1, <1>2, <2>2
    <3> QED BY <3>2, <3>3
  <2>6. \A t \in Range(Targets) : Wanted(t, only) /\ t \notin Range(todo) =>
          ~Refuses(t, source.manifest, source)
    BY <2>1 DEF ProgressInv
  <2>7. mode = "check" /\ failed' => ~InPlace'
    <3>1. ASSUME mode = "check", failed PROVE ~InPlace'
      <4>1. ~InPlace /\ out' = out
        BY <3>1, <2>1 DEF ProgressInv
      <4> QED BY <4>1, <1>1 DEF InPlace
    <3> QED BY <3>1, <1>2, <1>3
  <2>8. \A a \in Range(arts') : \E t \in Range(Targets) : Wanted(t, only) /\ a \in Its(t)
    BY <1>1, <2>1, <2>2 DEF ProgressInv
  <2>9. /\ source.manifest # Broken /\ loaded = source.manifest /\ Known(only)
        /\ todo \in Seq(Range(Targets))
    BY <2>1 DEF ProgressInv
  <2> QED BY <1>1, <2>3, <2>4, <2>5, <2>6, <2>7, <2>8, <2>9 DEF ProgressInv
<1> QED BY <1>1, <1>3 DEF BuildInv, DriftIsSeen

(***************************************************************************)
(* Undisturbed, the artifact that is handled is one of a wanted target,    *)
(* and has its path for itself.                                            *)
(***************************************************************************)
LEMMA ArtIsWanted ==
  ASSUME BuildInv, calm, bpc \in {"artifact", "fill"}, arts # << >>
  PROVE  /\ \E t \in Range(Targets) : Wanted(t, only) /\ Art \in Its(t)
         /\ Art.path \in Paths(Readable)
         /\ \A t \in Range(Targets) : \A b \in Its(t) : b # Art => b.path # Art.path
         /\ Art.path \in DOMAIN out
<1>1. ProgressInv
  BY DEF BuildInv, Working
<1>2. Art \in Range(arts)
  BY <1>1, TailRange DEF ProgressInv, Art
<1>3. PICK t \in Range(Targets) : Wanted(t, only) /\ Art \in Its(t)
  BY <1>1, <1>2 DEF ProgressInv
<1>4. source \in Sources /\ source.manifest # Broken
  BY <1>1 DEF BuildInv, ProgressInv
<1>5. Art.path \in Paths(Readable)
  BY <1>3, <1>4, PathIsThere
<1>6. ASSUME NEW u \in Range(Targets), NEW b \in Its(u), b.path = Art.path PROVE b = Art
  <2> DEFINE a == Art
  <2>1. a \in Range(Artifacts(t, source.manifest, source))
    BY <1>3 DEF Its
  <2>2. b \in Range(Artifacts(u, source.manifest, source)) /\ b.path = a.path
    BY <1>6 DEF Its
  <2> HIDE DEF a
  <2>3. b = a
    BY <2>1, <2>2, <1>4, PathsDiffer
  <2> QED BY <2>3 DEF a
<1> QED BY <1>3, <1>5, <1>6 DEF BuildInv

LEMMA ArtifactStepsKeepBuild ==
  ASSUME BuildInv, Confine \/ CheckArtifact \/ Truncate \/ Fill
  PROVE  BuildInv'
<1>0. out = [p \in Paths(Readable) |-> out[p]]
  BY DEF BuildInv
<1>1. CASE Confine
  <2>1. /\ bpc = "artifact" /\ arts # << >> /\ Art.escapes /\ Handled(TRUE) /\ out' = out
        /\ source' = source /\ only' = only
    BY <1>1 DEF Confine, Handled
  <2>2. ASSUME calm PROVE ~InPlace'
    <3>1. PICK t \in Range(Targets) : Wanted(t, only) /\ Art \in Its(t)
      BY <2>1, <2>2, ArtIsWanted
    <3>2. ~InPlace
      BY <3>1, <2>1, InPlaceIs DEF Placed
    <3> QED BY <3>2, <2>1 DEF InPlace
  <2> QED BY <2>1, <2>2, <1>0, HandlingKeepsBuild
<1>2. CASE CheckArtifact
  <2>1. /\ bpc = "artifact" /\ arts # << >> /\ ~Art.escapes /\ Handled(Differs(Art)) /\ out' = out
        /\ source' = source /\ only' = only /\ Differs(Art) \in BOOLEAN
    BY <1>2 DEF CheckArtifact, Handled, Differs
  <2>2. ASSUME calm, Differs(Art) PROVE ~InPlace'
    <3>1. PICK t \in Range(Targets) : Wanted(t, only) /\ Art \in Its(t)
      BY <2>1, <2>2, ArtIsWanted
    <3>2. ~InPlace
      BY <3>1, <2>2, InPlaceIs DEF Placed, Differs
    <3> QED BY <3>2, <2>1 DEF InPlace
  <2>3. PICK art : art = Head(arts)
    OBVIOUS
  <2>4. ~Differs(Art) => Placed(art)'
    BY <2>1, <2>3 DEF Placed, Differs, Art
  <2> QED BY <2>1, <2>2, <2>3, <2>4, <1>0, HandlingKeepsBuild
<1>3. CASE mode = "write" /\ Handled(TRUE) /\ UNCHANGED out /\ bpc \in {"artifact", "fill"} /\ arts # << >>
  BY <1>3, <1>0, HandlingKeepsBuild
<1>4. CASE /\ bpc = "artifact" /\ arts # << >> /\ ~Art.escapes /\ mode = "write"
           /\ out' = [out EXCEPT ![Art.path] = Torn] /\ bpc' = "fill"
           /\ UNCHANGED << source, mode, only, loaded, todo, arts, failed, brc, calm >>
  <2>1. out' = [p \in Paths(Readable) |-> out'[p]]
    BY <1>0, <1>4
  <2>2. ASSUME calm PROVE ProgressInv'
    <3>1. ProgressInv
      BY <1>4, <2>2 DEF BuildInv, Working
    <3>2. \A t : Its(t)' = Its(t)
      BY <1>4 DEF Its
    <3>3. ASSUME NEW t \in Range(Targets), Wanted(t, only), t \notin Range(todo), NEW a \in Its(t)
          PROVE  a \in Range(arts) \/ failed \/ Placed(a)'
      <4>1. a \in Range(arts) \/ failed \/ Placed(a)
        BY <3>1, <3>3 DEF ProgressInv
      <4>2. CASE a = Art
        BY <4>2, <1>4, <3>1, TailRange DEF ProgressInv, Art
      <4>3. CASE a # Art
        <5>1. a.path # Art.path
          BY <4>3, <1>4, <2>2, <3>3, ArtIsWanted
        <5>2. out'[a.path] = out[a.path]
          BY <5>1, <1>4
        <5> QED BY <4>1, <5>2 DEF Placed
      <4> QED BY <4>2, <4>3
    <3> QED BY <1>4, <3>1, <3>2, <3>3 DEF ProgressInv, Art
  <2> QED BY <1>4, <2>1, <2>2 DEF BuildInv, DriftIsSeen
<1>5. CASE Fill /\ calm
  <2>1. ProgressInv /\ bpc = "fill"
    BY <1>5 DEF BuildInv, Working, Fill
  <2>2. arts # << >> /\ mode = "write" /\ ~Art.escapes
    BY <2>1 DEF ProgressInv, Art
  <2>3. CASE Handled(TRUE) /\ UNCHANGED out
    BY <2>1, <2>2, <2>3, <1>3
  <2>4. CASE out' = [out EXCEPT ![Art.path] = Art.text] /\ Handled(FALSE)
    <3>1. out' = [p \in Paths(Readable) |-> out'[p]]
      BY <1>0, <2>4
    <3>2. PICK art : art = Head(arts)
      OBVIOUS
    <3>3. Placed(art)'
      BY <2>1, <2>2, <2>4, <3>2, <1>5, ArtIsWanted DEF Placed, Art
    <3>4. \A t \in Range(Targets) : \A b \in Its(t) : b # art => out'[b.path] = out[b.path]
      BY <2>1, <2>2, <2>4, <3>2, <1>5, ArtIsWanted DEF Art
    <3> QED BY <2>1, <2>2, <2>4, <3>1, <3>2, <3>3, <3>4, HandlingKeepsBuild
  <2> QED BY <1>5, <2>3, <2>4 DEF Fill
<1>6. CASE Fill /\ ~calm
  <2>1. out' = [p \in Paths(Readable) |-> out'[p]]
    BY <1>0, <1>6 DEF Fill
  <2>2. source' = source /\ calm' = calm /\ failed' \in BOOLEAN /\ bpc' = "artifact"
    BY <1>6 DEF Fill, Handled
  <2> QED BY <1>6, <2>1, <2>2 DEF BuildInv, DriftIsSeen
<1>7. CASE Truncate
  BY <1>7, <1>3, <1>4 DEF Truncate
<1> QED BY <1>1, <1>2, <1>5, <1>6, <1>7


LEMMA TargetStepsKeepBuild ==
  ASSUME BuildInv, PassOver \/ RefuseTarget \/ TakeTarget \/ NextTarget \/ EndBuild
  PROVE  BuildInv'
<1>0. /\ UNCHANGED << source, out, only, mode, loaded, failed, calm >>
      /\ bpc \in {"target", "artifact"}
  BY DEF PassOver, RefuseTarget, TakeTarget, NextTarget, EndBuild
<1>1. CASE ~calm
  BY <1>0, <1>1 DEF BuildInv, DriftIsSeen
<1> SUFFICES ASSUME calm PROVE BuildInv'
  BY <1>1
<1>2. ProgressInv
  BY <1>0 DEF BuildInv, Working
<1>3. /\ InPlace' <=> InPlace
      /\ \A t : Its(t)' = Its(t)
      /\ \A a : Placed(a)' <=> Placed(a)
  BY <1>0 DEF InPlace, Its, Placed
<1>4. todo # << >> => /\ Tail(todo) \in Seq(Range(Targets))
                      /\ \A x \in Range(todo) : x = Head(todo) \/ x \in Range(Tail(todo))
                      /\ Head(todo) \in Range(Targets)
  BY <1>2, TailRange, RangeOfSeq DEF ProgressInv
<1>5. ASSUME ProgressInv', bpc' \in {"target", "artifact"} PROVE BuildInv'
  BY <1>0, <1>5 DEF BuildInv, DriftIsSeen
<1>6. CASE PassOver
  <2>1. ProgressInv'
    BY <1>0, <1>2, <1>3, <1>4, <1>6 DEF PassOver, ProgressInv
  <2> QED BY <2>1, <1>5, <1>6 DEF PassOver
<1>7. CASE RefuseTarget
  <2>1. /\ bpc' = "ended" /\ brc' = 1 /\ Head(todo) \in Range(Targets)
        /\ Wanted(Head(todo), only) /\ Refuses(Head(todo), source.manifest, source)
    BY <1>2, <1>4, <1>7 DEF RefuseTarget, End, ProgressInv
  <2>2. ~InPlace'
    BY <2>1, <1>3, InPlaceIs
  <2>3. DriftIsSeen' /\ ~Working'
    BY <2>1, <2>2 DEF DriftIsSeen, Working
  <2> QED BY <1>0, <2>3 DEF BuildInv
<1>8. CASE TakeTarget
  <2> DEFINE t == Head(todo)
  <2>1. /\ t \in Range(Targets) /\ Wanted(t, only) /\ ~Refuses(t, source.manifest, source)
        /\ todo' = Tail(todo) /\ bpc' = "artifact"
        /\ arts' = Artifacts(t, source.manifest, source)
    BY <1>2, <1>4, <1>8 DEF TakeTarget, ProgressInv
  <2>2. source.skills \in Seq(Range(source.skills))
    BY SourcesAssumption DEF SourcesAssumption, BuildInv
  <2>3. Range(arts') = Its(t)
    BY <2>1 DEF Its
  <2> HIDE DEF t
  <2>4. arts' \in Seq(Range(arts'))
    BY <2>1, <2>2, ArtifactsAre
  <2>5. ASSUME NEW u \in Range(Targets), Wanted(u, only), u \notin Range(todo')
        PROVE  /\ ~Refuses(u, source.manifest, source)
               /\ \A a \in Its(u) : a \in Range(arts') \/ failed \/ Placed(a)
    <3>1. CASE u = t
      BY <3>1, <2>1, <2>3
    <3>2. CASE u # t
      <4>1. u \notin Range(todo) /\ arts = << >>
        BY <3>2, <2>1, <2>5, <1>2, <1>4, <1>8 DEF TakeTarget, ProgressInv, t
      <4>2. Range(arts) = {}
        BY <4>1 DEF Range
      <4> QED BY <2>5, <4>1, <4>2, <1>2 DEF ProgressInv
    <3> QED BY <3>1, <3>2
  <2>6. todo' \in Seq(Range(Targets))
    BY <1>4, <1>8 DEF TakeTarget
  <2>7. ProgressInv'
    BY <1>0, <1>2, <1>3, <2>1, <2>3, <2>4, <2>5, <2>6 DEF ProgressInv
  <2> QED BY <2>1, <2>7, <1>5
<1>9. CASE NextTarget
  <2>1. ProgressInv'
    BY <1>0, <1>2, <1>3, <1>9 DEF NextTarget, ProgressInv
  <2> QED BY <2>1, <1>5, <1>9 DEF NextTarget
<1>10. CASE EndBuild
  <2>1. /\ todo = << >> /\ arts = << >> /\ bpc' = "ended"
        /\ brc' = IF failed THEN 1 ELSE 0
    BY <1>2, <1>10 DEF EndBuild, End, ProgressInv
  <2>2. Range(todo) = {} /\ Range(arts) = {}
    BY <2>1 DEF Range
  <2>3. ~failed => InPlace
    BY <2>2, <1>2, InPlaceIs DEF ProgressInv
  <2>4. mode = "check" /\ failed => ~InPlace
    BY <1>2 DEF ProgressInv
  <2>5. DriftIsSeen'
    BY <2>1, <2>3, <2>4, <1>0, <1>3 DEF DriftIsSeen
  <2>6. ~Working'
    BY <2>1 DEF Working
  <2> QED BY <2>5, <2>6, <1>0 DEF BuildInv
<1> QED BY <1>6, <1>7, <1>8, <1>9, <1>10

LEMMA BuildInvNext == BuildInv /\ [Next]_vars => BuildInv'
<1> SUFFICES ASSUME BuildInv, [Next]_vars PROVE BuildInv'
  OBVIOUS
<1>1. CASE UNCHANGED << source, out, buildVars >>
  BY <1>1, BuildFrame
<1>2. CASE BuildSteps
  <2>1. CASE Kill
    BY <2>1 DEF Kill, BuildInv, Working, DriftIsSeen
  <2> QED BY <1>2, <2>1, TargetStepsKeepBuild, ArtifactStepsKeepBuild DEF BuildSteps
<1>3. CASE NewBuild
  BY <1>3, StartKeepsBuild DEF NewBuild
<1>4. CASE EditSource
  <2>1. source' \in Sources /\ calm' = FALSE /\ UNCHANGED << out, failed >>
    BY <1>4 DEF EditSource
  <2> QED BY <2>1 DEF BuildInv, DriftIsSeen
<1>5. CASE Meddle
  <2>1. out' = [p \in Paths(Readable) |-> out'[p]]
    BY <1>5 DEF Meddle, BuildInv
  <2>2. calm' = FALSE /\ UNCHANGED << source, failed >>
    BY <1>5 DEF Meddle
  <2> QED BY <2>1, <2>2 DEF BuildInv, DriftIsSeen
<1>6. \/ UNCHANGED << source, out, buildVars >> \/ BuildSteps \/ NewBuild \/ EditSource \/ Meddle
  <2>1. CASE DoctorSteps
    BY <2>1 DEF DoctorSteps, GiveUp, ReadConfig, LookAtLink, Pin, LoadSnapshot, Endangered, Locate,
         ReadInstalled, ReadHooks, ReadMarketplace, ReadSource, Verify, Capture
  <2>2. CASE NewDoctor
    BY <2>2 DEF NewDoctor, StartDoctor
  <2>3. CASE Change
    BY <2>3 DEF Change
  <2>4. CASE UNCHANGED vars
    BY <2>4 DEF vars
  <2> QED BY <2>1, <2>2, <2>3, <2>4 DEF Next, Build, Doctor
<1> QED BY <1>1, <1>2, <1>3, <1>4, <1>5, <1>6

(***************************************************************************)
(* Undisturbed, a write or a check that ends well has everything in place, *)
(* and a check that ends badly is right, whatever the writes before it     *)
(* have left behind.                                                       *)
(***************************************************************************)
THEOREM AllDriftIsSeen == Spec => []DriftIsSeen
<1>1. BuildInv => DriftIsSeen
  BY DEF BuildInv
<1> QED BY <1>1, BuildInvInit, BuildInvNext, PTL DEF Spec


-----------------------------------------------------------------------------
(***************************************************************************)
(* The doctor.  Has(S, c): some observation has the exit code c.           *)
(***************************************************************************)
Has(S, c) == \E o \in S : o.rc = c

LEMMA DecisionIs ==
  ASSUME NEW S
  PROVE  /\ Decision(S) = 1 <=> Has(S, 1)
         /\ Decision(S) = 0 <=> ~Has(S, 1) /\ ~Has(S, 2)
<1>1. Decision(S) = IF Has(S, 1) THEN 1 ELSE IF Has(S, 2) THEN 2 ELSE 0
  BY DEF Decision, Has
<1>2. CASE Has(S, 1)
  BY <1>1, <1>2
<1>3. CASE ~Has(S, 1)
  BY <1>1, <1>3
<1> QED BY <1>2, <1>3

LEMMA OneMore ==
  ASSUME NEW S, NEW code, NEW layer, NEW c
  PROVE  Has(S \cup {Observation(code, layer)}, c) <=> Has(S, c) \/ c = code
<1>1. PICK o : o = Observation(code, layer)
  OBVIOUS
<1>2. o.rc = code
  BY <1>1 DEF Observation
<1>3. Has(S \cup {o}, c) <=> Has(S, c) \/ o.rc = c
  BY DEF Has
<1> QED BY <1>1, <1>2, <1>3

(***************************************************************************)
(* What has been read, phase by phase, while nothing has changed.          *)
(***************************************************************************)
FirstEvidence == {Seen("config", config), Seen("plugin_store", named)}

StoreEvidence == FirstEvidence \cup {Seen("plugin_manifest", << picked, Truth(picked).version >>)}

HookEvidence ==
  StoreEvidence \cup
  (IF Truth(picked).hooks \notin {"undeclared", "missing"}
   THEN {Seen("hook_manifest", Truth(picked).hooks)} ELSE {})

AfterPin == {"snapshot", "installation", "hooks", "marketplace", "source", "verify", "capture", "reverify"}
AfterLocate == AfterPin \ {"snapshot", "installation"}
AfterSource == {"verify", "capture", "reverify"}

EarlySight ==
  /\ dpc \in {"config", "store", "snapshot", "installation", "hooks"} => found = {}
  /\ dpc \in {"config", "store", "snapshot"} => picked = Missing
  /\ dpc = "config" => link = 0
  /\ dpc = "store" => /\ seen = config /\ config # Broken /\ link \in {0, named.link}
                      /\ origins = {Seen("config", config)}
  /\ dpc = "snapshot" => asked.snapshot

PinSight ==
  /\ dpc \in AfterPin => /\ seen = config /\ config # Broken /\ Actual.safe
                         /\ link = named.link /\ pinned = named.store
  /\ dpc \in {"snapshot", "installation"} => origins = FirstEvidence
  /\ dpc = "installation" => picked = Missing \/ Located = {picked}

LocateSight ==
  dpc \in AfterLocate =>
    Located = {picked} /\ installed = Truth(picked) /\ ~Bad(installed.version)

HookSight ==
  /\ dpc = "hooks" => origins = StoreEvidence
  /\ dpc \in {"marketplace", "source"} => (Has(found, 1) <=> Truth(picked).hooks = "torn")
  /\ dpc = "marketplace" => origins = HookEvidence
  /\ dpc = "source" => /\ out[Marketplace] \notin {Missing, Torn}
                       /\ origins = HookEvidence \cup {Seen("marketplace_manifest", out[Marketplace])}

SourceSight ==
  dpc \in AfterSource =>
    /\ Has(found, 1) <=> Defective
    /\ ~Has(found, 1) /\ ~Has(found, 2) => Matching /\ origins = Evidence

DoneSight ==
  dpc = "done" =>
    /\ drc = 0 => Matching /\ (asked.snapshot => saved = Evidence)
    /\ config # Broken /\ asked.parser /\ ~asked.snapshot => (drc = 1 <=> Defective)

Sight == EarlySight /\ PinSight /\ LocateSight /\ HookSight /\ SourceSight /\ DoneSight

WorldInv ==
  /\ stores \in [Stores -> Installs]
  /\ named \in [store : Stores, link : Nat \ {0}]

DoctorInv ==
  /\ WorldInv
  /\ dpc = "done" /\ drc = 0 => ending = pinned
  /\ still => Sight

LEMMA DoctorInvInit == Init => DoctorInv
<1> SUFFICES ASSUME Init PROVE DoctorInv
  OBVIOUS
<1>1. PICK p \in Plans : stores \in [Stores -> p.installs]
  BY DEF Init
<1>2. stores \in [Stores -> Installs]
  BY <1>1, PlansAssumption DEF PlansAssumption
<1>3. named = [store |-> CHOOSE s \in Stores : TRUE, link |-> 1]
  BY DEF Init
<1>4. (CHOOSE s \in Stores : TRUE) \in Stores
  BY StoresAssumption DEF StoresAssumption
<1>5. dpc = "idle" /\ ~still
  BY DEF Init, DoctorInit
<1> QED BY <1>2, <1>3, <1>4, <1>5 DEF DoctorInv, WorldInv

(***************************************************************************)
(* What a diagnosis of this one version directory can find.                *)
(***************************************************************************)
LEMMA OneDirectory ==
  ASSUME Actual.safe, Located = {picked}, ~Bad(Truth(picked).version)
  PROVE  /\ Defective <=> Truth(picked).hooks = "torn" \/ SourceDefect(picked)
         /\ Matching <=> /\ out[Marketplace] \notin {Missing, Torn}
                         /\ out[Manifest] \notin {Missing, Torn}
                         /\ Truth(picked).version = out[Manifest].version
         /\ Evidence = HookEvidence \cup {Seen("marketplace_manifest", out[Marketplace]),
                                          Seen("source_manifest", out[Manifest])}
         /\ picked \in DOMAIN Actual.cache
<1>1. picked \in DOMAIN Actual.cache
  BY DEF Located
<1>2. Defective <=> Truth(picked).hooks = "torn" \/ SourceDefect(picked)
  BY <1>1 DEF Defective
<1>3. Matching <=> /\ out[Marketplace] \notin {Missing, Torn}
                   /\ out[Manifest] \notin {Missing, Torn}
                   /\ Truth(picked).version = out[Manifest].version
  BY DEF Matching
<1>4. {Seen("plugin_manifest", << d, Truth(d).version >>) : d \in Located}
        = {Seen("plugin_manifest", << picked, Truth(picked).version >>)}
  OBVIOUS
<1>5. {Seen("hook_manifest", Truth(d).hooks) :
         d \in {x \in Located : Truth(x).hooks \notin {"undeclared", "missing"}}}
        = IF Truth(picked).hooks \notin {"undeclared", "missing"}
          THEN {Seen("hook_manifest", Truth(picked).hooks)} ELSE {}
  <2>1. {x \in Located : Truth(x).hooks \notin {"undeclared", "missing"}}
          = IF Truth(picked).hooks \notin {"undeclared", "missing"} THEN {picked} ELSE {}
    OBVIOUS
  <2> QED BY <2>1
<1>6. Evidence = HookEvidence \cup {Seen("marketplace_manifest", out[Marketplace]),
                                    Seen("source_manifest", out[Manifest])}
  BY <1>4, <1>5 DEF Evidence, HookEvidence, StoreEvidence, FirstEvidence
<1> QED BY <1>1, <1>2, <1>3, <1>6

(***************************************************************************)
(* What a step that leaves the world alone leaves of the truth about it.   *)
(***************************************************************************)
LEMMA TruthStays ==
  ASSUME UNCHANGED << out, worldVars, asked >>
  PROVE  /\ Actual' = Actual /\ Located' = Located
         /\ Defective' = Defective /\ Matching' = Matching
         /\ Evidence' = Evidence /\ FirstEvidence' = FirstEvidence
<1>1. Actual' = Actual
  BY DEF Actual, worldVars
<1>2. Located' = Located
  BY <1>1 DEF Located
<1>3. \A d : Truth(d)' = Truth(d)
  BY <1>1 DEF Truth
<1>4. \A d : SourceDefect(d)' = SourceDefect(d)
  BY <1>3 DEF SourceDefect, worldVars
<1>5. Defective' = Defective
  BY <1>1, <1>2, <1>3, <1>4 DEF Defective
<1>6. Matching' = Matching
  BY <1>1, <1>2, <1>3 DEF Matching
<1>7. Evidence' = Evidence /\ FirstEvidence' = FirstEvidence
  BY <1>2, <1>3 DEF Evidence, FirstEvidence, worldVars
<1> QED BY <1>1, <1>2, <1>5, <1>6, <1>7

LEMMA ChoiceStays ==
  ASSUME UNCHANGED << out, worldVars, asked, picked >>
  PROVE  /\ Truth(picked)' = Truth(picked)
         /\ StoreEvidence' = StoreEvidence /\ HookEvidence' = HookEvidence
<1>1. Truth(picked)' = Truth(picked)
  BY TruthStays DEF Truth
<1>2. StoreEvidence' = StoreEvidence
  BY <1>1, TruthStays DEF StoreEvidence
<1> QED BY <1>1, <1>2 DEF HookEvidence

(***************************************************************************)
(* Nothing else that a step does matters, as long as nothing has changed.  *)
(***************************************************************************)
LEMMA SightStays ==
  ASSUME Sight, UNCHANGED << out, worldVars >>,
         UNCHANGED << saved, dpc, asked, seen, link, pinned, picked, installed, origins, found, drc >>
  PROVE  Sight'
<1>1. EarlySight'
  BY DEF Sight, EarlySight, worldVars
<1>2. PinSight'
  BY TruthStays DEF Sight, PinSight, AfterPin, worldVars
<1>3. LocateSight'
  BY TruthStays, ChoiceStays DEF Sight, LocateSight, AfterLocate, AfterPin, Bad
<1>4. HookSight'
  BY ChoiceStays DEF Sight, HookSight, Has
<1>5. SourceSight'
  BY TruthStays DEF Sight, SourceSight, AfterSource, Has
<1>6. DoneSight'
  BY TruthStays DEF Sight, DoneSight, worldVars
<1> QED BY <1>1, <1>2, <1>3, <1>4, <1>5, <1>6 DEF Sight

(***************************************************************************)
(* An error ends the diagnosis.                                            *)
(***************************************************************************)
LEMMA StopIs ==
  ASSUME NEW code \in {1, 2}, NEW layer, Stop(code, layer)
  PROVE  /\ dpc' = "done" /\ drc' # 0
         /\ drc' = 1 <=> Has(found, 1) \/ code = 1
<1> DEFINE more == found \cup {Observation(code, layer)}
<1>1. dpc' = "done" /\ drc' = Decision(more)
  BY DEF Stop, Conclude
<1>2. \A c : Has(more, c) <=> Has(found, c) \/ c = code
  BY OneMore
<1>3. /\ Decision(more) = 1 <=> Has(more, 1)
      /\ Decision(more) = 0 <=> ~Has(more, 1) /\ ~Has(more, 2)
  BY DecisionIs
<1> HIDE DEF more
<1> QED BY <1>1, <1>2, <1>3

LEMMA DoneIsAll ==
  ASSUME dpc' = "done", DoneSight'
  PROVE  Sight'
BY DEF Sight, EarlySight, PinSight, LocateSight, HookSight, SourceSight, AfterPin, AfterLocate, AfterSource

LEMMA NoneFound == \A c : ~Has({}, c)
BY DEF Has

(***************************************************************************)
(* The steps of the doctor, each while nothing has changed.                *)
(***************************************************************************)
LEMMA ConfigIsSeen ==
  ASSUME Sight, ReadConfig
  PROVE  Sight'
<1>1. dpc = "config" /\ found = {} /\ picked = Missing /\ link = 0
  BY DEF ReadConfig, Sight, EarlySight
<1>2. UNCHANGED << out, worldVars, saved, asked, link, picked >>
  BY DEF ReadConfig
<1>3. CASE (config = Broken \/ (~asked.parser /\ ~asked.snapshot)) /\ Stop(2, "config")
  <2>1. dpc' = "done" /\ drc' # 0
    BY <1>3, StopIs
  <2>2. DoneSight'
    BY <1>2, <1>3, <2>1 DEF DoneSight, worldVars
  <2> QED BY <2>1, <2>2, DoneIsAll
<1>4. CASE /\ config # Broken
           /\ seen' = config /\ origins' = {Seen("config", config)}
           /\ Goto("store") /\ UNCHANGED << found, drc >>
  <2>1. dpc' = "store" /\ found' = {} /\ picked' = Missing /\ link' = 0 /\ config' = config
    BY <1>1, <1>2, <1>4 DEF Goto, worldVars
  <2> QED BY <1>4, <2>1 DEF Sight, EarlySight, PinSight, LocateSight, HookSight, SourceSight, DoneSight,
            AfterPin, AfterLocate, AfterSource
<1> QED BY <1>3, <1>4 DEF ReadConfig

LEMMA LinkIsSeen ==
  ASSUME Sight, LookAtLink
  PROVE  Sight'
<1>1. dpc = "store" /\ dpc' = "store" /\ link' = named.link
  BY DEF LookAtLink
<1>2. UNCHANGED << worldVars, seen, picked, origins, found >>
  BY DEF LookAtLink
<1> QED BY <1>1, <1>2 DEF Sight, EarlySight, PinSight, LocateSight, HookSight, SourceSight, DoneSight,
          AfterPin, AfterLocate, AfterSource, worldVars

LEMMA StoreIsPinned ==
  ASSUME Sight, Pin
  PROVE  Sight'
<1>1. /\ dpc = "store" /\ seen = config /\ config # Broken /\ link = named.link
      /\ origins = {Seen("config", config)} /\ found = {} /\ picked = Missing
  BY DEF Pin, Sight, EarlySight
<1>2. UNCHANGED << out, worldVars, saved, asked, seen, link, picked >>
  BY DEF Pin
<1>3. CASE ~stores[named.store].safe /\ Stop(1, "store")
  <2>1. dpc' = "done" /\ drc' # 0 /\ drc' = 1
    BY <1>3, StopIs
  <2>2. Defective
    BY <1>3 DEF Defective, Actual
  <2>3. DoneSight'
    BY <1>2, <2>1, <2>2, TruthStays DEF DoneSight
  <2> QED BY <2>1, <2>3, DoneIsAll
<1>4. CASE /\ stores[named.store].safe /\ pinned' = named.store
           /\ origins' = origins \cup {Seen("plugin_store", named)}
           /\ Goto(IF asked.snapshot THEN "snapshot" ELSE "installation")
           /\ UNCHANGED << found, drc >>
  <2>1. /\ dpc' = (IF asked.snapshot THEN "snapshot" ELSE "installation")
        /\ found' = {} /\ picked' = Missing /\ asked' = asked
    BY <1>1, <1>2, <1>4 DEF Goto
  <2>2. EarlySight'
    BY <2>1 DEF EarlySight
  <2>3. seen' = config' /\ config' # Broken /\ link' = named'.link /\ pinned' = named'.store
    BY <1>1, <1>2, <1>4 DEF worldVars
  <2>4. Actual'.safe
    BY <1>2, <1>4, TruthStays DEF Actual
  <2>5. origins' = FirstEvidence'
    BY <1>1, <1>2, <1>4, TruthStays DEF FirstEvidence
  <2>6. PinSight'
    BY <2>1, <2>3, <2>4, <2>5 DEF PinSight
  <2> QED BY <2>1, <2>2, <2>6 DEF Sight, LocateSight, HookSight, SourceSight, DoneSight,
            AfterPin, AfterLocate, AfterSource
<1> QED BY <1>1, <1>3, <1>4 DEF Pin

LEMMA SnapshotIsLoaded ==
  ASSUME Sight, LoadSnapshot
  PROVE  Sight'
<1>1. dpc = "snapshot" /\ asked.snapshot /\ found = {} /\ picked = Missing /\ origins = FirstEvidence
  BY DEF LoadSnapshot, Sight, EarlySight, PinSight
<1>2. /\ seen = config /\ config # Broken /\ Actual.safe /\ link = named.link /\ pinned = named.store
  BY <1>1 DEF Sight, PinSight, AfterPin
<1>3. UNCHANGED << out, worldVars, saved, asked, seen, link, pinned, picked, origins >>
  BY DEF LoadSnapshot
<1>4. CASE Stop(2, "config")
  <2>1. dpc' = "done" /\ drc' # 0
    BY <1>4, StopIs
  <2>2. DoneSight'
    BY <1>1, <1>3, <2>1 DEF DoneSight
  <2> QED BY <2>1, <2>2, DoneIsAll
<1>5. CASE Goto("installation") /\ UNCHANGED << found, drc >>
  <2>1. dpc' = "installation" /\ found' = {} /\ picked' = Missing
    BY <1>1, <1>3, <1>5 DEF Goto
  <2>2. PinSight'
    BY <1>1, <1>2, <1>3, <2>1, TruthStays DEF PinSight, worldVars
  <2> QED BY <2>1, <2>2 DEF Sight, EarlySight, LocateSight, HookSight, SourceSight, DoneSight,
            AfterPin, AfterLocate, AfterSource
<1> QED BY <1>4, <1>5 DEF LoadSnapshot

LEMMA StoreIsSafe ==
  ASSUME Sight, dpc \in AfterPin
  PROVE  /\ Safe /\ Cache = Actual.cache /\ Actual.safe
         /\ seen = config /\ config # Broken /\ link = named.link /\ pinned = named.store
BY DEF Sight, PinSight, Safe, Cache, Actual

LEMMA OneIsLocated ==
  ASSUME WorldInv, asked.given = Missing, NEW d \in DOMAIN Actual.cache, Cardinality(DOMAIN Actual.cache) = 1
  PROVE  Located = {d}
<1>1. IsFiniteSet(DOMAIN Actual.cache)
  BY InstallsAssumption DEF InstallsAssumption, WorldInv, Actual
<1>2. DOMAIN Actual.cache = {d}
  BY <1>1, FS_Singleton
<1> QED BY <1>2 DEF Located

LEMMA DirectoryIsLocated ==
  ASSUME WorldInv, Sight, Locate
  PROVE  Sight'
<1>1. /\ dpc = "installation" /\ found = {} /\ picked = Missing /\ origins = FirstEvidence
  BY DEF Locate, Sight, EarlySight, PinSight
<1>2. /\ Cache = Actual.cache /\ Actual.safe
      /\ seen = config /\ config # Broken /\ link = named.link /\ pinned = named.store
  BY <1>1, StoreIsSafe DEF AfterPin
<1>3. UNCHANGED << out, worldVars, saved, asked, seen, link, pinned, origins >>
  BY DEF Locate
<1>4. CASE /\ asked.given = Missing /\ Cardinality(DOMAIN Cache) # 1
           /\ Stop(IF DOMAIN Cache = {} THEN 1 ELSE 2, "installation")
  <2>1. /\ dpc' = "done" /\ drc' # 0
        /\ drc' = 1 <=> DOMAIN Cache = {}
    BY <1>1, <1>4, StopIs, NoneFound
  <2>2. Located = {}
    BY <1>2, <1>4 DEF Located
  <2>3. Defective <=> DOMAIN Cache = {}
    BY <1>2, <1>4, <2>2 DEF Defective
  <2>4. DoneSight'
    BY <2>1, <2>3, <1>3, TruthStays DEF DoneSight
  <2> QED BY <2>1, <2>4, DoneIsAll
<1>5. CASE /\ asked.given # Missing /\ asked.given \notin DOMAIN Cache
           /\ Stop(2, "installation")
  <2>1. dpc' = "done" /\ drc' # 0 /\ drc' # 1
    BY <1>1, <1>5, StopIs, NoneFound
  <2>2. Located = {}
    BY <1>2, <1>5 DEF Located
  <2>3. ~Defective
    BY <1>2, <1>5, <2>2 DEF Defective
  <2>4. DoneSight'
    BY <2>1, <2>3, <1>3, TruthStays DEF DoneSight
  <2> QED BY <2>1, <2>4, DoneIsAll
<1>6. CASE /\ picked' \in IF asked.given = Missing THEN DOMAIN Cache ELSE DOMAIN Cache \cap {asked.given}
           /\ asked.given = Missing => Cardinality(DOMAIN Cache) = 1
           /\ UNCHANGED << dpc, found, drc >>
  <2>1. Located = {picked'}
    <3>1. CASE asked.given = Missing
      BY <1>2, <1>6, <3>1, OneIsLocated
    <3>2. CASE asked.given # Missing
      BY <1>2, <1>6, <3>2 DEF Located
    <3> QED BY <3>1, <3>2
  <2>2. dpc' = "installation" /\ found' = {}
    BY <1>1, <1>6
  <2>3. PinSight'
    BY <1>1, <1>2, <1>3, <2>1, <2>2, TruthStays DEF PinSight, worldVars
  <2> QED BY <2>2, <2>3 DEF Sight, EarlySight, LocateSight, HookSight, SourceSight, DoneSight,
            AfterPin, AfterLocate, AfterSource
<1> QED BY <1>1, <1>4, <1>5, <1>6 DEF Locate

LEMMA PluginIsRead ==
  ASSUME Sight, ReadInstalled
  PROVE  Sight'
<1>1. dpc = "installation" /\ found = {} /\ Located = {picked} /\ origins = FirstEvidence
  BY DEF ReadInstalled, Sight, EarlySight, PinSight
<1>2. /\ Cache = Actual.cache /\ Actual.safe
      /\ seen = config /\ config # Broken /\ link = named.link /\ pinned = named.store
  BY <1>1, StoreIsSafe DEF AfterPin
<1>3. UNCHANGED << out, worldVars, saved, asked, seen, link, pinned, picked >>
  BY DEF ReadInstalled
<1>4. picked \in DOMAIN Cache /\ Cache[picked] = Truth(picked)
  BY <1>1, <1>2 DEF Located, Truth
<1>5. CASE Bad(Cache[picked].version) /\ Stop(1, "installation")
  <2>1. dpc' = "done" /\ drc' # 0 /\ drc' = 1
    BY <1>5, StopIs
  <2>2. Defective
    BY <1>1, <1>4, <1>5 DEF Defective
  <2>3. DoneSight'
    BY <2>1, <2>2, <1>3, TruthStays DEF DoneSight
  <2> QED BY <2>1, <2>3, DoneIsAll
<1>6. CASE /\ ~Bad(Cache[picked].version) /\ installed' = Cache[picked]
           /\ origins' = origins \cup {Seen("plugin_manifest", << picked, Cache[picked].version >>)}
           /\ Goto("hooks") /\ UNCHANGED << found, drc >>
  <2>1. dpc' = "hooks" /\ found' = {}
    BY <1>1, <1>6 DEF Goto
  <2>2. LocateSight'
    <3>1. ~Bad(installed'.version)
      BY <1>6
    <3> QED BY <3>1, <1>1, <1>3, <1>4, <1>6, TruthStays, ChoiceStays DEF LocateSight, Bad
  <2>3. origins' = StoreEvidence'
    BY <1>1, <1>3, <1>4, <1>6, ChoiceStays DEF StoreEvidence
  <2>4. PinSight'
    BY <1>2, <1>3, <2>1, TruthStays DEF PinSight, worldVars
  <2>5. EarlySight' /\ HookSight'
    BY <2>1, <2>3 DEF EarlySight, HookSight
  <2> QED BY <2>1, <2>2, <2>4, <2>5 DEF Sight, SourceSight, DoneSight, AfterSource
<1> QED BY <1>4, <1>5, <1>6 DEF ReadInstalled

(***************************************************************************)
(* Once a directory has been picked.                                       *)
(***************************************************************************)
LEMMA PickedIs ==
  ASSUME WorldInv, Sight, dpc \in AfterLocate
  PROVE  /\ dpc \in AfterPin /\ Located = {picked} /\ picked \in DOMAIN Cache /\ Cache[picked] = Truth(picked)
         /\ installed = Truth(picked) /\ ~Bad(Truth(picked).version)
         /\ Truth(picked).hooks \in {"undeclared", "missing", "torn", "unsupported", "fine"}
<1>1. dpc \in AfterPin /\ Located = {picked} /\ installed = Truth(picked) /\ ~Bad(Truth(picked).version)
  BY DEF AfterLocate, Sight, LocateSight
<1>2. Cache = Actual.cache
  BY <1>1, StoreIsSafe
<1>3. picked \in DOMAIN Cache /\ Cache[picked] = Truth(picked)
  BY <1>1, <1>2 DEF Located, Truth
<1>4. Actual \in Installs
  BY DEF WorldInv, Actual
<1>5. Truth(picked).hooks \in {"undeclared", "missing", "torn", "unsupported", "fine"}
  BY <1>2, <1>3, <1>4, InstallsAssumption DEF InstallsAssumption, Truth
<1> QED BY <1>1, <1>3, <1>5

LEMMA LaterIsSeen ==
  ASSUME Sight, dpc \in AfterLocate, dpc' \in AfterLocate,
         UNCHANGED << out, worldVars, asked, seen, link, pinned, picked, installed >>
  PROVE  /\ dpc' # "hooks" => EarlySight'
         /\ PinSight' /\ LocateSight'
<1>1. dpc \in AfterPin /\ dpc' \in AfterPin
  BY DEF AfterLocate
<1>2. PinSight'
  BY <1>1, StoreIsSafe, TruthStays DEF AfterLocate, AfterPin, PinSight, worldVars
<1>3. LocateSight'
  <2>1. Located = {picked} /\ installed = Truth(picked) /\ ~Bad(installed.version)
    BY DEF Sight, LocateSight
  <2> QED BY <2>1, TruthStays, ChoiceStays DEF LocateSight, Bad
<1>4. dpc' # "hooks" => EarlySight'
  BY DEF EarlySight, AfterLocate, AfterPin
<1> QED BY <1>2, <1>3, <1>4

LEMMA HooksAreRead ==
  ASSUME WorldInv, Sight, ReadHooks, still'
  PROVE  Sight'
<1>1. dpc = "hooks" /\ dpc' = "marketplace" /\ found = {} /\ origins = StoreEvidence
  BY DEF ReadHooks, Goto, Sight, EarlySight, HookSight
<1>2. dpc \in AfterLocate /\ dpc' \in AfterLocate
  BY <1>1 DEF AfterLocate, AfterPin
<1>3. UNCHANGED << out, worldVars, saved, asked, seen, link, pinned, picked, installed >>
  BY DEF ReadHooks
<1>4. EarlySight' /\ PinSight' /\ LocateSight'
  BY <1>1, <1>2, <1>3, LaterIsSeen
<1>5. HookFile = Truth(picked).hooks /\ installed = Truth(picked) /\ Safe
  BY <1>2, PickedIs, StoreIsSafe DEF HookFile
<1>6. HookFile \in {"undeclared", "missing", "torn", "unsupported", "fine"}
  BY <1>2, <1>5, PickedIs
<1>7. HookCode = 1 <=> HookFile = "torn"
  BY <1>5, <1>6 DEF HookCode
<1>8. (Has(found', 1) <=> HookFile = "torn") /\ origins' = HookEvidence
  <2>1. CASE installed.hooks = "undeclared" /\ UNCHANGED << found, origins >>
    BY <1>1, <1>5, <2>1, NoneFound DEF HookEvidence
  <2>2. CASE /\ installed.hooks # "undeclared"
             /\ found' = found \cup {Observation(HookCode, "hooks")}
             /\ origins' = origins \cup
                  (IF Safe /\ HookFile \notin {"undeclared", "missing"} THEN {Seen("hook_manifest", HookFile)} ELSE {})
    <3>1. Has(found', 1) <=> 1 = HookCode
      BY <1>1, <2>2, OneMore, NoneFound
    <3>2. origins' = HookEvidence
      BY <1>1, <1>5, <2>2 DEF HookEvidence
    <3> QED BY <3>1, <3>2, <1>7
  <2> QED BY <2>1, <2>2 DEF ReadHooks
<1>9. HookSight'
  <2>1. Truth(picked)' = Truth(picked) /\ HookEvidence' = HookEvidence
    BY <1>3, ChoiceStays
  <2>2. Has(found', 1) <=> Truth(picked)'.hooks = "torn"
    BY <2>1, <1>5, <1>8
  <2> QED BY <2>1, <2>2, <1>1, <1>8 DEF HookSight, Has
<1> QED BY <1>1, <1>4, <1>9 DEF Sight, SourceSight, DoneSight, AfterSource

(***************************************************************************)
(* An error about the source is a defect of a local source, and of no      *)
(* other.                                                                  *)
(***************************************************************************)
LEMMA SourceErrorIsSeen ==
  ASSUME WorldInv, Sight, dpc \in {"marketplace", "source"}, NEW code \in {1, 2}, SourceError(code),
         config.type = "local" /\ code = 1 <=> SourceDefect(picked),
         UNCHANGED << out, worldVars, saved, asked, seen, link, pinned, picked, installed, drc >>
  PROVE  Sight'
<1>1. dpc \in AfterLocate /\ dpc' = "verify" /\ dpc' \in AfterLocate
  BY DEF AfterLocate, AfterPin, SourceError, Goto
<1>2. EarlySight' /\ PinSight' /\ LocateSight'
  BY <1>1, LaterIsSeen
<1>3. PICK c : c = IF Local THEN code ELSE 2
  OBVIOUS
<1>4. \A x : Has(found', x) <=> Has(found, x) \/ x = c
  BY <1>3, OneMore DEF SourceError
<1>5. c \in {1, 2} /\ (c = 1 <=> SourceDefect(picked))
  <2>1. Local <=> config.type = "local"
    BY <1>1, PickedIs, StoreIsSafe DEF Local
  <2> QED BY <1>3, <2>1
<1>6. Has(found, 1) <=> Truth(picked).hooks = "torn"
  BY DEF Sight, HookSight
<1>7. Defective <=> Truth(picked).hooks = "torn" \/ SourceDefect(picked)
  BY <1>1, PickedIs, StoreIsSafe, OneDirectory
<1>8. (Has(found', 1) <=> Defective) /\ (Has(found', 1) \/ Has(found', 2))
  BY <1>4, <1>5, <1>6, <1>7
<1>9. SourceSight'
  BY <1>8, TruthStays DEF SourceSight, Has
<1> QED BY <1>1, <1>2, <1>9 DEF Sight, HookSight, DoneSight

LEMMA MarketplaceIsRead ==
  ASSUME WorldInv, Sight, ReadMarketplace, still'
  PROVE  Sight'
<1>1. dpc = "marketplace" /\ dpc \in AfterLocate
  BY DEF ReadMarketplace, AfterLocate, AfterPin
<1>2. UNCHANGED << out, worldVars, saved, asked, seen, link, pinned, picked, installed, drc >>
  BY DEF ReadMarketplace
<1>3. Local <=> config.type = "local"
  BY <1>1, PickedIs, StoreIsSafe DEF Local
<1>4. CASE ~Local /\ SourceError(2)
  <2>1. ~SourceDefect(picked)
    BY <1>3, <1>4 DEF SourceDefect
  <2> QED BY <1>1, <1>2, <1>3, <1>4, <2>1, SourceErrorIsSeen
<1>5. CASE out[Marketplace] = Missing /\ SourceError(2)
  <2>1. ~SourceDefect(picked)
    BY <1>5, FilesAssumption DEF SourceDefect
  <2> QED BY <1>1, <1>2, <1>5, <2>1, SourceErrorIsSeen
<1>6. CASE out[Marketplace] = Torn /\ SourceError(1)
  <2>1. config.type = "local" <=> SourceDefect(picked)
    BY <1>6 DEF SourceDefect
  <2> QED BY <1>1, <1>2, <1>6, <2>1, SourceErrorIsSeen
<1>7. CASE /\ out[Marketplace] \notin {Missing, Torn}
           /\ origins' = origins \cup {Seen("marketplace_manifest", out[Marketplace])}
           /\ Goto("source") /\ UNCHANGED found
  <2>1. dpc' = "source" /\ dpc' \in AfterLocate
    BY <1>7 DEF Goto, AfterLocate, AfterPin
  <2>2. EarlySight' /\ PinSight' /\ LocateSight'
    BY <1>1, <1>2, <2>1, LaterIsSeen
  <2>3. origins = HookEvidence /\ (Has(found, 1) <=> Truth(picked).hooks = "torn")
    BY <1>1 DEF Sight, HookSight
  <2>4. HookSight'
    <3>1. Truth(picked)' = Truth(picked) /\ HookEvidence' = HookEvidence
      BY <1>2, ChoiceStays
    <3>2. Has(found', 1) <=> Truth(picked)'.hooks = "torn"
      BY <3>1, <2>3, <1>7
    <3>3. /\ out'[Marketplace] \notin {Missing, Torn}
          /\ origins' = HookEvidence' \cup {Seen("marketplace_manifest", out'[Marketplace])}
      BY <3>1, <2>3, <1>2, <1>7
    <3> QED BY <3>2, <3>3, <2>1 DEF HookSight, Has
  <2> QED BY <2>1, <2>2, <2>4 DEF Sight, SourceSight, DoneSight, AfterSource
<1> QED BY <1>4, <1>5, <1>6, <1>7 DEF ReadMarketplace

LEMMA SourceIsRead ==
  ASSUME WorldInv, Sight, ReadSource, still'
  PROVE  Sight'
<1>1. dpc = "source" /\ dpc \in AfterLocate
  BY DEF ReadSource, AfterLocate, AfterPin
<1>2. UNCHANGED << out, worldVars, saved, asked, seen, link, pinned, picked, installed, drc >>
  BY DEF ReadSource
<1>3. /\ out[Marketplace] \notin {Missing, Torn}
      /\ origins = HookEvidence \cup {Seen("marketplace_manifest", out[Marketplace])}
      /\ Has(found, 1) <=> Truth(picked).hooks = "torn"
  BY <1>1 DEF Sight, HookSight
<1>4. /\ SourceDefect(picked) <=>
           /\ config.type = "local"
           /\ out[Manifest] \in {Missing, Torn} \/ out[Manifest].version # Truth(picked).version
  BY <1>3 DEF SourceDefect
<1>5. installed = Truth(picked)
  BY <1>1, PickedIs
<1>6. CASE out[Manifest] \in {Missing, Torn} /\ SourceError(1)
  BY <1>1, <1>2, <1>4, <1>6, SourceErrorIsSeen
<1>7. CASE /\ out[Manifest] \notin {Missing, Torn} /\ Compare(out[Manifest]) # 0
           /\ SourceError(1)
  <2>1. out[Manifest].version # Truth(picked).version
    BY <1>5, <1>7 DEF Compare
  <2> QED BY <1>1, <1>2, <1>4, <1>7, <2>1, SourceErrorIsSeen
<1>8. CASE /\ out[Manifest] \notin {Missing, Torn} /\ Compare(out[Manifest]) = 0
           /\ origins' = origins \cup {Seen("source_manifest", out[Manifest])}
           /\ found' = found \cup {Observation(0, "source")} /\ Goto("verify")
  <2>1. dpc' = "verify" /\ dpc' \in AfterLocate
    BY <1>8 DEF Goto, AfterLocate, AfterPin
  <2>2. EarlySight' /\ PinSight' /\ LocateSight'
    BY <1>1, <1>2, <2>1, LaterIsSeen
  <2>3. out[Manifest].version = Truth(picked).version
    BY <1>5, <1>8 DEF Compare
  <2>4. Has(found', 1) <=> Has(found, 1)
    BY <1>8, OneMore
  <2>5. /\ Defective <=> Truth(picked).hooks = "torn" \/ SourceDefect(picked)
        /\ Matching <=> /\ out[Marketplace] \notin {Missing, Torn}
                        /\ out[Manifest] \notin {Missing, Torn}
                        /\ Truth(picked).version = out[Manifest].version
        /\ Evidence = HookEvidence \cup {Seen("marketplace_manifest", out[Marketplace]),
                                         Seen("source_manifest", out[Manifest])}
    BY <1>1, PickedIs, StoreIsSafe, OneDirectory
  <2>6. ~SourceDefect(picked)
    BY <1>4, <1>8, <2>3
  <2>7. Has(found', 1) <=> Defective
    BY <1>3, <2>4, <2>5, <2>6
  <2>8. Matching
    BY <1>3, <1>8, <2>3, <2>5
  <2>9. origins' = Evidence
    BY <1>3, <1>8, <2>5
  <2>10. SourceSight'
    BY <2>7, <2>8, <2>9, <1>2, TruthStays DEF SourceSight, Has
  <2> QED BY <2>1, <2>2, <2>10 DEF Sight, HookSight, DoneSight
<1> QED BY <1>6, <1>7, <1>8 DEF ReadSource

LEMMA StoreIsVerified ==
  ASSUME WorldInv, Sight, Verify
  PROVE  Sight'
<1>1. dpc \in AfterSource /\ dpc \in AfterLocate /\ dpc \in AfterPin
  BY DEF Verify, AfterSource, AfterLocate, AfterPin
<1>2. UNCHANGED << out, worldVars, saved, asked, seen, link, pinned, picked, installed, origins >>
  BY DEF Verify
<1>3. Safe /\ Actual.safe /\ Same
  BY <1>1, StoreIsSafe DEF Same
<1>4. stores[named.store].safe
  BY <1>3 DEF Actual
<1>5. /\ Has(found, 1) <=> Defective
      /\ ~Has(found, 1) /\ ~Has(found, 2) => Matching /\ origins = Evidence
  BY <1>1 DEF Sight, SourceSight
<1>6. CASE Goto("capture") /\ UNCHANGED << found, drc >>
  <2>1. dpc' = "capture" /\ dpc' \in AfterLocate
    BY <1>6 DEF Goto, AfterLocate, AfterPin
  <2>2. EarlySight' /\ PinSight' /\ LocateSight'
    BY <1>1, <1>2, <2>1, LaterIsSeen
  <2>3. SourceSight'
    BY <1>2, <1>5, <1>6, TruthStays DEF SourceSight, Has
  <2> QED BY <2>1, <2>2, <2>3 DEF Sight, HookSight, DoneSight
<1>7. CASE Conclude(found \cup (IF Stale THEN {Observation(2, "snapshot")} ELSE {}))
  <2>1. PICK more : more = found \cup (IF Stale THEN {Observation(2, "snapshot")} ELSE {})
    OBVIOUS
  <2>2. \A c : Has(more, c) <=> Has(found, c) \/ (Stale /\ c = 2)
    <3>1. CASE Stale
      BY <2>1, <3>1, OneMore
    <3>2. CASE ~Stale
      BY <2>1, <3>2
    <3> QED BY <3>1, <3>2
  <2>3. dpc' = "done" /\ drc' = Decision(more)
    BY <1>7, <2>1 DEF Conclude
  <2>4. /\ drc' = 1 <=> Defective
        /\ drc' = 0 => ~Has(found, 1) /\ ~Has(found, 2) /\ ~Stale
    <3>1. /\ Decision(more) = 1 <=> Has(more, 1)
          /\ Decision(more) = 0 <=> ~Has(more, 1) /\ ~Has(more, 2)
      BY DecisionIs
    <3> QED BY <3>1, <2>2, <2>3, <1>5
  <2>5. drc' = 0 => Matching /\ (asked.snapshot => saved = Evidence)
    BY <2>4, <1>5 DEF Stale
  <2>6. DoneSight'
    BY <2>4, <2>5, <1>2, TruthStays DEF DoneSight
  <2> QED BY <2>3, <2>6, DoneIsAll
<1> QED BY <1>3, <1>4, <1>6, <1>7 DEF Verify

LEMMA SnapshotIsCaptured ==
  ASSUME WorldInv, Sight, Capture
  PROVE  Sight'
<1>1. dpc = "capture" /\ dpc \in AfterSource /\ dpc \in AfterLocate
  BY DEF Capture, AfterSource, AfterLocate, AfterPin
<1>2. UNCHANGED << out, worldVars, asked, seen, link, pinned, picked, installed, origins >>
  BY DEF Capture
<1>3. /\ Has(found, 1) <=> Defective
      /\ ~Has(found, 1) /\ ~Has(found, 2) => Matching /\ origins = Evidence
  BY <1>1 DEF Sight, SourceSight
<1>4. CASE Stop(2, "snapshot")
  <2>1. dpc' = "done" /\ drc' # 0 /\ (drc' = 1 <=> Has(found, 1))
    BY <1>4, StopIs
  <2>2. DoneSight'
    BY <2>1, <1>2, <1>3, TruthStays DEF DoneSight
  <2> QED BY <2>1, <2>2, DoneIsAll
<1>5. CASE Goto("reverify") /\ UNCHANGED << found, drc >>
  <2>1. dpc' = "reverify" /\ dpc' \in AfterLocate
    BY <1>5 DEF Goto, AfterLocate, AfterPin
  <2>2. EarlySight' /\ PinSight' /\ LocateSight'
    BY <1>1, <1>2, <2>1, LaterIsSeen
  <2>3. SourceSight'
    BY <1>2, <1>3, <1>5, TruthStays DEF SourceSight, Has
  <2> QED BY <2>1, <2>2, <2>3 DEF Sight, HookSight, DoneSight
<1> QED BY <1>4, <1>5 DEF Capture

(***************************************************************************)
(* Every step of the doctor.                                               *)
(***************************************************************************)
LEMMA DoctorKeepsSight ==
  ASSUME WorldInv, still => Sight, DoctorSteps, still'
  PROVE  Sight'
<1>1. still
  BY DEF DoctorSteps, GiveUp, ReadConfig, LookAtLink, Pin, LoadSnapshot, Endangered, Locate,
     ReadInstalled, ReadHooks, ReadMarketplace, ReadSource, Verify, Capture
<1>2. Sight
  BY <1>1
<1>3. ~GiveUp
  BY DEF GiveUp
<1>4. ~Endangered
  <2>1. dpc = "installation" => Safe
    BY <1>2, StoreIsSafe DEF AfterPin
  <2> QED BY <2>1 DEF Endangered
<1> QED BY <1>2, <1>3, <1>4, ConfigIsSeen, LinkIsSeen, StoreIsPinned, SnapshotIsLoaded, DirectoryIsLocated,
        PluginIsRead, HooksAreRead, MarketplaceIsRead, SourceIsRead, StoreIsVerified, SnapshotIsCaptured
     DEF DoctorSteps

(***************************************************************************)
(* A match is reported only where HOME/plugins was seen to lead to the     *)
(* store that was read.                                                    *)
(***************************************************************************)
TrueEnding == dpc = "done" /\ drc = 0 => ending = pinned

LEMMA DoctorKeepsEnding ==
  ASSUME TrueEnding, DoctorSteps
  PROVE  TrueEnding'
<1>1. CASE \E code \in {1, 2} : \E layer : Stop(code, layer)
  BY <1>1, StopIs DEF TrueEnding
<1>2. CASE dpc' \in {"config", "store", "snapshot", "installation", "hooks", "marketplace", "source",
                     "verify", "capture", "reverify"}
  BY <1>2 DEF TrueEnding
<1>3. CASE Verify
  <2>1. CASE Safe /\ Same
    BY <1>3, <2>1 DEF Verify, TrueEnding, Same
  <2>2. CASE ~(Safe /\ Same)
    <3>1. Stop(1, "store") \/ Stop(2, "store")
      BY <1>3, <2>2 DEF Verify
    <3> QED BY <3>1, <1>1
  <2> QED BY <2>1, <2>2
<1>4. CASE GiveUp \/ Endangered
  BY <1>1, <1>4 DEF GiveUp, Endangered
<1>5. CASE ReadConfig \/ LoadSnapshot \/ Capture
  BY <1>1, <1>2, <1>5 DEF ReadConfig, LoadSnapshot, Capture, Goto
<1>6. CASE Pin
  <2>1. Stop(2, "store") \/ Stop(1, "store") \/ Goto(IF asked.snapshot THEN "snapshot" ELSE "installation")
    BY <1>6 DEF Pin
  <2> QED BY <2>1, <1>1, <1>2 DEF Goto
<1>7. CASE LookAtLink
  BY <1>2, <1>7 DEF LookAtLink
<1>8. CASE Locate
  <2>1. \/ Stop(IF DOMAIN Cache = {} THEN 1 ELSE 2, "installation") \/ Stop(2, "installation")
        \/ dpc' = "installation"
    BY <1>8 DEF Locate
  <2> QED BY <2>1, <1>1, <1>2
<1>9. CASE ReadInstalled
  <2>1. Stop(1, "installation") \/ dpc' = "hooks"
    BY <1>9 DEF ReadInstalled, Goto
  <2> QED BY <2>1, <1>1, <1>2
<1>10. CASE ReadHooks \/ ReadMarketplace \/ ReadSource
  <2>1. dpc' \in {"marketplace", "source", "verify"}
    BY <1>10 DEF ReadHooks, ReadMarketplace, ReadSource, SourceError, Goto
  <2> QED BY <2>1, <1>2
<1> QED BY <1>3, <1>4, <1>5, <1>6, <1>7, <1>8, <1>9, <1>10 DEF DoctorSteps

LEMMA DoctorInvNext == DoctorInv /\ [Next]_vars => DoctorInv'
<1> SUFFICES ASSUME DoctorInv, [Next]_vars
             PROVE  DoctorInv'
  OBVIOUS
<1> USE DEF DoctorInv
<1>1. CASE DoctorSteps
  <2>1. UNCHANGED worldVars
    BY <1>1 DEF DoctorSteps, GiveUp, ReadConfig, LookAtLink, Pin, LoadSnapshot, Endangered, Locate,
       ReadInstalled, ReadHooks, ReadMarketplace, ReadSource, Verify, Capture
  <2>2. WorldInv'
    BY <2>1 DEF WorldInv, worldVars
  <2> QED BY <1>1, <2>2, DoctorKeepsSight, DoctorKeepsEnding DEF TrueEnding
<1>2. CASE \E options : StartDoctor(options)
  <2>1. /\ dpc' = "config" /\ found' = {} /\ picked' = Missing /\ link' = 0
        /\ UNCHANGED worldVars
    BY <1>2 DEF StartDoctor, Goto
  <2>2. WorldInv'
    BY <2>1 DEF WorldInv, worldVars
  <2>3. Sight'
    BY <2>1 DEF Sight, EarlySight, PinSight, LocateSight, HookSight, SourceSight, DoneSight,
       AfterPin, AfterLocate, AfterSource
  <2> QED BY <2>1, <2>2, <2>3
<1>3. CASE RestOfDoctor /\ (still' => still /\ out' = out)
  <2>1. /\ UNCHANGED worldVars
        /\ UNCHANGED << saved, dpc, asked, seen, link, pinned, picked, installed, origins, found, drc, ending >>
    BY <1>3 DEF RestOfDoctor
  <2>2. WorldInv'
    BY <2>1 DEF WorldInv, worldVars
  <2>3. still' => Sight'
    BY <1>3, <2>1, SightStays
  <2> QED BY <2>1, <2>2, <2>3
<1>4. CASE /\ Reconfigure \/ Install \/ Swap
           /\ still' = FALSE
           /\ UNCHANGED << dpc, pinned, drc, ending >>
  <2>1. CASE Reconfigure
    BY <2>1, <1>4 DEF Reconfigure, WorldInv
  <2>2. CASE Install
    <3>1. PICK s \in Stores, x \in Installs : stores' = [stores EXCEPT ![s] = x]
      BY <2>2 DEF Install
    <3>2. named' = named
      BY <2>2 DEF Install
    <3> QED BY <3>1, <3>2, <1>4 DEF WorldInv
  <2>3. CASE Swap
    <3>1. PICK s \in Stores, l \in {named.link, named.link + 1} : named' = [store |-> s, link |-> l]
      BY <2>3 DEF Swap
    <3>2. named.link \in Nat \ {0}
      BY DEF WorldInv
    <3>3. l \in Nat \ {0}
      BY <3>2
    <3>4. named' \in [store : Stores, link : Nat \ {0}] /\ stores' = stores
      BY <3>1, <3>3, <2>3 DEF Swap
    <3> QED BY <3>4, <1>4 DEF WorldInv
  <2> QED BY <2>1, <2>2, <2>3, <1>4
<1>5. CASE Build
  BY <1>3, <1>5 DEF Build, Touched
<1>6. CASE NewBuild
  BY <1>3, <1>6 DEF NewBuild, StartBuild
<1>7. CASE Doctor
  BY <1>1, <1>7 DEF Doctor
<1>8. CASE NewDoctor
  BY <1>2, <1>8 DEF NewDoctor
<1>9. CASE Change
  BY <1>3, <1>4, <1>9 DEF Change, Touched
<1>10. CASE UNCHANGED vars
  BY <1>3, <1>10 DEF vars, doctorVars, RestOfDoctor
<1> QED BY <1>5, <1>6, <1>7, <1>8, <1>9, <1>10 DEF Next

(***************************************************************************)
(* A match is true, and is of the store that HOME/plugins still leads to.  *)
(***************************************************************************)
THEOREM MatchesAreTrue == Spec => []MatchIsTrue
<1>1. DoctorInv => MatchIsTrue
  BY DEF DoctorInv, Sight, DoneSight, MatchIsTrue
<1> QED BY <1>1, DoctorInvInit, DoctorInvNext, PTL DEF Spec

(***************************************************************************)
(* A diagnosis that nothing disturbs reports a defect if there is one, and *)
(* only then.                                                              *)
(***************************************************************************)
THEOREM VerdictsAreRight == Spec => []VerdictIsRight
<1>1. DoctorInv => VerdictIsRight
  BY DEF DoctorInv, Sight, DoneSight, VerdictIsRight
<1> QED BY <1>1, DoctorInvInit, DoctorInvNext, PTL DEF Spec

=============================================================================
