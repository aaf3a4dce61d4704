--------------------------- MODULE ReleasePublish ---------------------------
(***************************************************************************)
(* A release: the macOS and the Linux job of one workflow run fill the     *)
(* same GitHub release in parallel, the macOS job publishes it and then    *)
(* moves the Homebrew tap.  Runs of one version follow each other (the     *)
(* concurrency group is the tag's ref; a run dispatched by hand while the  *)
(* tag's run still goes has another ref and is outside this model); runs   *)
(* of different versions overlap and meet at the tap.  A job may die at    *)
(* any step and the run be repeated with what is left on the servers; each *)
(* repetition builds other archives.  The scripts take any failure of      *)
(* their first `gh release view` for "there is no release".                *)
(***************************************************************************)
EXTENDS Naturals, Sequences

CONSTANTS
    Versions,
    MaxRuns,          \* [Versions -> Nat]: bound on the runs of a version
    NewestFirst       \* which of several drafts of a tag GitHub finds

ASSUME PublishAssumption == 
    /\ MaxRuns \in [Versions -> Nat]
    /\ NewestFirst \in BOOLEAN

MacAssets == {"arm64", "amd64"}
Assets    == MacAssets \cup {"linux"}
Missing   == 0

\* A release of a tag and the build each of its assets comes from.
Releases == [tag : Versions, public : BOOLEAN, asset : [Assets -> Nat]]
\* What the formula names: a version and the checksums of one build.
Formulas == [version : Versions, build : Nat]

VARIABLES
    releases,   \* the GitHub releases, in the order of their creation
    tap,        \* the commits of the tap, a formula each
    runs,       \* runs started, per version; the build of the latest one
    mac,        \* step of the macOS job
    obj,        \* the release its upload works on, 0 if none
    left,       \* assets it has still to upload
    base,       \* the tap commit it cloned, 0 for the formula before
    linux,      \* step of the Linux job
    linuxObj,   \* the release its upload works on
    blind       \* history: in this run its view failed over an existing release

macVars   == <<mac, obj, left, base>>
linuxVars == <<linux, linuxObj, blind>>
vars      == <<releases, tap, runs, macVars, linuxVars>>

MacOver   == {"idle", "ready", "failed"}
LinuxOver == {"idle", "done", "failed"}
MacSteps == MacOver \cup {"view", "create", "fill", "publish",
                          "upload", "clobber", "edit", "gate", "clone", "push"}
LinuxSteps == LinuxOver \cup {"view", "create", "upload", "put"}

Init ==
    /\ releases = <<>> /\ tap = <<>>
    /\ runs = [v \in Versions |-> 0]
    /\ mac = [v \in Versions |-> "idle"] /\ linux = [v \in Versions |-> "idle"]
    /\ obj = [v \in Versions |-> 0] /\ linuxObj = [v \in Versions |-> 0]
    /\ left = [v \in Versions |-> {}] /\ base = [v \in Versions |-> 0]
    /\ blind = [v \in Versions |-> FALSE]

-----------------------------------------------------------------------------
(* GitHub, as `gh` shows it.                                               *)

ReleasesOf(v) == {i \in DOMAIN releases : releases[i].tag = v}
PublicOf(v)   == {i \in ReleasesOf(v) : releases[i].public}

\* The release found by its tag: the public one, else one of the drafts.
Found(v) ==
    IF PublicOf(v) # {} THEN PublicOf(v)
    ELSE {i \in ReleasesOf(v) : \A j \in ReleasesOf(v) :
             IF NewestFirst THEN j <= i ELSE i <= j}

\* Drafts of a tag do not exclude each other.
CreateDraft(v) ==
    releases' = Append(releases, [tag |-> v, public |-> FALSE,
                                  asset |-> [a \in Assets |-> Missing]])

SetAsset(i, a, b) == releases' = [releases EXCEPT ![i].asset[a] = b]

Goto(v, step)      == mac' = [mac EXCEPT ![v] = step]
LinuxGoto(v, step) == linux' = [linux EXCEPT ![v] = step]

-----------------------------------------------------------------------------
(* The workflow.                                                           *)

\* A tag is pushed, or its workflow is run again.
StartRun(v) ==
    /\ mac[v] \in MacOver /\ linux[v] \in LinuxOver
    /\ runs[v] < MaxRuns[v]
    /\ runs' = [runs EXCEPT ![v] = @ + 1]
    /\ Goto(v, "view") /\ LinuxGoto(v, "view")
    /\ blind' = [blind EXCEPT ![v] = FALSE]
    /\ UNCHANGED <<releases, tap, obj, left, base, linuxObj>>

\* A command fails (set -e), or the runner is lost.
MacDies(v) ==
    /\ mac[v] \notin MacOver
    /\ Goto(v, "failed")
    /\ left' = [left EXCEPT ![v] = {}]
    /\ obj' = [obj EXCEPT ![v] = 0]
    /\ base' = [base EXCEPT ![v] = 0]
    /\ UNCHANGED <<releases, tap, runs, linuxVars>>

LinuxDies(v) ==
    /\ linux[v] \notin LinuxOver
    /\ LinuxGoto(v, "failed")
    /\ linuxObj' = [linuxObj EXCEPT ![v] = 0]
    /\ UNCHANGED <<releases, tap, runs, macVars, blind>>

-----------------------------------------------------------------------------
(* The macOS job: publish-brew-release.sh.                                 *)

\* A release that is there is found, or the command fails: its output and the
\* reason of its failure are thrown away.
MacView(v) ==
    /\ mac[v] = "view"
    /\ \/ Found(v) # {} /\ Goto(v, "upload")
       \/ Goto(v, "create")
    /\ UNCHANGED <<releases, tap, runs, obj, left, base, linuxVars>>

\* `gh release create` with assets: a draft of its own, filled, then published.
MacCreate(v) ==
    /\ mac[v] = "create" /\ PublicOf(v) = {}
    /\ CreateDraft(v)
    /\ obj' = [obj EXCEPT ![v] = Len(releases) + 1]
    /\ left' = [left EXCEPT ![v] = MacAssets]
    /\ Goto(v, "fill")
    /\ UNCHANGED <<tap, runs, base, linuxVars>>

\* Asset a is in place; the last one ends the upload.
Uploaded(v, a, step) ==
    /\ SetAsset(obj[v], a, runs[v])
    /\ left' = [left EXCEPT ![v] = @ \ {a}]
    /\ Goto(v, IF left[v] = {a} THEN step ELSE mac[v])
    /\ UNCHANGED <<tap, runs, obj, base, linuxVars>>

MacFill(v) ==
    /\ mac[v] = "fill"
    /\ \E a \in left[v] : Uploaded(v, a, "publish")

\* GitHub refuses a second public release of the tag: MacDies.
MacPublish(v) ==
    /\ mac[v] = "publish" /\ PublicOf(v) = {}
    /\ releases' = [releases EXCEPT ![obj[v]].public = TRUE]
    /\ Goto(v, "gate")
    /\ obj' = [obj EXCEPT ![v] = 0]
    /\ UNCHANGED <<tap, runs, left, base, linuxVars>>

\* Mutant of MacUpload: the Intel archive is forgotten.
MacUploadOne(v) ==
    /\ mac[v] = "upload"
    /\ \E i \in Found(v) : obj' = [obj EXCEPT ![v] = i]
    /\ left' = [left EXCEPT ![v] = {"arm64"}]
    /\ Goto(v, "clobber")
    /\ UNCHANGED <<releases, tap, runs, base, linuxVars>>

\* `gh release upload --clobber` finds the release once, at its start.
MacUpload(v) ==
    /\ mac[v] = "upload"
    /\ \E i \in Found(v) : obj' = [obj EXCEPT ![v] = i]
    /\ left' = [left EXCEPT ![v] = MacAssets]
    /\ Goto(v, "clobber")
    /\ UNCHANGED <<releases, tap, runs, base, linuxVars>>

\* An asset of the same name is deleted before the new one is uploaded.
Clobber(v) ==
    /\ mac[v] = "clobber"
    /\ \E a \in left[v] :
          /\ releases[obj[v]].asset[a] # Missing
          /\ SetAsset(obj[v], a, Missing)
    /\ UNCHANGED <<tap, runs, macVars, linuxVars>>

\* Mutant of Put: an asset that is there already is left alone.
PutUnlessThere(v) ==
    /\ mac[v] = "clobber"
    /\ \E a \in left[v] :
          \/ releases[obj[v]].asset[a] = Missing /\ Uploaded(v, a, "edit")
          \/ /\ releases[obj[v]].asset[a] # Missing
             /\ left' = [left EXCEPT ![v] = @ \ {a}]
             /\ Goto(v, IF left[v] = {a} THEN "edit" ELSE mac[v])
             /\ UNCHANGED <<releases, tap, runs, obj, base, linuxVars>>

\* Mutant of Put: the upload does not wait for all its assets.
PutFirst(v) ==
    /\ mac[v] = "clobber"
    /\ \E a \in left[v] :
          /\ releases[obj[v]].asset[a] = Missing
          /\ SetAsset(obj[v], a, runs[v])
          /\ left' = [left EXCEPT ![v] = @ \ {a}]
          /\ Goto(v, "edit")
          /\ UNCHANGED <<tap, runs, obj, base, linuxVars>>

Put(v) ==
    /\ mac[v] = "clobber"
    /\ \E a \in left[v] :
          /\ releases[obj[v]].asset[a] = Missing
          /\ Uploaded(v, a, "edit")

\* `gh release edit --draft=false` finds the release anew.  That it reports
\* success proves nothing (the next check is for that).
MacEdit(v) ==
    /\ mac[v] = "edit"
    /\ \/ \E i \in Found(v) : releases' = [releases EXCEPT ![i].public = TRUE]
       \/ UNCHANGED releases
    /\ Goto(v, "gate")
    /\ obj' = [obj EXCEPT ![v] = 0]
    /\ UNCHANGED <<tap, runs, left, base, linuxVars>>

\* Mutant of MacGate: the publication is taken for granted.
MacTrust(v) ==
    /\ mac[v] = "gate"
    /\ Goto(v, "clone")
    /\ UNCHANGED <<releases, tap, runs, obj, left, base, linuxVars>>

\* A release that is not seen to be public ends the job: MacDies.
MacGate(v) ==
    /\ mac[v] = "gate" /\ Found(v) # {} /\ Found(v) \subseteq PublicOf(v)
    /\ Goto(v, "clone")
    /\ UNCHANGED <<releases, tap, runs, obj, left, base, linuxVars>>

MacClone(v) ==
    /\ mac[v] = "clone"
    /\ base' = [base EXCEPT ![v] = Len(tap)]
    /\ Goto(v, "push")
    /\ UNCHANGED <<releases, tap, runs, obj, left, linuxVars>>

\* The formula of the tag with the version, urls and checksums of this build.
Formula(v) == [version |-> v, build |-> runs[v]]

\* The clone has this formula already.
UpToDate(v) == base[v] # 0 /\ tap[base[v]] = Formula(v)

\* A push is refused when the tap has moved since it was cloned (MacDies).
MacPush(v) ==
    /\ mac[v] = "push"
    /\ \/ UpToDate(v) /\ UNCHANGED tap
       \/ /\ ~UpToDate(v) /\ base[v] = Len(tap)
          /\ tap' = Append(tap, Formula(v))
    /\ Goto(v, "ready")
    /\ base' = [base EXCEPT ![v] = 0]
    /\ UNCHANGED <<releases, runs, obj, left, linuxVars>>

-----------------------------------------------------------------------------
(* The Linux job: publish-linux-release.sh.  Its archives are one asset.   *)

LinuxView(v) ==
    /\ linux[v] = "view"
    /\ \/ Found(v) # {} /\ LinuxGoto(v, "upload") /\ UNCHANGED blind
       \/ LinuxGoto(v, "create") /\ blind' = [blind EXCEPT ![v] = @ \/ Found(v) # {}]
    /\ UNCHANGED <<releases, tap, runs, macVars, linuxObj>>

\* A creation that fails is not an error (|| true).
LinuxCreate(v) ==
    /\ linux[v] = "create"
    /\ CreateDraft(v) \/ UNCHANGED releases
    /\ LinuxGoto(v, "upload")
    /\ UNCHANGED <<tap, runs, macVars, linuxObj, blind>>

LinuxUpload(v) ==
    /\ linux[v] = "upload"
    /\ \E i \in Found(v) :
          /\ linuxObj' = [linuxObj EXCEPT ![v] = i]
          /\ SetAsset(i, "linux", Missing)
    /\ LinuxGoto(v, "put")
    /\ UNCHANGED <<tap, runs, macVars, blind>>

LinuxPut(v) ==
    /\ linux[v] = "put"
    /\ SetAsset(linuxObj[v], "linux", runs[v])
    /\ LinuxGoto(v, "done")
    /\ linuxObj' = [linuxObj EXCEPT ![v] = 0]
    /\ UNCHANGED <<tap, runs, macVars, blind>>

Mac(v) ==
    \/ MacView(v) \/ MacCreate(v) \/ MacFill(v) \/ MacPublish(v)
    \/ MacUpload(v) \/ Clobber(v) \/ Put(v) \/ MacEdit(v)
    \/ MacGate(v) \/ MacClone(v) \/ MacPush(v) \/ MacDies(v)

Linux(v) ==
    LinuxView(v) \/ LinuxCreate(v) \/ LinuxUpload(v) \/ LinuxPut(v) \/ LinuxDies(v)

Next == \E v \in Versions : StartRun(v) \/ Mac(v) \/ Linux(v)

Spec == Init /\ [][Next]_vars

-----------------------------------------------------------------------------
(* Properties.                                                             *)

\* Types; an upload works on a release of its own tag, has something to do,
\* and a tag has one public release at most.
TypeOK ==
    /\ releases \in Seq(Releases) /\ tap \in Seq(Formulas)
    /\ runs \in [Versions -> Nat] /\ \A v \in Versions : runs[v] <= MaxRuns[v]
    /\ mac \in [Versions -> MacSteps] /\ linux \in [Versions -> LinuxSteps]
    /\ obj \in [Versions -> Nat] /\ linuxObj \in [Versions -> Nat]
    /\ left \in [Versions -> SUBSET MacAssets]
    /\ base \in [Versions -> 0..Len(tap)]
    /\ blind \in [Versions -> BOOLEAN]
    /\ \A v \in Versions :
          /\ mac[v] \in {"fill", "clobber"} <=> left[v] # {}
          /\ mac[v] \in {"fill", "publish", "clobber"} => obj[v] \in ReleasesOf(v)
          /\ linux[v] = "put" => linuxObj[v] \in ReleasesOf(v)
          /\ \A i, j \in PublicOf(v) : i = j

Complete(i, b) == \A a \in MacAssets : releases[i].asset[a] = b

\* The release of version v that is installed from: the public one.  Where the
\* Linux job's view has failed over a release of the tag, the draft it created
\* beside it may have been published in its place (see the README).
Reachable(v) == IF blind[v] THEN ReleasesOf(v) ELSE PublicOf(v)

\* "Publish only after the required macOS assets were uploaded": whatever the
\* two jobs and earlier runs left behind, a release becomes public only when the
\* archives of the run are on a release of the tag, and unless the run's Linux
\* view failed over an existing release, on the very one that becomes public.
PublishedComplete ==
    [][\A i \in DOMAIN releases :
          LET v == releases[i].tag
          IN  ~releases[i].public /\ releases'[i].public =>
                 /\ \E j \in ReleasesOf(v) : Complete(j, runs[v])
                 /\ ~blind[v] => Complete(i, runs[v])]_vars

\* The tap moves only to a version that has a public release and whose archives
\* the new formula has the checksums of; they are those of the public release,
\* unless the run's Linux view failed over an existing release.
TapMovesToInstallable ==
    [][tap' # tap =>
          LET f == tap'[Len(tap')]
          IN  /\ PublicOf(f.version) # {}
              /\ \E i \in Reachable(f.version) : Complete(i, f.build)]_vars

\* A finished job (homebrew_ready) leaves behind what can be installed: as
\* long as the version is the tap's and not released again, it is public and
\* the formula's checksums are those of its archives (of the public ones,
\* unless the run's Linux view failed over an existing release).
ReadyIsInstallable ==
    \A v \in Versions :
        mac[v] = "ready" /\ tap # <<>> /\ tap[Len(tap)].version = v =>
            /\ PublicOf(v) # {}
            /\ \E i \in Reachable(v) : Complete(i, tap[Len(tap)].build)

\* Not a promise the code keeps (see the README): what becomes public has the
\* archives, a failed view or not.
PublishesWhatItFilled ==
    [][\A i \in DOMAIN releases :
          ~releases[i].public /\ releases'[i].public =>
              Complete(i, runs[releases[i].tag])]_vars

\* Not a promise the code keeps (see the README): both jobs of a run are done,
\* and the Linux archives are on the public release.
LinuxIsPublic ==
    \A v \in Versions :
        mac[v] = "ready" /\ linux[v] = "done" =>
            \E i \in PublicOf(v) : releases[i].asset["linux"] = runs[v]
=============================================================================
