------------------------ MODULE ReleasePublishProofs ------------------------
(***************************************************************************)
(* Proofs about ReleasePublish for any versions, any number of runs and    *)
(* either choice among drafts: a release is published and the tap moves    *)
(* only with the archives of the run on a release of the tag, and on the   *)
(* public one where the Linux job's view has not failed over a release.    *)
(***************************************************************************)
EXTENDS ReleasePublish, SequenceTheorems, TLAPS

-----------------------------------------------------------------------------
(* The inductive invariant, version by version.                            *)

\* What an upload has done so far is in the release it works on, and the one
\* that replaces assets works on the release found by the tag.
UploadsInPlace(v) ==
    /\ mac[v] \in {"fill", "clobber", "publish"} =>
          \A a \in MacAssets \ left[v] : releases[obj[v]].asset[a] = runs[v]
    /\ ~blind[v] /\ mac[v] = "clobber" => Found(v) \subseteq {obj[v]}

\* A release the macOS job has found is not joined by a draft of the Linux job.
FoundStays(v) ==
    /\ ~blind[v] /\ mac[v] \in {"upload", "clobber", "edit"} =>
          linux[v] # "create" /\ Found(v) # {}
    /\ ~blind[v] /\ mac[v] = "view" /\ linux[v] = "create" => Found(v) = {}

\* From the upload on, what the tag leads to has the archives of this run.
ArchivesOfRun(v) ==
    /\ ~blind[v] /\ mac[v] = "edit" => \A i \in Found(v) : Complete(i, runs[v])
    /\ ~blind[v] /\ mac[v] = "gate" => \A i \in PublicOf(v) : Complete(i, runs[v])
    /\ ~blind[v] /\ mac[v] \in {"clone", "push", "ready"} =>
          \E i \in PublicOf(v) : Complete(i, runs[v])

\* Whatever the Linux job saw, they are on a release of the tag, and the tap
\* moves only behind a public one.
ArchivesKept(v) ==
    /\ mac[v] \in {"edit", "gate", "clone", "push", "ready"} =>
          \E i \in ReleasesOf(v) : Complete(i, runs[v])
    /\ mac[v] \in {"clone", "push", "ready"} => PublicOf(v) # {}

\* Nobody else commits formulas of the version.
TapIsOwn(v) ==
    /\ mac[v] = "push" => \A k \in DOMAIN tap : k > base[v] => tap[k].version # v
    /\ mac[v] = "ready" /\ tap # <<>> /\ tap[Len(tap)].version = v =>
          tap[Len(tap)].build = runs[v]

Local(v) == /\ UploadsInPlace(v) /\ FoundStays(v)
            /\ ArchivesOfRun(v) /\ ArchivesKept(v) /\ TapIsOwn(v)

IInv == TypeOK /\ \A v \in Versions : Local(v)

-----------------------------------------------------------------------------
(* What the three writes to GitHub change.                                 *)

\* Nothing of version v but its Linux archives.
Kept(v) ==
    /\ ReleasesOf(v)' = ReleasesOf(v)
    /\ \A i \in ReleasesOf(v) :
          /\ releases'[i].public = releases[i].public
          /\ \A a \in MacAssets : releases'[i].asset[a] = releases[i].asset[a]

LEMMA KeptMeans ==
  ASSUME NEW v \in Versions, Kept(v)
  PROVE  /\ PublicOf(v)' = PublicOf(v) /\ Found(v)' = Found(v)
         /\ \A i \in ReleasesOf(v) : \A b : Complete(i, b)' <=> Complete(i, b)
         /\ PublicOf(v) \subseteq ReleasesOf(v) /\ Found(v) \subseteq ReleasesOf(v)
<1>1. PublicOf(v)' = PublicOf(v)
  BY DEF Kept, PublicOf
<1>2. Found(v)' = Found(v)
  BY <1>1 DEF Kept, Found
<1>3. \A i \in ReleasesOf(v) : \A b : Complete(i, b)' <=> Complete(i, b)
  BY DEF Kept, Complete
<1>4. PublicOf(v) \subseteq ReleasesOf(v) /\ Found(v) \subseteq ReleasesOf(v)
  BY DEF PublicOf, Found
<1> QED BY <1>1, <1>2, <1>3, <1>4

\* The archives a job has seen in place stay there.
LEMMA ArchivesStay ==
  ASSUME NEW v \in Versions, Kept(v), Local(v),
         UNCHANGED <<mac[v], runs[v]>>, blind[v] => blind'[v]
  PROVE  ArchivesOfRun(v)' /\ ArchivesKept(v)'
<1>1. /\ PublicOf(v)' = PublicOf(v) /\ Found(v)' = Found(v) /\ ReleasesOf(v)' = ReleasesOf(v)
      /\ \A i \in ReleasesOf(v) : \A b : Complete(i, b)' <=> Complete(i, b)
      /\ PublicOf(v) \subseteq ReleasesOf(v) /\ Found(v) \subseteq ReleasesOf(v)
  BY KeptMeans DEF Kept
<1>2. \A i \in ReleasesOf(v) : Complete(i, runs[v])' <=> Complete(i, runs[v])
  <2>1. \A i \in ReleasesOf(v) : Complete(i, runs[v])' <=>
           \A a \in MacAssets : releases'[i].asset[a] = runs[v]
    BY DEF Complete
  <2> QED BY <2>1 DEF Kept, Complete
<1>3. ArchivesKept(v)'
  BY <1>1, <1>2 DEF Local, ArchivesKept
<1>4. ArchivesOfRun(v)'
  BY <1>1, <1>2 DEF Local, ArchivesOfRun
<1> QED BY <1>3, <1>4

LEMMA SetAssetChanges ==
  ASSUME releases \in Seq(Releases), NEW i \in DOMAIN releases, NEW a \in Assets,
         NEW b \in Nat, SetAsset(i, a, b)
  PROVE  /\ releases' \in Seq(Releases) /\ DOMAIN releases' = DOMAIN releases
         /\ \A j \in DOMAIN releases : /\ releases'[j].tag = releases[j].tag
                                       /\ releases'[j].public = releases[j].public
         /\ \A j \in DOMAIN releases : \A c \in Assets :
               releases'[j].asset[c] = IF j = i /\ c = a THEN b ELSE releases[j].asset[c]
<1> DEFINE new == [releases[i] EXCEPT !.asset[a] = b]
<1>1. releases' = [releases EXCEPT ![i] = new] /\ DOMAIN releases = 1..Len(releases)
  BY DEF SetAsset
<1>2. \A j \in DOMAIN releases : releases[j] \in Releases
  BY <1>1, ElementOfSeq
<1>3. /\ new \in Releases /\ new.tag = releases[i].tag /\ new.public = releases[i].public
      /\ \A c \in Assets : new.asset[c] = IF c = a THEN b ELSE releases[i].asset[c]
  BY <1>2 DEF Releases
<1> HIDE DEF new
<1>4. releases' \in Seq(Releases) /\ DOMAIN releases' = DOMAIN releases
  BY <1>1, <1>3, ExceptSeq
<1>5. \A j \in DOMAIN releases : releases'[j] = IF j = i THEN new ELSE releases[j]
  BY <1>1
<1> QED BY <1>3, <1>4, <1>5

LEMMA PublishChanges ==
  ASSUME releases \in Seq(Releases), NEW i \in DOMAIN releases,
         releases' = [releases EXCEPT ![i].public = TRUE]
  PROVE  /\ releases' \in Seq(Releases) /\ DOMAIN releases' = DOMAIN releases
         /\ \A j \in DOMAIN releases :
               /\ releases'[j].tag = releases[j].tag
               /\ releases'[j].asset = releases[j].asset
               /\ releases'[j].public = IF j = i THEN TRUE ELSE releases[j].public
<1>1. /\ releases' = [releases EXCEPT ![i] = [@ EXCEPT !.public = TRUE]]
      /\ DOMAIN releases = 1..Len(releases)
  OBVIOUS
<1>2. \A j \in DOMAIN releases : releases[j] \in Releases
  BY <1>1, ElementOfSeq
<1>3. [releases[i] EXCEPT !.public = TRUE] \in Releases
  BY <1>2 DEF Releases
<1>4. releases' \in Seq(Releases) /\ DOMAIN releases' = DOMAIN releases
  BY <1>1, <1>3, ExceptSeq
<1>5. \A j \in DOMAIN releases :
         releases'[j] = IF j = i THEN [releases[i] EXCEPT !.public = TRUE] ELSE releases[j]
  BY <1>1
<1> QED BY <1>2, <1>4, <1>5 DEF Releases

LEMMA DraftChanges ==
  ASSUME releases \in Seq(Releases), NEW v \in Versions, CreateDraft(v)
  PROVE  /\ releases' \in Seq(Releases) /\ DOMAIN releases = 1..Len(releases)
         /\ Len(releases) \in Nat
         /\ DOMAIN releases' = 1..(Len(releases) + 1)
         /\ \A j \in DOMAIN releases : releases'[j] = releases[j]
         /\ LET d == releases'[Len(releases) + 1]
            IN  d.tag = v /\ ~d.public
<1> DEFINE d == [tag |-> v, public |-> FALSE, asset |-> [a \in Assets |-> Missing]]
<1>1. d \in Releases
  BY DEF Releases, Missing
<1>2. releases' = Append(releases, d)
  BY DEF CreateDraft
<1> HIDE DEF d
<1>3. /\ releases' \in Seq(Releases) /\ DOMAIN releases = 1..Len(releases)
      /\ Len(releases) \in Nat
      /\ DOMAIN releases' = 1..(Len(releases) + 1)
      /\ \A j \in DOMAIN releases : releases'[j] = releases[j]
      /\ releases'[Len(releases) + 1] = d
  BY <1>1, <1>2, AppendProperties
<1> QED BY <1>3 DEF d

-----------------------------------------------------------------------------
(* Frames.                                                                 *)

\* The tag leads to one release.
LEMMA FoundOne ==
  ASSUME TypeOK, NEW v \in Versions, NEW i \in Found(v), NEW j \in Found(v)
  PROVE  i = j
<1>1. CASE PublicOf(v) # {}
  BY <1>1 DEF Found, TypeOK
<1>2. CASE PublicOf(v) = {}
  <2>1. i \in ReleasesOf(v) /\ j \in ReleasesOf(v) /\ i \in Nat /\ j \in Nat
    BY <1>2 DEF Found, ReleasesOf, TypeOK
  <2>2. (i <= j /\ j <= i)
    BY <1>2, <2>1 DEF Found
  <2> QED BY <2>1, <2>2
<1> QED BY <1>1, <1>2

\* Releases as types and as numbers.
LEMMA ReleaseTypes ==
  ASSUME TypeOK
  PROVE  /\ releases \in Seq(Releases) /\ tap \in Seq(Formulas)
         /\ Len(tap) \in Nat /\ DOMAIN tap = 1..Len(tap)
         /\ DOMAIN releases = 1..Len(releases) /\ Len(releases) \in Nat
         /\ \A v \in Versions : /\ runs[v] \in Nat /\ base[v] \in Nat /\ base[v] <= Len(tap)
                               /\ obj[v] \in Nat /\ mac[v] \in MacSteps
         /\ MacAssets \subseteq Assets /\ "linux" \in Assets \ MacAssets
BY DEF TypeOK, Assets, MacAssets

\* One version's step leaves the others' part of the invariant alone.
LEMMA OthersKept ==
  ASSUME IInv, NEW w \in Versions, NEW v \in Versions \ {w}, Kept(v),
         UNCHANGED <<runs[v], mac[v], obj[v], left[v], base[v], linux[v], blind[v]>>,
         UNCHANGED tap \/ tap' = Append(tap, Formula(w))
  PROVE  Local(v)'
<1>1. Local(v) /\ TypeOK
  BY DEF IInv
<1>2. UploadsInPlace(v)'
  <2>1. mac[v] \in {"fill", "clobber", "publish"} =>
           \A a \in MacAssets : releases'[obj[v]].asset[a] = releases[obj[v]].asset[a]
    BY <1>1 DEF TypeOK, Kept
  <2> QED BY <1>1, <2>1, KeptMeans DEF Local, UploadsInPlace
<1>3. FoundStays(v)'
  BY <1>1, KeptMeans DEF Local, FoundStays
<1>4. ArchivesOfRun(v)' /\ ArchivesKept(v)'
  BY <1>1, ArchivesStay
<1>5. TapIsOwn(v)'
  <2>1. CASE UNCHANGED tap
    BY <1>1, <2>1 DEF Local, TapIsOwn
  <2>2. CASE tap' = Append(tap, Formula(w))
    <3>1. Formula(w) \in Formulas /\ Formula(w).version = w
      BY <1>1, ReleaseTypes DEF Formula, Formulas
    <3>2. /\ DOMAIN tap' = 1..(Len(tap) + 1) /\ Len(tap') = Len(tap) + 1
          /\ \A k \in DOMAIN tap : tap'[k] = tap[k]
          /\ tap'[Len(tap) + 1].version = w
      BY <1>1, <2>2, <3>1, ReleaseTypes, AppendProperties
    <3> QED BY <1>1, <3>2, ReleaseTypes DEF Local, TapIsOwn
  <2> QED BY <2>1, <2>2
<1> QED BY <1>2, <1>3, <1>4, <1>5 DEF Local

\* A step that does not write to GitHub.
LEMMA QuietKeeps ==
  ASSUME IInv, NEW w \in Versions, TypeOK', Local(w)', UNCHANGED releases,
         \A v \in Versions \ {w} :
            UNCHANGED <<runs[v], mac[v], obj[v], left[v], base[v], linux[v], blind[v]>>,
         UNCHANGED tap \/ tap' = Append(tap, Formula(w))
  PROVE  IInv'
<1>1. \A v \in Versions : Kept(v)
  BY DEF Kept, ReleasesOf
<1> QED BY <1>1, OthersKept DEF IInv

\* A step that writes to releases of one tag.
LEMMA WriteKeeps ==
  ASSUME IInv, NEW w \in Versions, TypeOK', Local(w)', UNCHANGED tap,
         \A v \in Versions \ {w} :
            UNCHANGED <<runs[v], mac[v], obj[v], left[v], base[v], linux[v], blind[v]>>,
         \A v \in Versions \ {w} : Kept(v)
  PROVE  IInv'
BY OthersKept DEF IInv

-----------------------------------------------------------------------------
(* The steps that do not write to GitHub.                                  *)

LEMMA RunKeeps ==
  ASSUME IInv, NEW w \in Versions, StartRun(w) \/ MacDies(w) \/ LinuxDies(w)
  PROVE  IInv'
<1>1. TypeOK /\ Local(w) /\ UNCHANGED <<releases, tap>>
  BY DEF IInv, StartRun, MacDies, LinuxDies
<1>2. TypeOK'
  <2>1. \A v \in Versions : mac[v] \in MacOver => left[v] = {}
    BY <1>1 DEF TypeOK, MacOver
  <2>2. CASE StartRun(w)
    <3>1. \A v \in Versions : runs'[v] \in Nat /\ runs'[v] <= MaxRuns[v]
      <4>1. /\ \A v \in Versions : runs[v] \in Nat /\ runs[v] <= MaxRuns[v] /\ MaxRuns[v] \in Nat
            /\ runs[w] < MaxRuns[w]
        BY <1>1, <2>2, PublishAssumption DEF StartRun, TypeOK
      <4>2. \A v \in Versions : runs'[v] = IF v = w THEN runs[w] + 1 ELSE runs[v]
        BY <1>1, <2>2 DEF StartRun, TypeOK
      <4> QED BY <4>1, <4>2
    <3> QED BY <1>1, <2>1, <2>2, <3>1
            DEF StartRun, TypeOK, Goto, LinuxGoto, MacSteps, LinuxSteps, ReleasesOf, PublicOf
  <2>3. CASE MacDies(w)
    BY <1>1, <2>3, ReleaseTypes
       DEF MacDies, TypeOK, Goto, MacSteps, MacOver, linuxVars, ReleasesOf, PublicOf
  <2>4. CASE LinuxDies(w)
    BY <1>1, <2>4 DEF LinuxDies, TypeOK, LinuxGoto, LinuxSteps, LinuxOver, macVars, ReleasesOf, PublicOf
  <2> QED BY <2>2, <2>3, <2>4
<1>3. mac[w] \in MacSteps /\ w \in DOMAIN mac /\ w \in DOMAIN linux
  BY <1>1 DEF TypeOK
<1>4. Kept(w)
  BY <1>1 DEF Kept, ReleasesOf
<1>5. Local(w)'
  <2>1. CASE StartRun(w)
    <3>1. mac'[w] = "view" /\ linux'[w] = "view"
      BY <1>3, <2>1 DEF StartRun, Goto, LinuxGoto
    <3> QED BY <3>1 DEF Local, UploadsInPlace, FoundStays, ArchivesOfRun, ArchivesKept, TapIsOwn
  <2>2. CASE MacDies(w)
    <3>1. mac'[w] = "failed"
      BY <1>3, <2>2 DEF MacDies, Goto
    <3> QED BY <3>1 DEF Local, UploadsInPlace, FoundStays, ArchivesOfRun, ArchivesKept, TapIsOwn
  <2>3. CASE LinuxDies(w)
    <3>1. linux'[w] = "failed" /\ UNCHANGED <<macVars, runs, blind>>
      BY <1>3, <2>3 DEF LinuxDies, LinuxGoto
    <3>2. UploadsInPlace(w)' /\ FoundStays(w)' /\ TapIsOwn(w)'
      BY <1>1, <1>4, <3>1, KeptMeans DEF Local, UploadsInPlace, FoundStays, TapIsOwn, macVars
    <3>3. ArchivesOfRun(w)' /\ ArchivesKept(w)'
      BY <1>1, <1>4, <3>1, ArchivesStay DEF macVars
    <3> QED BY <3>2, <3>3 DEF Local
  <2> QED BY <2>1, <2>2, <2>3
<1>6. \A v \in Versions \ {w} :
         UNCHANGED <<runs[v], mac[v], obj[v], left[v], base[v], linux[v], blind[v]>>
  BY <1>1 DEF StartRun, MacDies, LinuxDies, Goto, LinuxGoto, macVars, linuxVars, TypeOK
<1> QED BY <1>1, <1>2, <1>5, <1>6, QuietKeeps

LEMMA LookKeeps ==
  ASSUME IInv, NEW w \in Versions,
         MacView(w) \/ MacUpload(w) \/ MacGate(w) \/ MacClone(w) \/ LinuxView(w)
  PROVE  IInv'
<1>1. TypeOK /\ Local(w) /\ UNCHANGED <<releases, tap, runs, linuxObj>>
  BY DEF IInv, MacView, MacUpload, MacGate, MacClone, LinuxView, linuxVars
<1>2. w \in DOMAIN mac /\ w \in DOMAIN linux /\ w \in DOMAIN obj /\ w \in DOMAIN left
      /\ w \in DOMAIN base /\ mac[w] \in MacSteps
  BY <1>1 DEF TypeOK
<1>3. Kept(w)
  BY <1>1 DEF Kept, ReleasesOf
<1>4. Found(w) \subseteq ReleasesOf(w)
  BY DEF Found, PublicOf
<1>5. TypeOK'
  <2>1. CASE MacView(w)
    BY <1>1, <2>1 DEF MacView, TypeOK, Goto, MacSteps, linuxVars, ReleasesOf, PublicOf
  <2>2. CASE MacUpload(w)
    <3>1. PICK i \in Found(w) : obj' = [obj EXCEPT ![w] = i]
      BY <2>2 DEF MacUpload
    <3>2. i \in Nat /\ i \in ReleasesOf(w)
      BY <1>1, <1>4, <3>1, ReleaseTypes DEF ReleasesOf
    <3> QED BY <1>1, <2>2, <3>1, <3>2
            DEF MacUpload, TypeOK, Goto, MacSteps, MacAssets, linuxVars, ReleasesOf, PublicOf
  <2>3. CASE MacGate(w)
    BY <1>1, <2>3 DEF MacGate, TypeOK, Goto, MacSteps, linuxVars, ReleasesOf, PublicOf
  <2>4. CASE MacClone(w)
    BY <1>1, <2>4, ReleaseTypes DEF MacClone, TypeOK, Goto, MacSteps, linuxVars, ReleasesOf, PublicOf
  <2>5. CASE LinuxView(w)
    <3>1. /\ linux' \in [Versions -> LinuxSteps]
          /\ \A v \in Versions : linux'[v] = "put" => linux[v] = "put"
      BY <1>1, <2>5 DEF LinuxView, TypeOK, LinuxGoto, LinuxSteps
    <3>2. blind' \in [Versions -> BOOLEAN]
      BY <1>1, <2>5 DEF LinuxView, TypeOK
    <3> QED BY <1>1, <2>5, <3>1, <3>2 DEF LinuxView, TypeOK, macVars, ReleasesOf, PublicOf
  <2> QED BY <2>1, <2>2, <2>3, <2>4, <2>5
<1>6. Local(w)'
  <2>1. CASE MacView(w)
    <3>1. /\ mac[w] = "view" /\ UNCHANGED <<linux, blind>>
          /\ \/ mac'[w] = "create"
             \/ mac'[w] = "upload" /\ Found(w) # {}
      BY <1>2, <2>1 DEF MacView, Goto, linuxVars
    <3>2. FoundStays(w)'
      BY <1>1, <1>3, <3>1, KeptMeans DEF Local, FoundStays
    <3> QED BY <3>1, <3>2 DEF Local, UploadsInPlace, ArchivesOfRun, ArchivesKept, TapIsOwn
  <2>2. CASE MacUpload(w)
    <3>1. PICK i \in Found(w) : obj' = [obj EXCEPT ![w] = i]
      BY <2>2 DEF MacUpload
    <3>2. /\ mac[w] = "upload" /\ UNCHANGED <<linux, blind>> /\ mac'[w] = "clobber"
          /\ left'[w] = MacAssets /\ obj'[w] = i
      BY <1>2, <2>2, <3>1 DEF MacUpload, Goto, linuxVars
    <3>3. Found(w) \subseteq {i}
      BY <1>1, <3>1, FoundOne
    <3> QED BY <1>1, <1>3, <3>2, <3>3, KeptMeans
            DEF Local, UploadsInPlace, FoundStays, ArchivesOfRun, ArchivesKept, TapIsOwn
  <2>3. CASE MacGate(w)
    <3>1. /\ mac[w] = "gate" /\ mac'[w] = "clone" /\ PublicOf(w) # {}
      BY <1>2, <2>3 DEF MacGate, Goto
    <3>2. UNCHANGED blind
      BY <2>3 DEF MacGate, linuxVars
    <3>3. /\ PublicOf(w)' = PublicOf(w) /\ ReleasesOf(w)' = ReleasesOf(w)
          /\ \A i \in ReleasesOf(w) : Complete(i, runs[w])' <=> Complete(i, runs[w])
          /\ PublicOf(w) \subseteq ReleasesOf(w)
      BY <1>1 DEF PublicOf, ReleasesOf, Complete
    <3>4. ArchivesOfRun(w)' /\ ArchivesKept(w)'
      BY <1>1, <3>1, <3>2, <3>3 DEF Local, ArchivesOfRun, ArchivesKept
    <3> QED BY <3>1, <3>4 DEF Local, UploadsInPlace, FoundStays, TapIsOwn
  <2>4. CASE MacClone(w)
    <3>1. mac[w] = "clone" /\ mac'[w] = "push" /\ base'[w] = Len(tap)
      BY <1>2, <2>4 DEF MacClone, Goto
    <3>2. \A k \in DOMAIN tap : ~(k > Len(tap))
      BY <1>1, ReleaseTypes
    <3>3. UNCHANGED blind
      BY <2>4 DEF MacClone, linuxVars
    <3>4. /\ PublicOf(w)' = PublicOf(w) /\ ReleasesOf(w)' = ReleasesOf(w)
          /\ \A i \in ReleasesOf(w) : Complete(i, runs[w])' <=> Complete(i, runs[w])
          /\ PublicOf(w) \subseteq ReleasesOf(w)
      BY <1>1 DEF PublicOf, ReleasesOf, Complete
    <3>5. ArchivesOfRun(w)' /\ ArchivesKept(w)'
      BY <1>1, <3>1, <3>3, <3>4 DEF Local, ArchivesOfRun, ArchivesKept
    <3> QED BY <1>1, <3>1, <3>2, <3>5 DEF Local, UploadsInPlace, FoundStays, TapIsOwn
  <2>5. CASE LinuxView(w)
    <3>1. (linux'[w] = "upload" /\ UNCHANGED blind) \/ linux'[w] = "create"
      BY <1>2, <2>5 DEF LinuxView, LinuxGoto
    <3>2. UNCHANGED macVars
      BY <2>5 DEF LinuxView
    <3>3. /\ blind[w] => blind'[w]
          /\ linux'[w] = "create" /\ ~blind'[w] => Found(w) = {}
      BY <1>1, <1>2, <2>5 DEF LinuxView, LinuxGoto, TypeOK
    <3>4. UploadsInPlace(w)' /\ TapIsOwn(w)'
      BY <1>1, <1>3, <3>2, <3>3, KeptMeans DEF Local, UploadsInPlace, TapIsOwn, macVars
    <3>5. FoundStays(w)'
      BY <1>1, <1>3, <3>1, <3>2, <3>3, KeptMeans DEF Local, FoundStays, macVars
    <3>6. ArchivesOfRun(w)' /\ ArchivesKept(w)'
      BY <1>1, <1>3, <3>2, <3>3, ArchivesStay DEF macVars
    <3> QED BY <3>4, <3>5, <3>6 DEF Local
  <2> QED BY <2>1, <2>2, <2>3, <2>4, <2>5
<1>7. \A v \in Versions \ {w} :
         UNCHANGED <<runs[v], mac[v], obj[v], left[v], base[v], linux[v], blind[v]>>
  BY <1>1 DEF MacView, MacUpload, MacGate, MacClone, LinuxView,
              Goto, LinuxGoto, macVars, linuxVars, TypeOK
<1> QED BY <1>1, <1>5, <1>6, <1>7, QuietKeeps

LEMMA PushKeeps ==
  ASSUME IInv, NEW w \in Versions, MacPush(w)
  PROVE  IInv'
<1>1. /\ TypeOK /\ Local(w) /\ mac[w] = "push"
      /\ UNCHANGED <<releases, runs, obj, left, linuxVars>>
      /\ mac' = [mac EXCEPT ![w] = "ready"] /\ base' = [base EXCEPT ![w] = 0]
  BY DEF IInv, MacPush, Goto
<1>2. Formula(w) \in Formulas /\ Formula(w).version = w /\ Formula(w).build = runs[w]
  BY <1>1, ReleaseTypes DEF Formula, Formulas
<1>3. \/ UNCHANGED tap /\ base[w] \in DOMAIN tap /\ tap[base[w]] = Formula(w)
      \/ tap' = Append(tap, Formula(w)) /\ tap' \in Seq(Formulas)
         /\ Len(tap') = Len(tap) + 1 /\ tap'[Len(tap')] = Formula(w)
  <2>1. CASE UpToDate(w) /\ UNCHANGED tap
    <3>1. base[w] # 0 /\ base[w] \in Nat /\ base[w] <= Len(tap) /\ DOMAIN tap = 1..Len(tap)
          /\ Len(tap) \in Nat
      BY <1>1, <2>1, ReleaseTypes DEF UpToDate
    <3>2. base[w] \in DOMAIN tap
      BY <3>1
    <3> QED BY <2>1, <3>2 DEF UpToDate
  <2>2. CASE tap' = Append(tap, Formula(w))
    <3>1. tap \in Seq(Formulas)
      BY <1>1, ReleaseTypes
    <3>2. /\ Append(tap, Formula(w)) \in Seq(Formulas)
          /\ Len(Append(tap, Formula(w))) = Len(tap) + 1
          /\ Append(tap, Formula(w))[Len(tap) + 1] = Formula(w)
      BY <1>2, <3>1, AppendProperties
    <3> QED BY <2>2, <3>2
  <2> QED BY <2>1, <2>2 DEF MacPush
<1>4. TypeOK'
  <2>1. tap' \in Seq(Formulas) /\ Len(tap') \in Nat /\ Len(tap) <= Len(tap')
    BY <1>1, <1>3, ReleaseTypes
  <2>2. base' \in [Versions -> 0..Len(tap')]
    BY <1>1, <2>1, ReleaseTypes DEF TypeOK
  <2> QED BY <1>1, <2>1, <2>2 DEF TypeOK, MacSteps, MacOver, linuxVars, ReleasesOf, PublicOf
<1>5. Local(w)'
  <2>1. mac'[w] = "ready"
    BY <1>1 DEF TypeOK
  <2>2. ArchivesOfRun(w)' /\ ArchivesKept(w)'
    <3>1. /\ PublicOf(w)' = PublicOf(w) /\ ReleasesOf(w)' = ReleasesOf(w)
          /\ \A i \in ReleasesOf(w) : Complete(i, runs[w])' <=> Complete(i, runs[w])
          /\ PublicOf(w) \subseteq ReleasesOf(w) /\ UNCHANGED blind
      BY <1>1 DEF PublicOf, ReleasesOf, Complete, linuxVars
    <3> QED BY <1>1, <2>1, <3>1 DEF Local, ArchivesOfRun, ArchivesKept
  <2>3. tap' # <<>> /\ tap'[Len(tap')].version = w => tap'[Len(tap')].build = runs[w]
    <3>1. CASE UNCHANGED tap /\ base[w] \in DOMAIN tap /\ tap[base[w]] = Formula(w)
      <4>1. Len(tap) \in DOMAIN tap /\ base[w] <= Len(tap)
        BY <1>1, <3>1, ReleaseTypes
      <4>2. tap[Len(tap)].version = w => base[w] = Len(tap)
        BY <1>1, <3>1, <4>1, ReleaseTypes DEF Local, TapIsOwn
      <4> QED BY <1>2, <3>1, <4>2
    <3> QED BY <1>2, <1>3, <3>1
  <2> QED BY <1>1, <2>1, <2>2, <2>3 DEF Local, UploadsInPlace, FoundStays, TapIsOwn
<1>6. \A v \in Versions \ {w} :
         UNCHANGED <<runs[v], mac[v], obj[v], left[v], base[v], linux[v], blind[v]>>
  BY <1>1 DEF linuxVars, TypeOK
<1> QED BY <1>1, <1>3, <1>4, <1>5, <1>6, QuietKeeps

-----------------------------------------------------------------------------
(* The steps that write to GitHub.                                         *)

\* Setting assets and publishing keep the tags; other tags keep everything.
LEMMA AssetFrame ==
  ASSUME TypeOK, NEW w \in Versions, NEW i \in ReleasesOf(w), NEW a \in Assets,
         NEW b \in Nat, SetAsset(i, a, b)
  PROVE  /\ \A v \in Versions : ReleasesOf(v)' = ReleasesOf(v) /\ PublicOf(v)' = PublicOf(v)
         /\ \A v \in Versions \ {w} : Kept(v)
         /\ a = "linux" => Kept(w)
         /\ Found(w)' = Found(w)
<1>1. i \in DOMAIN releases /\ releases[i].tag = w
  BY DEF ReleasesOf
<1>2. \A v \in Versions : ReleasesOf(v)' = ReleasesOf(v) /\ PublicOf(v)' = PublicOf(v)
  BY <1>1, SetAssetChanges, ReleaseTypes DEF ReleasesOf, PublicOf
<1>3. \A v \in Versions \ {w} : Kept(v)
  BY <1>1, <1>2, SetAssetChanges, ReleaseTypes DEF Kept, ReleasesOf
<1>4. ASSUME a = "linux" PROVE Kept(w)
  <2>1. \A c \in MacAssets : c \in Assets /\ c # a
    BY <1>4, ReleaseTypes
  <2>2. \A j \in DOMAIN releases :
           /\ releases'[j].public = releases[j].public
           /\ \A c \in MacAssets : releases'[j].asset[c] = releases[j].asset[c]
    BY <1>1, <2>1, SetAssetChanges, ReleaseTypes
  <2> QED BY <1>2, <2>2 DEF Kept, ReleasesOf
<1>5. Found(w)' = Found(w)
  BY <1>2 DEF Found
<1> QED BY <1>2, <1>3, <1>4, <1>5

LEMMA LinuxFillKeeps ==
  ASSUME IInv, NEW w \in Versions, LinuxUpload(w) \/ LinuxPut(w)
  PROVE  IInv'
<1>1. TypeOK /\ Local(w) /\ UNCHANGED <<tap, runs, macVars, blind>>
  BY DEF IInv, LinuxUpload, LinuxPut
<1>2. Found(w) \subseteq ReleasesOf(w)
  BY DEF Found, PublicOf
<1>3. PICK i \in ReleasesOf(w), b \in Nat : SetAsset(i, "linux", b)
  BY <1>1, <1>2, ReleaseTypes DEF LinuxUpload, LinuxPut, TypeOK, Missing
<1>4. /\ \A v \in Versions : ReleasesOf(v)' = ReleasesOf(v) /\ PublicOf(v)' = PublicOf(v)
      /\ \A v \in Versions : Kept(v)
      /\ releases' \in Seq(Releases)
  <2>1. i \in DOMAIN releases
    BY DEF ReleasesOf
  <2> QED BY <1>1, <1>3, <2>1, AssetFrame, SetAssetChanges, ReleaseTypes
<1>5. TypeOK'
  <2>1. CASE LinuxUpload(w)
    <3>1. PICK j \in Found(w) : linuxObj' = [linuxObj EXCEPT ![w] = j]
      BY <2>1 DEF LinuxUpload
    <3>2. j \in Nat /\ j \in ReleasesOf(w)
      BY <1>1, <1>2, <3>1, ReleaseTypes DEF ReleasesOf
    <3> QED BY <1>1, <1>4, <2>1, <3>1, <3>2
            DEF LinuxUpload, TypeOK, LinuxGoto, LinuxSteps, macVars
  <2>2. CASE LinuxPut(w)
    BY <1>1, <1>4, <2>2 DEF LinuxPut, TypeOK, LinuxGoto, LinuxSteps, LinuxOver, macVars
  <2> QED BY <2>1, <2>2
<1>6. Local(w)'
  <2>1. linux'[w] # "create"
    BY <1>1 DEF LinuxUpload, LinuxPut, LinuxGoto, TypeOK
  <2>2. UploadsInPlace(w)'
    <3>1. mac[w] \in {"fill", "clobber", "publish"} =>
             \A a \in MacAssets : releases'[obj[w]].asset[a] = releases[obj[w]].asset[a]
      BY <1>1, <1>4 DEF TypeOK, Kept
    <3> QED BY <1>1, <1>4, <3>1, KeptMeans DEF Local, UploadsInPlace, macVars
  <2>3. ArchivesOfRun(w)' /\ ArchivesKept(w)' /\ UNCHANGED blind
    <3>1. UNCHANGED blind
      BY DEF LinuxUpload, LinuxPut
    <3>2. UNCHANGED <<mac[w], runs[w]>> /\ (blind[w] => blind'[w])
      BY <1>1, <3>1 DEF macVars
    <3> QED BY <1>1, <1>4, <3>1, <3>2, ArchivesStay
  <2> QED BY <1>1, <1>4, <2>1, <2>2, <2>3, KeptMeans DEF Local, FoundStays, TapIsOwn, macVars
<1>7. \A v \in Versions \ {w} :
         UNCHANGED <<runs[v], mac[v], obj[v], left[v], base[v], linux[v], blind[v]>>
  BY <1>1 DEF LinuxUpload, LinuxPut, LinuxGoto, macVars, TypeOK
<1> QED BY <1>1, <1>4, <1>5, <1>6, <1>7, WriteKeeps

\* An asset of the upload under way: deleted, or put in place.
LEMMA MacFillKeeps ==
  ASSUME IInv, NEW w \in Versions, MacFill(w) \/ Clobber(w) \/ Put(w)
  PROVE  IInv'
<1>1. /\ TypeOK /\ Local(w) /\ UNCHANGED <<tap, runs, obj, base, linuxVars>>
      /\ mac[w] \in {"fill", "clobber"}
  BY DEF IInv, MacFill, Clobber, Put, Uploaded, macVars
<1>2. PICK a \in left[w], b \in Nat :
         /\ SetAsset(obj[w], a, b)
         /\ \/ UNCHANGED <<mac, left>>
            \/ /\ b = runs[w]
               /\ left' = [left EXCEPT ![w] = @ \ {a}]
               /\ mac' = [mac EXCEPT ![w] =
                             IF left[w] = {a} THEN IF mac[w] = "fill" THEN "publish" ELSE "edit"
                             ELSE mac[w]]
  <2>1. CASE Clobber(w)
    BY <2>1 DEF Clobber, Missing, macVars
  <2>2. CASE MacFill(w)
    BY <1>1, <2>2, ReleaseTypes DEF MacFill, Uploaded, Goto
  <2>3. CASE Put(w)
    BY <1>1, <2>3, ReleaseTypes DEF Put, Uploaded, Goto
  <2> QED BY <2>1, <2>2, <2>3
<1>3. /\ obj[w] \in ReleasesOf(w) /\ obj[w] \in DOMAIN releases /\ left[w] \subseteq MacAssets
      /\ a \in MacAssets /\ a \in Assets /\ releases \in Seq(Releases)
  BY <1>1, <1>2, ReleaseTypes DEF TypeOK, ReleasesOf
<1>4. /\ \A v \in Versions : ReleasesOf(v)' = ReleasesOf(v) /\ PublicOf(v)' = PublicOf(v)
      /\ \A v \in Versions \ {w} : Kept(v)
      /\ Found(w)' = Found(w)
  BY <1>1, <1>2, <1>3, AssetFrame
<1>5. /\ releases' \in Seq(Releases)
      /\ \A c \in MacAssets : releases'[obj[w]].asset[c] =
             IF c = a THEN b ELSE releases[obj[w]].asset[c]
  BY <1>1, <1>2, <1>3, SetAssetChanges, ReleaseTypes
<1>6. /\ w \in Versions /\ mac \in [Versions -> MacSteps] /\ left \in [Versions -> SUBSET MacAssets]
      /\ mac' \in [Versions -> MacSteps] /\ left' \in [Versions -> SUBSET MacAssets]
      /\ \A v \in Versions \ {w} : mac'[v] = mac[v] /\ left'[v] = left[v]
      /\ \/ mac'[w] = mac[w] /\ left'[w] = left[w]
         \/ mac'[w] = mac[w] /\ left'[w] = left[w] \ {a} /\ left'[w] # {} /\ b = runs[w]
         \/ mac[w] = "fill" /\ mac'[w] = "publish" /\ left'[w] = {} /\ left[w] = {a} /\ b = runs[w]
         \/ mac[w] = "clobber" /\ mac'[w] = "edit" /\ left'[w] = {} /\ left[w] = {a} /\ b = runs[w]
  <2>1. mac \in [Versions -> MacSteps] /\ left \in [Versions -> SUBSET MacAssets]
    BY <1>1 DEF TypeOK
  <2>2. CASE UNCHANGED <<mac, left>>
    BY <2>1, <2>2
  <2>3. CASE ~UNCHANGED <<mac, left>>
    <3> DEFINE step == IF left[w] = {a} THEN IF mac[w] = "fill" THEN "publish" ELSE "edit"
                       ELSE mac[w]
    <3>1. /\ b = runs[w] /\ left' = [left EXCEPT ![w] = left[w] \ {a}]
          /\ mac' = [mac EXCEPT ![w] = step] /\ step \in MacSteps
          /\ left[w] \ {a} \in SUBSET MacAssets
      BY <1>2, <2>1, <2>3 DEF MacSteps
    <3>2. \/ step = mac[w] /\ left[w] # {a}
          \/ step = "publish" /\ mac[w] = "fill" /\ left[w] = {a}
          \/ step = "edit" /\ mac[w] = "clobber" /\ left[w] = {a}
      <4>1. left[w] # {a} => step = mac[w]
        OBVIOUS
      <4>2. left[w] = {a} => step = IF mac[w] = "fill" THEN "publish" ELSE "edit"
        OBVIOUS
      <4> HIDE DEF step
      <4> QED BY <1>1, <4>1, <4>2
    <3> HIDE DEF step
    <3>3. /\ mac' \in [Versions -> MacSteps] /\ left' \in [Versions -> SUBSET MacAssets]
          /\ \A v \in Versions \ {w} : mac'[v] = mac[v] /\ left'[v] = left[v]
          /\ mac'[w] = step /\ left'[w] = left[w] \ {a}
      BY <2>1, <3>1
    <3>4. left[w] # {a} => left[w] \ {a} # {}
      BY <1>2
    <3>5. left[w] = {a} => left[w] \ {a} = {}
      OBVIOUS
    <3> QED BY <2>1, <3>1, <3>2, <3>3, <3>4, <3>5
  <2> QED BY <2>2, <2>3
<1>7. TypeOK'
  <2>1. \A v \in Versions : mac'[v] \in {"fill", "clobber"} <=> left'[v] # {}
    BY <1>1, <1>6 DEF TypeOK
  <2>2. \A v \in Versions : mac'[v] \in {"fill", "publish", "clobber"} =>
                               mac[v] \in {"fill", "publish", "clobber"}
    BY <1>1, <1>6
  <2> QED BY <1>1, <1>4, <1>5, <1>6, <2>1, <2>2 DEF TypeOK, linuxVars
<1>8. Local(w)'
  <2>1. UploadsInPlace(w)'
    BY <1>1, <1>2, <1>3, <1>4, <1>5, <1>6 DEF Local, UploadsInPlace, linuxVars
  <2>2. FoundStays(w)'
    <3>1. UNCHANGED <<linux, blind>> /\ mac[w] # "view" /\ mac'[w] # "view" /\ FoundStays(w)
      BY <1>1, <1>6 DEF Local, linuxVars
    <3>2. mac'[w] \in {"upload", "clobber", "edit"} => mac[w] \in {"upload", "clobber", "edit"}
      BY <1>1, <1>6
    <3> QED BY <1>4, <3>1, <3>2 DEF FoundStays
  <2>3. ArchivesOfRun(w)'
    <3>1. CASE mac'[w] = "edit" /\ ~blind[w]
      <4>1. \A i \in Found(w)' : i = obj[w]
        BY <1>1, <1>4, <1>6, <3>1 DEF Local, UploadsInPlace
      <4>2. \A c \in MacAssets : releases'[obj[w]].asset[c] = runs[w]
        BY <1>1, <1>5, <1>6, <3>1 DEF Local, UploadsInPlace
      <4> QED BY <1>1, <3>1, <4>1, <4>2 DEF ArchivesOfRun, Complete
    <3>2. CASE ~(mac'[w] = "edit" /\ ~blind[w])
      BY <1>1, <1>6, <3>2 DEF ArchivesOfRun, linuxVars
    <3> QED BY <3>1, <3>2
  <2>5. ArchivesKept(w)'
    <3>1. CASE mac'[w] = "edit"
      <4>1. \A c \in MacAssets : releases'[obj[w]].asset[c] = runs[w]
        BY <1>1, <1>5, <1>6, <3>1 DEF Local, UploadsInPlace
      <4> QED BY <1>1, <1>3, <1>4, <3>1, <4>1 DEF ArchivesKept, Complete
    <3>2. CASE mac'[w] # "edit"
      BY <1>1, <1>6, <3>2 DEF ArchivesKept
    <3> QED BY <3>1, <3>2
  <2>4. TapIsOwn(w)'
    BY <1>1, <1>6 DEF TapIsOwn
  <2> QED BY <2>1, <2>2, <2>3, <2>4, <2>5 DEF Local
<1>9. \A v \in Versions \ {w} :
         UNCHANGED <<runs[v], mac[v], obj[v], left[v], base[v], linux[v], blind[v]>>
  BY <1>1, <1>6 DEF linuxVars
<1> QED BY <1>1, <1>4, <1>7, <1>8, <1>9, WriteKeeps

LEMMA PublishKeeps ==
  ASSUME IInv, NEW w \in Versions, MacPublish(w) \/ MacEdit(w)
  PROVE  IInv'
<1>1. /\ TypeOK /\ Local(w) /\ UNCHANGED <<tap, runs, left, base, linuxVars>>
      /\ mac[w] \in {"publish", "edit"} /\ mac' = [mac EXCEPT ![w] = "gate"]
      /\ obj' = [obj EXCEPT ![w] = 0] \/ UNCHANGED obj
  BY DEF IInv, MacPublish, MacEdit, Goto
<1>0. mac' \in [Versions -> MacSteps] /\ obj' \in [Versions -> Nat]
  <2>1. mac' \in [Versions -> MacSteps]
    BY <1>1 DEF TypeOK, MacSteps
  <2>2. obj \in [Versions -> Nat]
    BY <1>1 DEF TypeOK
  <2>3. [obj EXCEPT ![w] = 0] \in [Versions -> Nat]
    BY <2>2
  <2> QED BY <1>1, <2>1, <2>2, <2>3
<1>2. CASE UNCHANGED releases
  <2>1. mac[w] = "edit"
    <3> SUFFICES ASSUME MacPublish(w) PROVE FALSE
      BY DEF MacEdit
    <3>1. obj[w] \in ReleasesOf(w) /\ PublicOf(w) = {}
      BY <1>1 DEF MacPublish, TypeOK
    <3>2. obj[w] \in DOMAIN releases /\ ~releases[obj[w]].public
      BY <3>1 DEF ReleasesOf, PublicOf
    <3>3. releases'[obj[w]].public = TRUE
      BY <1>1, <3>2, PublishChanges, ReleaseTypes DEF MacPublish
    <3> QED BY <1>2, <3>2, <3>3
  <2>2. PublicOf(w) # {} => PublicOf(w) = Found(w)
    BY DEF Found
  <2>4. mac'[w] = "gate" /\ \A v \in Versions \ {w} : mac'[v] = mac[v]
    BY <1>1 DEF TypeOK
  <2>3. TypeOK'
    <3>1. \A v \in Versions : mac'[v] \in {"fill", "clobber"} <=> left'[v] # {}
      BY <1>1, <2>4 DEF TypeOK
    <3>2. \A v \in Versions : mac'[v] \in {"fill", "publish", "clobber"} =>
                                 obj'[v] \in ReleasesOf(v)
      BY <1>1, <2>4 DEF TypeOK
    <3> QED BY <1>0, <1>1, <1>2, <3>1, <3>2 DEF TypeOK, linuxVars, ReleasesOf, PublicOf
  <2>5. Local(w)'
    <3>1. /\ PublicOf(w)' = PublicOf(w) /\ ReleasesOf(w)' = ReleasesOf(w)
          /\ \A i \in ReleasesOf(w) : Complete(i, runs[w])' <=> Complete(i, runs[w])
          /\ PublicOf(w) \subseteq ReleasesOf(w) /\ UNCHANGED blind
      BY <1>1, <1>2 DEF PublicOf, ReleasesOf, Complete, linuxVars
    <3>2. ArchivesOfRun(w)' /\ ArchivesKept(w)'
      BY <1>1, <2>1, <2>2, <2>4, <3>1 DEF Local, ArchivesOfRun, ArchivesKept
    <3> QED BY <2>4, <3>2 DEF Local, UploadsInPlace, FoundStays, TapIsOwn
  <2>6. \A v \in Versions \ {w} :
           UNCHANGED <<runs[v], mac[v], obj[v], left[v], base[v], linux[v], blind[v]>>
    BY <1>1 DEF linuxVars, TypeOK
  <2> QED BY <1>1, <1>2, <2>3, <2>5, <2>6, QuietKeeps
<1>3. ASSUME NEW i \in ReleasesOf(w), ~blind[w] => Complete(i, runs[w]),
             \E j \in ReleasesOf(w) : Complete(j, runs[w]),
             releases' = [releases EXCEPT ![i].public = TRUE],
             PublicOf(w) \subseteq {i}
      PROVE  IInv'
  <2>1. i \in DOMAIN releases /\ releases[i].tag = w
    BY DEF ReleasesOf
  <2>2. /\ releases' \in Seq(Releases) /\ DOMAIN releases' = DOMAIN releases
        /\ \A j \in DOMAIN releases :
              /\ releases'[j].tag = releases[j].tag
              /\ releases'[j].asset = releases[j].asset
              /\ releases'[j].public = IF j = i THEN TRUE ELSE releases[j].public
    BY <1>1, <1>3, <2>1, PublishChanges, ReleaseTypes
  <2>3. /\ \A v \in Versions : ReleasesOf(v)' = ReleasesOf(v)
        /\ \A v \in Versions \ {w} : PublicOf(v)' = PublicOf(v) /\ Kept(v)
        /\ PublicOf(w)' = {i}
    <3>1. \A v \in Versions : ReleasesOf(v)' = ReleasesOf(v)
      BY <2>2 DEF ReleasesOf
    <3>2. ASSUME NEW v \in Versions \ {w}
          PROVE  PublicOf(v)' = PublicOf(v) /\ Kept(v)
      <4>1. \A j \in ReleasesOf(v) : j \in DOMAIN releases /\ j # i
        BY <2>1 DEF ReleasesOf
      <4>2. Kept(v)
        BY <2>2, <3>1, <4>1 DEF Kept
      <4> QED BY <4>2, KeptMeans
    <3>3. PublicOf(w)' = {i}
      <4>1. \A j \in ReleasesOf(w) : releases'[j].public => j = i
        <5>1. \A j \in ReleasesOf(w) : j \in DOMAIN releases
          BY DEF ReleasesOf
        <5> QED BY <1>3, <2>2, <5>1 DEF PublicOf
      <4>2. releases'[i].public
        BY <2>1, <2>2
      <4>3. PublicOf(w)' = {j \in ReleasesOf(w) : releases'[j].public}
        BY <3>1 DEF PublicOf
      <4> QED BY <4>1, <4>2, <4>3
    <3> QED BY <3>1, <3>2, <3>3
  <2>4. mac'[w] = "gate" /\ \A v \in Versions \ {w} : mac'[v] = mac[v]
    BY <1>1 DEF TypeOK
  <2>5. TypeOK'
    <3>2. \A v \in Versions : mac'[v] \in {"fill", "clobber"} <=> left'[v] # {}
      BY <1>1, <2>4 DEF TypeOK
    <3>3. \A v \in Versions : mac'[v] \in {"fill", "publish", "clobber"} =>
                                 obj'[v] \in ReleasesOf(v)'
      BY <1>1, <2>3, <2>4 DEF TypeOK
    <3>4. ASSUME NEW v \in Versions, NEW j \in PublicOf(v)', NEW k \in PublicOf(v)'
          PROVE  j = k
      <4>1. CASE v = w
        BY <2>3, <4>1
      <4>2. CASE v # w
        <5>1. j \in PublicOf(v) /\ k \in PublicOf(v)
          BY <2>3, <4>2
        <5> QED BY <1>1, <5>1 DEF TypeOK
      <4> QED BY <4>1, <4>2
    <3> QED BY <1>0, <1>1, <2>2, <2>3, <3>2, <3>3, <3>4 DEF TypeOK, linuxVars
  <2>6. Local(w)'
    <3>1. \A j \in ReleasesOf(w) : Complete(j, runs[w])' <=> Complete(j, runs[w])
      BY <1>1, <2>2 DEF Complete, ReleasesOf
    <3>2. ArchivesOfRun(w)' /\ ArchivesKept(w)'
      BY <1>1, <1>3, <2>3, <2>4, <3>1 DEF ArchivesOfRun, ArchivesKept, linuxVars
    <3> QED BY <2>4, <3>2 DEF Local, UploadsInPlace, FoundStays, TapIsOwn
  <2>7. \A v \in Versions \ {w} :
           UNCHANGED <<runs[v], mac[v], obj[v], left[v], base[v], linux[v], blind[v]>>
    BY <1>1 DEF linuxVars, TypeOK
  <2> QED BY <1>1, <2>3, <2>5, <2>6, <2>7, WriteKeeps
<1>4. CASE MacPublish(w)
  <2>1. obj[w] \in ReleasesOf(w) /\ left[w] = {} /\ mac[w] = "publish" /\ PublicOf(w) = {}
    BY <1>1, <1>4 DEF MacPublish, TypeOK
  <2>2. Complete(obj[w], runs[w])
    BY <1>1, <2>1 DEF Local, UploadsInPlace, Complete
  <2> QED BY <1>3, <1>4, <2>1, <2>2 DEF MacPublish
<1>5. CASE MacEdit(w) /\ ~UNCHANGED releases
  <2>1. PICK i \in Found(w) : releases' = [releases EXCEPT ![i].public = TRUE]
    BY <1>5 DEF MacEdit
  <2>2. i \in ReleasesOf(w) /\ mac[w] = "edit"
    BY <1>5 DEF MacEdit, Found, PublicOf
  <2>3. /\ ~blind[w] => Complete(i, runs[w])
        /\ \E j \in ReleasesOf(w) : Complete(j, runs[w])
    BY <1>1, <2>1, <2>2 DEF Local, ArchivesOfRun, ArchivesKept
  <2>4. PublicOf(w) \subseteq {i}
    <3>1. PublicOf(w) # {} => PublicOf(w) = Found(w)
      BY DEF Found
    <3> QED BY <1>1, <3>1, FoundOne
  <2> QED BY <1>3, <2>1, <2>2, <2>3, <2>4
<1> QED BY <1>2, <1>4, <1>5

LEMMA DraftKeeps ==
  ASSUME IInv, NEW w \in Versions, MacCreate(w) \/ LinuxCreate(w)
  PROVE  IInv'
<1>1. TypeOK /\ Local(w) /\ UNCHANGED <<tap, runs, base, linuxObj>>
  BY DEF IInv, MacCreate, LinuxCreate, linuxVars, macVars
<1>2. ASSUME CreateDraft(w)
      PROVE  /\ releases' \in Seq(Releases) /\ Len(releases) + 1 \in Nat
             /\ \A v \in Versions : ReleasesOf(v) \subseteq ReleasesOf(v)'
             /\ Len(releases) + 1 \in ReleasesOf(w)'
             /\ \A v \in Versions : PublicOf(v)' = PublicOf(v)
             /\ \A v \in Versions \ {w} : Kept(v)
             /\ \A j \in DOMAIN releases : releases'[j] = releases[j]
  <2>1. /\ releases' \in Seq(Releases) /\ DOMAIN releases = 1..Len(releases)
        /\ Len(releases) \in Nat
        /\ DOMAIN releases' = DOMAIN releases \cup {Len(releases) + 1}
        /\ Len(releases) + 1 \notin DOMAIN releases
        /\ \A j \in DOMAIN releases : releases'[j] = releases[j]
        /\ releases'[Len(releases) + 1].tag = w
        /\ ~releases'[Len(releases) + 1].public
    <3>1. releases \in Seq(Releases)
      BY <1>1, ReleaseTypes
    <3>2. /\ releases' \in Seq(Releases) /\ DOMAIN releases = 1..Len(releases)
          /\ Len(releases) \in Nat /\ DOMAIN releases' = 1..(Len(releases) + 1)
          /\ \A j \in DOMAIN releases : releases'[j] = releases[j]
          /\ releases'[Len(releases) + 1].tag = w
          /\ ~releases'[Len(releases) + 1].public
      BY <1>2, <3>1, DraftChanges
    <3>3. /\ DOMAIN releases' = DOMAIN releases \cup {Len(releases) + 1}
          /\ Len(releases) + 1 \notin DOMAIN releases
      BY <3>2
    <3> QED BY <3>2, <3>3
  <2>2. \A v \in Versions : ReleasesOf(v)' =
           IF v = w THEN ReleasesOf(v) \cup {Len(releases) + 1} ELSE ReleasesOf(v)
    BY <2>1 DEF ReleasesOf
  <2>3. \A v \in Versions : PublicOf(v)' = PublicOf(v)
    BY <2>1, <2>2 DEF PublicOf, ReleasesOf
  <2>4. \A v \in Versions \ {w} : Kept(v)
    BY <2>1, <2>2 DEF Kept, ReleasesOf
  <2> QED BY <2>1, <2>2, <2>3, <2>4
<1>3. CASE MacCreate(w)
  <2>1. /\ CreateDraft(w) /\ UNCHANGED linuxVars /\ mac[w] = "create"
        /\ obj' = [obj EXCEPT ![w] = Len(releases) + 1]
        /\ left' = [left EXCEPT ![w] = MacAssets]
        /\ mac' = [mac EXCEPT ![w] = "fill"]
    BY <1>3 DEF MacCreate, Goto
  <2>2. mac'[w] = "fill" /\ left'[w] = MacAssets /\ obj'[w] = Len(releases) + 1
    BY <1>1, <2>1 DEF TypeOK
  <2>3. \A v \in Versions \ {w} :
           UNCHANGED <<runs[v], mac[v], obj[v], left[v], base[v], linux[v], blind[v]>>
    BY <1>1, <2>1 DEF TypeOK, linuxVars
  <2>4. TypeOK'
    <3>1. /\ mac' \in [Versions -> MacSteps] /\ obj' \in [Versions -> Nat]
          /\ left' \in [Versions -> SUBSET MacAssets]
      BY <1>1, <1>2, <2>1 DEF TypeOK, MacSteps
    <3>2. \A v \in Versions : mac'[v] \in {"fill", "clobber"} <=> left'[v] # {}
      BY <1>1, <2>2, <2>3 DEF TypeOK, MacAssets
    <3>3. \A v \in Versions : mac'[v] \in {"fill", "publish", "clobber"} =>
                                 obj'[v] \in ReleasesOf(v)'
      BY <1>1, <1>2, <2>1, <2>2, <2>3 DEF TypeOK
    <3>4. \A v \in Versions : linux'[v] = "put" => linuxObj'[v] \in ReleasesOf(v)'
      BY <1>1, <1>2, <2>1 DEF TypeOK, linuxVars
    <3> QED BY <1>1, <1>2, <2>1, <3>1, <3>2, <3>3, <3>4 DEF TypeOK, linuxVars
  <2>5. Local(w)'
    BY <2>2 DEF Local, UploadsInPlace, FoundStays, ArchivesOfRun, ArchivesKept, TapIsOwn
  <2> QED BY <1>1, <1>2, <2>1, <2>3, <2>4, <2>5, WriteKeeps
<1>4. CASE LinuxCreate(w)
  <2>1. /\ UNCHANGED <<mac, obj, left, base, blind>>
        /\ linux[w] = "create" /\ linux' = [linux EXCEPT ![w] = "upload"]
        /\ CreateDraft(w) \/ UNCHANGED releases
    BY <1>4 DEF LinuxCreate, LinuxGoto, macVars
  <2>2. /\ releases' \in Seq(Releases)
        /\ \A v \in Versions : ReleasesOf(v) \subseteq ReleasesOf(v)'
        /\ \A v \in Versions : PublicOf(v)' = PublicOf(v)
        /\ \A v \in Versions \ {w} : Kept(v)
        /\ \A j \in DOMAIN releases : releases'[j] = releases[j]
    <3>1. CASE UNCHANGED releases
      BY <1>1, <3>1, ReleaseTypes DEF ReleasesOf, PublicOf, Kept
    <3> QED BY <1>2, <2>1, <3>1
  <2>3. TypeOK'
    <3>1. linux' \in [Versions -> LinuxSteps] /\ \A v \in Versions : linux'[v] = "put" => linux[v] = "put"
      BY <1>1, <2>1 DEF TypeOK, LinuxSteps
    <3> QED BY <1>1, <2>1, <2>2, <3>1 DEF TypeOK
  <2>4. Local(w)'
    <3>1. /\ linux'[w] = "upload"
          /\ ~blind[w] => mac[w] \notin {"upload", "clobber", "edit"}
      BY <1>1, <2>1 DEF TypeOK, Local, FoundStays
    <3>2. mac[w] \in {"fill", "publish", "clobber"} => obj[w] \in DOMAIN releases
      BY <1>1 DEF TypeOK, ReleasesOf
    <3>3. /\ \A i \in ReleasesOf(w) : Complete(i, runs[w])' <=> Complete(i, runs[w])
          /\ PublicOf(w) \subseteq ReleasesOf(w)
      BY <1>1, <2>2 DEF PublicOf, ReleasesOf, Complete
    <3>4. UploadsInPlace(w)'
      BY <1>1, <2>1, <2>2, <3>1, <3>2 DEF Local, UploadsInPlace
    <3>5. ArchivesOfRun(w)'
      BY <1>1, <2>1, <2>2, <3>1, <3>3 DEF Local, ArchivesOfRun
    <3>6. ArchivesKept(w)'
      BY <1>1, <2>1, <2>2, <3>3 DEF Local, ArchivesKept
    <3>7. FoundStays(w)'
      BY <1>1, <2>1, <3>1 DEF FoundStays
    <3> QED BY <1>1, <2>1, <3>4, <3>5, <3>6, <3>7 DEF Local, TapIsOwn
  <2>5. \A v \in Versions \ {w} :
           UNCHANGED <<runs[v], mac[v], obj[v], left[v], base[v], linux[v], blind[v]>>
    BY <1>1, <2>1 DEF TypeOK, macVars
  <2> QED BY <1>1, <2>2, <2>3, <2>4, <2>5, WriteKeeps
<1> QED BY <1>3, <1>4

-----------------------------------------------------------------------------
(* The theorems.                                                           *)

LEMMA StepKeeps == IInv /\ [Next]_vars => IInv'
<1> SUFFICES ASSUME IInv, [Next]_vars PROVE IInv'
  OBVIOUS
<1>1. CASE UNCHANGED vars
  <2>1. TypeOK'
    BY <1>1 DEF IInv, TypeOK, vars, macVars, linuxVars, ReleasesOf, PublicOf
  <2>2. ASSUME NEW v \in Versions PROVE Local(v)'
    <3>1. /\ Kept(v) /\ Local(v)
          /\ UNCHANGED <<releases, tap, runs, mac, obj, left, base, linux, blind>>
      BY <1>1 DEF IInv, vars, macVars, linuxVars, Kept, ReleasesOf
    <3>2. UploadsInPlace(v)' /\ FoundStays(v)' /\ TapIsOwn(v)'
      BY <3>1, KeptMeans DEF Local, UploadsInPlace, FoundStays, TapIsOwn
    <3>3. ArchivesOfRun(v)' /\ ArchivesKept(v)'
      BY <3>1, ArchivesStay
    <3> QED BY <3>2, <3>3 DEF Local
  <2> QED BY <2>1, <2>2 DEF IInv
<1>2. ASSUME NEW v \in Versions, StartRun(v) \/ Mac(v) \/ Linux(v)
      PROVE  IInv'
  BY <1>2, RunKeeps, LookKeeps, PushKeeps, LinuxFillKeeps, MacFillKeeps, PublishKeeps, DraftKeeps
     DEF Mac, Linux
<1> QED BY <1>1, <1>2 DEF Next

\* Where the archives of the run are, at every step of the two jobs.
THEOREM ReleaseInductive == Spec => []IInv
<1>1. Init => IInv
  <2> SUFFICES ASSUME Init PROVE IInv
    OBVIOUS
  <2>1. /\ releases = <<>> /\ releases \in Seq(Releases) /\ tap \in Seq(Formulas)
        /\ Len(tap) = 0 /\ DOMAIN releases = {}
    BY DEF Init
  <2>2. TypeOK
    BY <2>1, PublishAssumption
       DEF Init, TypeOK, MacSteps, MacOver, LinuxSteps, LinuxOver, ReleasesOf, PublicOf
  <2>3. \A v \in Versions : Local(v)
    BY DEF Init, Local, UploadsInPlace, FoundStays, ArchivesOfRun, ArchivesKept, TapIsOwn
  <2> QED BY <2>2, <2>3 DEF IInv
<1> QED BY <1>1, StepKeeps, PTL DEF Spec

\* Types; uploads work on releases of their tag, and a tag has at most one
\* public release.
THEOREM ReleaseTypeCorrect == Spec => []TypeOK
BY ReleaseInductive, PTL DEF IInv

\* Whatever earlier runs and the other job left behind, a finished macOS job
\* leaves formula and public archives in agreement, unless the Linux job of the
\* run took a failed view of an existing release for none.
THEOREM ReadyReleases == Spec => []ReadyIsInstallable
<1>1. IInv => ReadyIsInstallable
  <2> SUFFICES ASSUME IInv, NEW v \in Versions, mac[v] = "ready", tap # <<>>,
                      tap[Len(tap)].version = v
               PROVE  /\ PublicOf(v) # {}
                      /\ \E i \in Reachable(v) : Complete(i, tap[Len(tap)].build)
    BY DEF ReadyIsInstallable
  <2>1. ArchivesOfRun(v) /\ ArchivesKept(v) /\ tap[Len(tap)].build = runs[v]
    BY DEF IInv, Local, TapIsOwn
  <2> QED BY <2>1 DEF ArchivesOfRun, ArchivesKept, Reachable
<1> QED BY <1>1, ReleaseInductive, PTL

\* A release becomes public only with the macOS archives of the run that
\* publishes it on a release of the tag, and on the very one that becomes public
\* unless the Linux job of the run took a failed view for none.
THEOREM PublishesComplete == Spec => PublishedComplete
<1> DEFINE Step == \A i \in DOMAIN releases :
                     LET v == releases[i].tag
                     IN  ~releases[i].public /\ releases'[i].public =>
                            /\ \E j \in ReleasesOf(v) : Complete(j, runs[v])
                            /\ ~blind[v] => Complete(i, runs[v])
<1>1. IInv /\ [Next]_vars => [Step]_vars
  <2> SUFFICES ASSUME IInv, Next, NEW i \in DOMAIN releases,
                      ~releases[i].public, releases'[i].public
               PROVE  LET u == releases[i].tag
                      IN  /\ \E j \in ReleasesOf(u) : Complete(j, runs[u])
                          /\ ~blind[u] => Complete(i, runs[u])
    BY DEF vars
  <2>1. PICK v \in Versions : StartRun(v) \/ Mac(v) \/ Linux(v)
    BY DEF Next
  <2>2. TypeOK /\ Local(v) /\ releases \in Seq(Releases)
    BY DEF IInv, TypeOK
  <2>3. ASSUME NEW j \in ReleasesOf(v), releases' = [releases EXCEPT ![j].public = TRUE],
               ~blind[v] => Complete(j, runs[v]),
               \E k \in ReleasesOf(v) : Complete(k, runs[v])
        PROVE  LET u == releases[i].tag
               IN  /\ \E k \in ReleasesOf(u) : Complete(k, runs[u])
                   /\ ~blind[u] => Complete(i, runs[u])
    <3>1. j \in DOMAIN releases /\ releases[j].tag = v
      BY DEF ReleasesOf
    <3>2. i = j
      BY <2>2, <2>3, <3>1, PublishChanges
    <3> QED BY <2>3, <3>1, <3>2
  <2>4. CASE MacPublish(v)
    <3>1. obj[v] \in ReleasesOf(v) /\ left[v] = {} /\ mac[v] = "publish"
      BY <2>2, <2>4 DEF MacPublish, TypeOK
    <3>2. Complete(obj[v], runs[v])
      BY <2>2, <3>1 DEF Local, UploadsInPlace, Complete
    <3> QED BY <2>3, <2>4, <3>1, <3>2 DEF MacPublish
  <2>5. CASE MacEdit(v)
    <3>1. PICK j \in Found(v) : releases' = [releases EXCEPT ![j].public = TRUE]
      BY <2>5 DEF MacEdit
    <3>2. /\ j \in ReleasesOf(v)
          /\ ~blind[v] => Complete(j, runs[v])
          /\ \E k \in ReleasesOf(v) : Complete(k, runs[v])
      <4>1. mac[v] = "edit" /\ j \in ReleasesOf(v)
        BY <2>5, <3>1 DEF MacEdit, Found, PublicOf
      <4> QED BY <2>2, <3>1, <4>1 DEF Local, ArchivesOfRun, ArchivesKept
    <3> QED BY <2>3, <3>1, <3>2
  <2>6. CASE \E j \in DOMAIN releases, a \in Assets, b \in Nat : SetAsset(j, a, b)
    BY <2>2, <2>6, SetAssetChanges
  <2>7. CASE CreateDraft(v)
    BY <2>2, <2>7, DraftChanges
  <2>8. CASE MacFill(v) \/ Clobber(v) \/ Put(v)
    <3>1. /\ obj[v] \in DOMAIN releases /\ left[v] \subseteq Assets /\ runs[v] \in Nat
      BY <2>2, <2>8, ReleaseTypes DEF MacFill, Clobber, Put, TypeOK, ReleasesOf
    <3> QED BY <2>6, <2>8, <3>1 DEF MacFill, Clobber, Put, Uploaded, Missing
  <2>9. CASE LinuxUpload(v) \/ LinuxPut(v)
    <3>1. /\ linux[v] = "put" => linuxObj[v] \in DOMAIN releases
          /\ Found(v) \subseteq DOMAIN releases /\ "linux" \in Assets /\ runs[v] \in Nat
      BY <2>2, ReleaseTypes DEF TypeOK, ReleasesOf, PublicOf, Found
    <3> QED BY <2>6, <2>9, <3>1 DEF LinuxUpload, LinuxPut, Missing
  <2>10. CASE UNCHANGED releases
    BY <2>10
  <2>11. CASE StartRun(v) \/ MacDies(v) \/ LinuxDies(v) \/ MacView(v) \/ MacUpload(v)
              \/ MacGate(v) \/ MacClone(v) \/ MacPush(v) \/ LinuxView(v)
    BY <2>10, <2>11 DEF StartRun, MacDies, LinuxDies, MacView, MacUpload, MacGate,
                        MacClone, MacPush, LinuxView
  <2>12. CASE MacCreate(v) \/ LinuxCreate(v)
    BY <2>7, <2>10, <2>12 DEF MacCreate, LinuxCreate
  <2> QED BY <2>1, <2>4, <2>5, <2>8, <2>9, <2>11, <2>12 DEF Mac, Linux
<1>2. Spec => [][Step]_vars
  BY <1>1, ReleaseInductive, PTL DEF Spec
<1> QED BY <1>2 DEF PublishedComplete

\* The tap moves only to a formula of a public version whose checksums are, at
\* that moment, those of the version's archives: the public ones, unless the
\* Linux job of the run took a failed view for none.
THEOREM TapIsInstallable == Spec => TapMovesToInstallable
<1> DEFINE Step == tap' # tap =>
                     LET f == tap'[Len(tap')]
                     IN  /\ PublicOf(f.version) # {}
                         /\ \E i \in Reachable(f.version) : Complete(i, f.build)
<1>1. IInv /\ [Next]_vars => [Step]_vars
  <2> SUFFICES ASSUME IInv, Next, tap' # tap PROVE Step
    BY DEF vars
  <2>1. PICK v \in Versions : MacPush(v)
    BY DEF Next, Mac, Linux, StartRun, MacDies, LinuxDies, MacView, MacUpload, MacGate, MacClone,
           LinuxView, MacCreate, LinuxCreate, MacPublish, MacEdit, MacFill, Clobber, Put, Uploaded,
           LinuxUpload, LinuxPut
  <2>2. TypeOK /\ Local(v) /\ mac[v] = "push" /\ tap' = Append(tap, Formula(v))
    BY <2>1 DEF IInv, MacPush
  <2>3. Formula(v) \in Formulas /\ Formula(v).version = v /\ Formula(v).build = runs[v]
    BY <2>2, ReleaseTypes DEF Formula, Formulas
  <2>4. tap'[Len(tap')] = Formula(v)
    <3>1. tap \in Seq(Formulas)
      BY <2>2, ReleaseTypes
    <3> QED BY <2>2, <2>3, <3>1, AppendProperties
  <2>5. /\ PublicOf(v) # {}
        /\ \E i \in Reachable(v) : Complete(i, runs[v])
    BY <2>2 DEF Local, ArchivesOfRun, ArchivesKept, Reachable
  <2> QED BY <2>3, <2>4, <2>5
<1>2. Spec => [][Step]_vars
  BY <1>1, ReleaseInductive, PTL DEF Spec
<1> QED BY <1>2 DEF TapMovesToInstallable
=============================================================================
