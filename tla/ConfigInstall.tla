--------------------------- MODULE ConfigInstall ---------------------------
(***************************************************************************)
(* scripts/install-brew-config.sh, which the formula runs on every         *)
(* install: it keeps config.yml, which the user may have edited, in step   *)
(* with the packaged default as long as it equals config.yml.default, the  *)
(* default of the previous install.  One installer runs at a time (brew    *)
(* locks the formula); it may die at any step, and the user may edit or    *)
(* remove files at any time.                                               *)
(***************************************************************************)
EXTENDS Naturals

CONSTANTS Defaults,   \* the texts of packaged defaults
          Edits,      \* texts that are nobody's default
          None        \* no file, no text

ASSUME TextAssumption ==
    Defaults \cap Edits = {} /\ None \notin Defaults /\ None \notin Edits

Texts == Defaults \cup Edits

VARIABLES active,     \* config.yml
          baseline,   \* config.yml.default
          pc,         \* the installer's next step
          new,        \* the default it installs
          mine,       \* history: the text the user wrote last, if no default
          raced,      \* history: written when this run had decided to replace
          untouched,  \* history: active was made equal to baseline, and left so
          cut         \* history: a run died between its two replacements

vars == <<active, baseline, pc, new, mine, raced, untouched, cut>>

\* The two tests and cmp; then both files are replaced, or the baseline only.
Replacing == {"replace baseline", "replace active"}
Steps == {"idle", "test active", "test baseline", "cmp", "keep active"} \cup Replacing

\* No installation, or one from before there was a baseline.
Init ==
    /\ active \in Texts \cup {None}
    /\ baseline = None
    /\ pc = "idle" /\ new = None
    /\ mine = IF active \in Edits THEN active ELSE None
    /\ raced = FALSE /\ untouched = FALSE /\ cut = FALSE

-----------------------------------------------------------------------------
(* The user.                                                               *)

EditActive(text) ==
    /\ active' = text
    /\ mine' = IF text \in Edits THEN text ELSE None
    /\ raced' = (pc \in Replacing)
    /\ untouched' = (pc = "idle" /\ text = baseline) /\ cut' = FALSE
    /\ UNCHANGED <<baseline, pc, new>>

RemoveActive ==
    /\ active' = None /\ mine' = None
    /\ raced' = FALSE /\ untouched' = FALSE /\ cut' = FALSE
    /\ UNCHANGED <<baseline, pc, new>>

RemoveBaseline ==
    /\ baseline' = None
    /\ untouched' = FALSE
    /\ UNCHANGED <<active, pc, new, mine, raced, cut>>

-----------------------------------------------------------------------------
(* The installer.                                                          *)

user == <<mine, raced>>

Goto(step) == pc' = step

Begin(text) ==
    /\ pc = "idle" /\ Goto("test active")
    /\ new' = text
    /\ UNCHANGED <<active, baseline, user, untouched, cut>>

TestActive ==
    /\ pc = "test active"
    /\ Goto(IF active = None THEN "replace baseline" ELSE "test baseline")
    /\ UNCHANGED <<active, baseline, new, user, untouched, cut>>

\* Mutant of TestBaseline: without a baseline there is nothing to preserve.
TestBaselineReplaces ==
    /\ pc = "test baseline"
    /\ Goto(IF baseline = None THEN "replace baseline" ELSE "cmp")
    /\ UNCHANGED <<active, baseline, new, user, untouched, cut>>

TestBaseline ==
    /\ pc = "test baseline"
    /\ Goto(IF baseline = None THEN "keep active" ELSE "cmp")
    /\ UNCHANGED <<active, baseline, new, user, untouched, cut>>

\* cmp fails with a status of its own when a file cannot be read.
Cmp ==
    /\ pc = "cmp"
    /\ \/ active # None /\ active = baseline /\ Goto("replace baseline")
       \/ active # None /\ baseline # None /\ active # baseline /\ Goto("keep active")
       \/ Goto("idle")
    /\ UNCHANGED <<active, baseline, new, user, untouched, cut>>

\* Mutant of ReplaceBaseline: the baseline of the first install stays.
ReplaceNothing ==
    /\ pc = "replace baseline" /\ Goto("replace active")
    /\ baseline' = IF baseline = None THEN new ELSE baseline
    /\ UNCHANGED <<active, new, user, untouched, cut>>

\* atomic_install replaces a file by one mv.
ReplaceBaseline ==
    /\ pc = "replace baseline" /\ Goto("replace active")
    /\ baseline' = new
    /\ UNCHANGED <<active, new, user, untouched, cut>>

\* Mutant of ReplaceActive: the old file is removed first, and the run goes on.
ReplaceByRemoval ==
    /\ pc = "replace active" /\ Goto("move")
    /\ active' = None
    /\ UNCHANGED <<baseline, new, user, untouched, cut>>

ReplaceActive ==
    /\ pc = "replace active" /\ Goto("idle")
    /\ active' = new
    /\ untouched' = (baseline # None) /\ cut' = FALSE
    /\ UNCHANGED <<baseline, new, user>>

KeepActive ==
    /\ pc = "keep active" /\ Goto("idle")
    /\ baseline' = new
    /\ UNCHANGED <<active, new, user, untouched, cut>>

Dies ==
    /\ pc # "idle" /\ Goto("idle")
    /\ cut' = (cut \/ pc = "replace active")
    /\ UNCHANGED <<active, baseline, new, user, untouched>>

Installer ==
    \/ \E text \in Defaults : Begin(text)
    \/ TestActive \/ TestBaseline \/ Cmp
    \/ ReplaceBaseline \/ ReplaceActive \/ KeepActive
    \/ Dies

Next ==
    \/ \E text \in Texts : EditActive(text)
    \/ RemoveActive \/ RemoveBaseline
    \/ Installer

Spec == Init /\ [][Next]_vars

-----------------------------------------------------------------------------
(* Properties.                                                             *)

\* The variables hold what their declarations say; a baseline is a default.
TypeOK ==
    /\ active \in Texts \cup {None}
    /\ baseline \in Defaults \cup {None}
    /\ pc \in Steps
    /\ new \in Defaults \cup {None} /\ (pc # "idle" => new # None)
    /\ mine \in Edits \cup {None}
    /\ raced \in BOOLEAN /\ untouched \in BOOLEAN /\ cut \in BOOLEAN

\* The installer never replaces what the user wrote, however installs,
\* interruptions, removals and edits follow one another: unless the edit fell
\* between the decision of a run and the mv that carries it out (lines 43-45).
UserTextKept == mine # None => active = mine \/ raced

\* An unmodified config follows the defaults: whatever was once equal to the
\* baseline, by an install or by the user's own hand, is equal to it after every
\* later run, unless one died between its two moves (lines 44-45), which the
\* design accepts (docs/specs/2026-08-12-homebrew-config-upgrade-design.md:88).
PristineFollows == pc = "idle" /\ untouched /\ ~cut => active = baseline
=============================================================================
