------------------------ MODULE ConfigInstallProofs ------------------------
(***************************************************************************)
(* Proofs about ConfigInstall for any defaults and edits: the user's text  *)
(* is kept, and an unmodified config follows the defaults.                 *)
(***************************************************************************)
EXTENDS ConfigInstall, TLAPS

-----------------------------------------------------------------------------
(* The inductive invariant.                                                *)

\* A run that is about to replace has found no text of the user's; one that
\* keeps the active config has found it modified.
DecisionsHold ==
    /\ pc \in Replacing => mine = None \/ raced
    /\ pc = "keep active" /\ untouched => cut

\* An untouched config exists, and equals the baseline except between the two
\* moves, when the baseline is already the new one.
UntouchedIsBaseline ==
    /\ untouched => active # None
    /\ untouched /\ ~cut /\ pc # "replace active" => active = baseline
    /\ pc = "replace active" => baseline \in {new, None}

IInv == TypeOK /\ UserTextKept /\ DecisionsHold /\ UntouchedIsBaseline

-----------------------------------------------------------------------------
LEMMA InitHolds == Init => IInv
BY TextAssumption DEF Init, IInv, TypeOK, UserTextKept, DecisionsHold,
   UntouchedIsBaseline, Texts, Steps, Replacing

\* What an edit says of the run it falls into.
LEMMA EditFlags ==
  ASSUME NEW text, EditActive(text)
  PROVE  /\ raced' \in BOOLEAN /\ (raced' <=> pc \in Replacing)
         /\ untouched' \in BOOLEAN /\ (untouched' <=> pc = "idle" /\ text = baseline)
<1>1. raced' = (pc \in Replacing)
  BY DEF EditActive
<1>2. untouched' = (pc = "idle" /\ text = baseline)
  BY DEF EditActive
<1>3. raced' \in BOOLEAN /\ (raced' <=> pc \in Replacing)
  <2>1. CASE pc \in Replacing
    <3>1. raced' = TRUE
      BY <1>1, <2>1
    <3> QED BY <2>1, <3>1
  <2>2. CASE pc \notin Replacing
    <3>1. (pc \in Replacing) = FALSE
      BY <2>2
    <3>2. raced' = FALSE
      BY <1>1, <3>1
    <3> QED BY <2>2, <3>2
  <2> QED BY <2>1, <2>2
<1>4. untouched' \in BOOLEAN /\ (untouched' <=> pc = "idle" /\ text = baseline)
  BY <1>2
<1> QED BY <1>3, <1>4

\* The user may write or remove anything at any step.
LEMMA UserKeeps ==
  ASSUME IInv,
         (\E text \in Texts : EditActive(text)) \/ RemoveActive \/ RemoveBaseline
  PROVE  IInv'
<1> USE TextAssumption DEF IInv, TypeOK, UserTextKept, DecisionsHold,
                           UntouchedIsBaseline, Texts, Replacing
<1>1. ASSUME NEW text \in Texts, EditActive(text)
      PROVE  IInv'
  <2>1. CASE pc \in Replacing
    BY <1>1, <2>1, EditFlags DEF EditActive
  <2>2. CASE pc \notin Replacing /\ pc = "idle" /\ text = baseline
    BY <1>1, <2>2, EditFlags DEF EditActive
  <2>3. CASE pc \notin Replacing /\ ~(pc = "idle" /\ text = baseline)
    BY <1>1, <2>3, EditFlags DEF EditActive
  <2> QED BY <2>1, <2>2, <2>3
<1>2. CASE RemoveActive
  BY <1>2 DEF RemoveActive
<1>3. CASE RemoveBaseline
  BY <1>3 DEF RemoveBaseline
<1> QED BY <1>1, <1>2, <1>3

\* A test or cmp decides by what it sees.
LEMMA DecidingKeeps ==
  ASSUME IInv, (\E text \in Defaults : Begin(text)) \/ TestActive \/ TestBaseline \/ Cmp
  PROVE  IInv'
<1> USE TextAssumption DEF IInv, TypeOK, UserTextKept, DecisionsHold,
                           UntouchedIsBaseline, Texts, Steps, Replacing, Goto, user
<1>1. ASSUME NEW text \in Defaults, Begin(text)
      PROVE  IInv'
  BY <1>1 DEF Begin
<1>2. CASE TestActive
  <2>1. CASE active = None
    BY <1>2, <2>1 DEF TestActive
  <2>2. CASE active # None
    BY <1>2, <2>2 DEF TestActive
  <2> QED BY <2>1, <2>2
<1>3. CASE TestBaseline
  <2>1. CASE baseline = None
    BY <1>3, <2>1 DEF TestBaseline
  <2>2. CASE baseline # None
    BY <1>3, <2>2 DEF TestBaseline
  <2> QED BY <2>1, <2>2
<1>4. CASE Cmp
  BY <1>4 DEF Cmp
<1> QED BY <1>1, <1>2, <1>3, <1>4

\* A file is replaced, or the run dies.
LEMMA ReplacingKeeps ==
  ASSUME IInv, ReplaceBaseline \/ ReplaceActive \/ KeepActive \/ Dies
  PROVE  IInv'
<1> USE TextAssumption DEF IInv, TypeOK, UserTextKept, DecisionsHold,
                           UntouchedIsBaseline, Texts, Steps, Replacing, Goto, user
<1>1. CASE ReplaceBaseline
  BY <1>1 DEF ReplaceBaseline
<1>2. CASE ReplaceActive
  BY <1>2 DEF ReplaceActive
<1>3. CASE KeepActive
  BY <1>3 DEF KeepActive
<1>4. CASE Dies
  BY <1>4 DEF Dies
<1> QED BY <1>1, <1>2, <1>3, <1>4

LEMMA InvariantKept == IInv /\ [Next]_vars => IInv'
<1> SUFFICES ASSUME IInv, [Next]_vars PROVE IInv'
  OBVIOUS
<1>1. CASE UNCHANGED vars
  BY <1>1 DEF vars, IInv, TypeOK, UserTextKept, DecisionsHold, UntouchedIsBaseline
<1> QED BY <1>1, UserKeeps, DecidingKeeps, ReplacingKeeps DEF Next, Installer

LEMMA InvariantHolds == Spec => []IInv
BY InitHolds, InvariantKept, PTL DEF Spec

\* Both files always hold whole texts, and the baseline a default
\* (atomic_install).
THEOREM ConfigTypeCorrect == Spec => []TypeOK
<1>1. IInv => TypeOK
  BY DEF IInv
<1> QED BY InvariantHolds, <1>1, PTL

\* The installer never replaces what the user wrote before the run decided.
THEOREM UserTextIsKept == Spec => []UserTextKept
<1>1. IInv => UserTextKept
  BY DEF IInv
<1> QED BY InvariantHolds, <1>1, PTL

\* An unmodified config is equal to the baseline after every run that was not
\* cut between its two moves.
THEOREM PristineConfigFollows == Spec => []PristineFollows
<1>1. IInv => PristineFollows
  BY DEF IInv, UntouchedIsBaseline, PristineFollows
<1> QED BY InvariantHolds, <1>1, PTL
=============================================================================
