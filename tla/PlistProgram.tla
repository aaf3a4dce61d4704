--------------------------- MODULE PlistProgram ---------------------------
(***************************************************************************)
(* plist.go of internal/upgrade: the key/value state machine that finds    *)
(* the program of a launchd job in the tokens of its plist, and the plist  *)
(* the manager writes for the one-shot worker.                             *)
(*                                                                         *)
(* A plist is a sequence of entries [key, value]; a value is a string, an  *)
(* array of strings, a dictionary of such values, or something without     *)
(* contents.  Left out are arrays of other than strings (the dictionaries  *)
(* of a StartCalendarInterval) and dictionaries in dictionaries.  A path   *)
(* that is not absolute is "relative" or empty.                            *)
(***************************************************************************)
EXTENDS Naturals, Sequences, SequencesExt

Text(s)    == [is |-> "string", text |-> s]
Array(s)   == [is |-> "array", items |-> s]
Dict(s)    == [is |-> "dict", entries |-> s]
True       == [is |-> "true"]
Entry(k, v) == [key |-> k, value |-> v]

\* Over the strings T.  Dictionaries nest once; that is what distinguishes
\* depth 1 from deeper.
FlatValue(T) == [is : {"string"}, text : T] \cup [is : {"array"}, items : Seq(T)]
                  \cup [is : {"true"}]
Value(T)     == FlatValue(T)
                  \cup [is : {"dict"}, entries : Seq([key : T, value : FlatValue(T)])]

\* What launchd accepts as a job, among the plists of these values: keys are
\* unique, the program and its arguments have the types of launchd.plist.
JobPlist(plist, T) ==
    /\ plist \in Seq([key : T, value : Value(T)])
    /\ \A i, j \in DOMAIN plist : plist[i].key = plist[j].key => i = j
    /\ \A i \in DOMAIN plist :
         /\ plist[i].key = "Program" => plist[i].value.is = "string"
         /\ plist[i].key = "ProgramArguments" => plist[i].value.is = "array"

IsAbs(path) == path \notin {"", "relative"}

-----------------------------------------------------------------------------
(* What the XML decoder hands out.                                         *)

Token(tag, text) == [tag |-> tag, text |-> text]

Strings(items) == [i \in DOMAIN items |-> Token("string", items[i])]

Flat(v) ==
    CASE v.is = "string" -> <<Token("string", v.text)>>
      [] v.is = "array"  -> <<Token("array", "")>> \o Strings(v.items)
                              \o <<Token("/array", "")>>
      [] v.is = "true"   -> <<Token("true", "")>>

InDict(entries, Tokens(_)) ==
    <<Token("dict", "")>>
      \o FlattenSeq([i \in DOMAIN entries |->
            <<Token("key", entries[i].key)>> \o Tokens(entries[i].value)])
      \o <<Token("/dict", "")>>

ValueTokens(v) == IF v.is = "dict" THEN InDict(v.entries, Flat) ELSE Flat(v)

PlistTokens(plist) == InDict(plist, ValueTokens)

-----------------------------------------------------------------------------
(* plistProgram.                                                           *)

Start == [program |-> "", inArgs |-> FALSE, args |-> <<>>, pending |-> "", open |-> 0]

\* Mutant of Read: a Program at any depth is taken.
ReadAnyDepth(s, t) ==
    CASE t.tag = "key" -> [s EXCEPT !.pending = t.text]
      [] t.tag = "string" /\ s.pending = "Program" ->
           [s EXCEPT !.program = t.text, !.pending = ""]
      [] t.tag = "string" /\ s.pending # "Program" /\ s.inArgs ->
           [s EXCEPT !.args = Append(@, t.text)]
      [] t.tag = "array" /\ s.pending = "ProgramArguments" -> [s EXCEPT !.inArgs = TRUE]
      [] t.tag = "/array" /\ s.inArgs -> [s EXCEPT !.inArgs = FALSE, !.pending = ""]
      [] OTHER -> s

\* One token.
Read(s, t) ==
    LET top      == s.open = 1
        program  == t.tag = "string" /\ top /\ s.pending = "Program"
        argument == t.tag = "string" /\ ~program /\ s.inArgs
    IN  CASE t.tag = "dict"  -> [s EXCEPT !.open = @ + 1]
          [] t.tag = "/dict" -> [s EXCEPT !.open = @ - 1]
          [] t.tag = "key" /\ top -> [s EXCEPT !.pending = t.text]
          [] program  -> [s EXCEPT !.program = t.text, !.pending = ""]
          [] argument -> [s EXCEPT !.args = Append(@, t.text)]
          [] t.tag = "array" /\ top /\ s.pending = "ProgramArguments" ->
               [s EXCEPT !.inArgs = TRUE]
          [] t.tag = "/array" /\ s.inArgs ->
               [s EXCEPT !.inArgs = FALSE, !.pending = ""]
          [] OTHER -> s

\* The loop: all tokens, from state s.
ReadAll(s, tokens) ==
    LET state[i \in 0 .. Len(tokens)] ==
          IF i = 0 THEN s ELSE Read(state[i - 1], tokens[i])
    IN  state[Len(tokens)]

\* The program, or "" where the code returns an error.
plistProgram(plist) ==
    LET end     == ReadAll(Start, PlistTokens(plist))
        program == CASE end.program # ""  -> end.program
                     [] end.program = "" /\ end.args # <<>> -> Head(end.args)
                     [] OTHER -> ""
    IN  IF IsAbs(program) THEN program ELSE ""

-----------------------------------------------------------------------------
(* What launchd runs: Program, else the first of ProgramArguments.         *)

Values(plist, k) == {plist[i].value : i \in {j \in DOMAIN plist : plist[j].key = k}}

jobProgram(plist) ==
    LET programs  == Values(plist, "Program")
        arguments == Values(plist, "ProgramArguments")
    IN  CASE programs # {} -> (CHOOSE v \in programs : TRUE).text
          [] programs = {} /\ \E v \in arguments : v.items # <<>> ->
               Head((CHOOSE v \in arguments : TRUE).items)
          [] OTHER -> ""

\* A Program of no characters: the code goes on to ProgramArguments.
EmptyProgram(plist) == Text("") \in Values(plist, "Program")

\* plistProgram finds what launchd runs, or fails when that is not absolute.
Reads(plist) ==
    plistProgram(plist) = IF IsAbs(jobProgram(plist)) THEN jobProgram(plist) ELSE ""

\* The one-shot job of a task, as far as it says what runs and when.
taskPlist(executor) ==
    << Entry("Label", Text("task")),
       Entry("Program", Text(executor)),
       Entry("ProgramArguments", Array(<<executor, "upgrade-worker", "--task-id">>)),
       Entry("RunAtLoad", True),
       Entry("LaunchOnlyOnce", True) >>
=============================================================================
