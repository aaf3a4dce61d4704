------------------------- MODULE MCInstallIdentity -------------------------
(* Instances of InstallIdentity for TLC, and the plists the state machine  *)
(* of plistProgram is checked against.                                     *)
EXTENDS InstallIdentity, TLC

CONSTANTS p1, p2, p3, v1, v2, homebrew, copied

TwoKegs   == {v1, v2}
TwoLabels == {homebrew, copied}
Three     == {p1, p2, p3}
Symmetry  == UNION {Permutations(S) : S \in {Three, TwoKegs, TwoLabels}}

\* What `brew services` writes, and a job that wraps the binary.
SomePlists ==
    { << Entry("Label", Text("homebrew")),
         Entry("ProgramArguments", Array(<<"opt">>)),
         Entry("KeepAlive", True) >>,
      << Entry("Program", Text("wrapper")),
         Entry("ProgramArguments", Array(<<"wrapper", "opt">>)) >> }

Entries ==
    { Entry("Label", Text("homebrew")),
      Entry("RunAtLoad", True),
      Entry("Program", Text("opt")),
      Entry("Program", Text("relative")),
      Entry("ProgramArguments", Array(<<>>)),
      Entry("ProgramArguments", Array(<<"opt", "upgrade-status">>)),
      Entry("ProgramArguments", Array(<<"wrapper", "opt">>)),
      Entry("WatchPaths", Array(<<"wrapper">>)),
      Entry("EnvironmentVariables", Dict(<<Entry("Program", Text("wrapper"))>>)),
      Entry("Sockets", Dict(<<Entry("ProgramArguments", Array(<<"wrapper">>)),
                              Entry("Program", Text("wrapper"))>>)) }

SomeDocuments ==
    { plist \in UNION {[1 .. n -> Entries] : n \in 0 .. 3} :
        \A i, j \in DOMAIN plist : plist[i].key = plist[j].key => i = j }

NoDocuments == {}
=============================================================================
