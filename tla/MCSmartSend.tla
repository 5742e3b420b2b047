---------------------------- MODULE MCSmartSend ----------------------------
(* Instances of SmartSend: monthly fulls, daily incrementals.              *)
EXTENDS SmartSend

MCKindOrder == <<"daily", "monthly">>
MCSymmetry == Permutations(Runner)

JobOf(mode, raw) ==
    [mode |-> mode, window |-> 16, fullKinds |-> {"monthly"}, incrKinds |-> {"daily"},
     raw |-> raw, resume |-> FALSE, needsSnapshot |-> FALSE]
Rekind == {JobOf("window", FALSE), JobOf("full", TRUE)}
Mixed == Rekind \cup {JobOf("increment", TRUE)}
LongWindow == {[JobOf("window", FALSE) EXCEPT !.window = 48, !.needsSnapshot = TRUE]}
Replicate == {[JobOf("window", FALSE) EXCEPT !.needsSnapshot = TRUE]}

Nothing == [c \in Counters \cup {"time"} |-> 0]
Scenario(jobs, overlap, dests, batches, max) ==
    [jobs |-> jobs, overlap |-> overlap, dests |-> dests, batches |-> batches,
     steps |-> {16}, max |-> max]
Both == {<<"daily">>, <<"daily", "monthly">>}
Singles == {<<"daily">>, <<"monthly">>}

MCScenarios ==
    {\* Two runs with other options, one of which may fail, two destinations, a deleted set.
     Scenario(Rekind, 2, 2, Both,
        [Nothing EXCEPT !.time = 33, !["sends"] = 2, !["fails"] = 1, !["deletes"] = 1]),
     \* Longer histories of such runs at one destination.
     Scenario(Mixed, 2, 1, Both, [Nothing EXCEPT !.time = 33, !["sends"] = 3, !["deletes"] = 1]),
     Scenario(Rekind, 2, 1, Both, [Nothing EXCEPT !.time = 49, !["sends"] = 3, !["deletes"] = 1]),
     \* One run at a time; one fails, the source is pruned, or only its bookmark left.
     Scenario(LongWindow, 1, 1, Singles, [Nothing EXCEPT !.time = 65, !["sends"] = 3]),
     Scenario(LongWindow, 1, 2, Singles,
        [Nothing EXCEPT !.time = 65, !["sends"] = 3, !["fails"] = 1, !["prunes"] = 1,
                        !["bookmarks"] = 1]),
     \* One run at a time, and a snapshot with a wrong date.
     Scenario(Replicate, 1, 2, Both,
        [Nothing EXCEPT !.time = 33, !["sends"] = 3, !["fails"] = 1, !["prunes"] = 1,
                        !["wrong"] = 1])}
=============================================================================
