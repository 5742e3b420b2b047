------------------------------ MODULE MCClean ------------------------------
(* Instances of Clean: two datasets, two sets of the first, and another job *)
(* that sends one of those under its own prefix.                            *)
EXTENDS Clean

O(f, l, d) == [force |-> f, local |-> l, dryRun |-> d]
Plain == {O(FALSE, FALSE, FALSE), O(FALSE, TRUE, FALSE), O(FALSE, FALSE, TRUE)}
Forcing == {O(TRUE, FALSE, FALSE), O(TRUE, TRUE, FALSE)}

Scenario(jobs, options, sent, cleans, damaged, failures) ==
    [jobs |-> jobs, options |-> options, send |-> sent, clean |-> cleans,
     damage |-> damaged, failure |-> failures]
Shared == {<<"ours", "a1">>, <<"other", "a1">>, <<"ours", "b1">>}
Alone == {<<"ours", "a1">>, <<"ours", "a2">>}

MCds == [s \in Set |-> IF s = "b1" THEN "B" ELSE "A"]
MCScenarios == {Scenario(Shared, Plain, 3, 1, 0, 1), Scenario(Alone, Forcing, 3, 2, 1, 1)}
=============================================================================
