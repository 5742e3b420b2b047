--------------------------- MODULE MCSendPipeline ---------------------------
(* Instances of SendPipeline.                                              *)
EXTENDS SendPipeline

Job(d, p, b, start, v) ==
    [destinations |-> d, parallelUploads |-> p, maxFileBuffer |-> b, mayNotStart |-> start,
     maxVolumes |-> v]

\* Two destinations; two volumes of a zfs send that may not start; two uploads at a time
\* of a volume and its manifest, and of three volumes through pipes.
MCJobs == {Job(2, 1, 1, FALSE, 1), Job(1, 1, 1, TRUE, 2), Job(1, 2, 2, FALSE, 1), Job(1, 2, 0, FALSE, 3)}
\* A pipe, and a zfs send that may not start.
MCNoStart == {Job(1, 1, 0, TRUE, 2)}
=============================================================================
