---------------------------- MODULE MCBackupSet ----------------------------
(* BackupSet on a small instance: two attempts at any two of four streams,  *)
(* two volumes in flight; three attempts at one stream, a volume at a time, *)
(* the third to all destinations.                                           *)
EXTENDS BackupSet, TLC

\* Jobs are only compared for equality, and so are the streams of one job.
Symmetry == Permutations(Job) \cup Permutations(Variant)

Streams ==
    {stream} \cup {f.vol.str : f \in line}
      \cup UNION {{x.str : x \in Range(object[d]) \ {None, Truncated}} : d \in Dest}
      \cup UNION {{x.str : x \in CachedVolumes(d)} : d \in Dest}
JobsSeen ==
    {job} \cup {s.job : s \in Streams \ {None}}
      \cup {m.job : m \in {x \in Range(cache) \cup Range(manifest) : Readable(x)}}

Bound ==
    att > 2 => /\ Cardinality(Streams \ {None}) <= 1 /\ Cardinality(JobsSeen \ {None}) <= 1
               /\ Cardinality(line) <= 1
               /\ pc # "idle" => Len(dests) = Cardinality(Dest)
=============================================================================
