--------------------------- MODULE MCStorageBudget ---------------------------
(* Releases of one or two files of any kind, and of three files that shrink.  *)
EXTENDS StorageBudget, TLC

CONSTANTS Sizes, Count

\* One file of a release and of the card: a template has a prepared size of its
\* own, and only a file that is there can already be the new one.
FileRecords ==
    {f \in [policy : Policies, size : Sizes, old : Sizes \cup {Absent},
            prepared : Sizes, same : BOOLEAN] :
       /\ f.policy # "ConfigTemplate" => f.prepared = f.size
       /\ f.same => f.old = IF f.policy = "ConfigTemplate" THEN f.prepared ELSE f.size}

Shrinking ==
    {f \in FileRecords : /\ f.policy \in {"Kernel", "ManagedReplace"} /\ ~f.same
                         /\ f.size = Min(Sizes) /\ f.old = Max(Sizes)}

MCReleases == UNION {[1..n -> FileRecords] : n \in 1..Count} \cup [1..(Count + 1) -> Shrinking]

\* Just too little, what the first check asks for, that and the plan's own file,
\* which the second check wants as well, and room for two prepared files that grew.
MCSlacks == {-1, 0, 2, 22}
=============================================================================
