--------------------------- MODULE MCUpdateSession ---------------------------
EXTENDS UpdateSession

Rel(id, tag, sequence, is_draft, key) ==
    [id |-> id, tag |-> tag, sequence |-> sequence, epoch |-> sequence,
     board |-> "pi4", abi |-> 1, minimum_abi |-> 1, maximum_abi |-> 1,
     draft |-> is_draft, prerelease |-> FALSE, key |-> key,
     manifest_size |-> 1, zip_size |-> 1]

Installed0 == Rel("r0", "v0", 1, FALSE, "k")
MCReleases ==
    {Rel("r1", "v1", 2, FALSE, "k"),    \* a stable release
     Rel("r2", "v1", 2, FALSE, "k"),    \* its assets, published again
     Rel("d3", "v3", 3, TRUE, "k")}     \* a draft
MCConfigs == {"plain", "old", "broken"}
MCAssessment ==
    [x \in MCReleases \X MCConfigs |->
       CASE x[2] = "plain" -> "Compatible" [] x[2] = "broken" -> "Blocked"
         [] x[2] = "old" -> IF x[1].sequence = 2 THEN "ResetRequired" ELSE "Compatible"]
MCTickets == {[release |-> Rel("d3", "v3", 3, TRUE, "k"), key |-> "k",
               issued |-> 0, expires |-> 2]}
=============================================================================
