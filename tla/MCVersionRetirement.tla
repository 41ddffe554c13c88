--------------------------- MODULE MCVersionRetirement ---------------------------
EXTENDS VersionRetirement

MCNsOf == [o \in {"c1"} |-> "n1"]
MCRank == [o \in {"x1", "c1"} |-> IF o = "x1" THEN 1 ELSE 2]

Migrate(targets, dryRun, prune, namespace, concurrency) ==
    [targets |-> targets, dryRun |-> dryRun, prune |-> prune,
     namespace |-> namespace, concurrency |-> concurrency]

MCMigrateOptions ==
    {Migrate(CRDs, FALSE, TRUE, AllNamespaces, 0), Migrate({"claim"}, FALSE, TRUE, "n2", 2),
     Migrate({"claim"}, TRUE, TRUE, AllNamespaces, 2)}

MCRetargetOptions ==
    {[to |-> 2, dryRun |-> FALSE, concurrency |-> 2, canary |-> canary] :
        canary \in {[unit |-> "all", n |-> 0], [unit |-> "percent", n |-> 40]}}
=============================================================================
