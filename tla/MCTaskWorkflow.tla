--------------------------- MODULE MCTaskWorkflow ---------------------------
(* Small instances of TaskWorkflow.                                            *)
EXTENDS TaskWorkflow, TLC

CONSTANTS ann, bob, t1, h1, h2

\* Two of the rows of prisma/seed.ts: one to do, one done.
Seeded(status) == [status |-> status, done |-> status = "DONE", creator |-> ann,
                   assignee |-> bob, link |-> "none"]
MCSeedRows == {Seeded("TODO"), Seeded("DONE")}
MCBodies == {[status |-> "TODO", assignee |-> bob]}
MCPatches == {[status |-> "DONE", assignee |-> Same], [status |-> "CANCELLED", assignee |-> ann]}

Symmetry == Permutations({h1, h2})
=============================================================================
