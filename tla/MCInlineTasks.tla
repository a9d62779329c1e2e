---------------------------- MODULE MCInlineTasks ----------------------------
(* Small instances of InlineTasks for TLC. *)
EXTENDS InlineTasks, FiniteSets

CONSTANTS s, t, sync, row

(* One thread dispatches a task, the other only a use case. *)
Depths == [u \in Threads |-> IF u = s THEN 2 ELSE 1]
DepthFrames == UNION {{u} \X (1..Depths[u]) : u \in Threads}

(* Bound: one thing is wrong at a time, a frame, a link or the server. *)
DeadLinks == {p \in Slots : slot[p].link = "dead"}
OneFault ==
    LET frames == caught \cup poisoned \cup aborted
        outages == {server} \ {"up"}
    IN  Cardinality(frames) + Cardinality(DeadLinks) + Cardinality(outages) <= 1
=============================================================================
