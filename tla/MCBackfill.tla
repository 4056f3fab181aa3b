----------------------------- MODULE MCBackfill ------------------------------
(* Backfill on small instances. *)
EXTENDS Backfill, TLC

Announcement(day, code, n) == [day |-> day, code |-> code, n |-> n]
MCDoc == {Announcement(1, c, 1) : c \in {"x", "y", "z"}} \cup {Announcement(2, "u", 1)}
MCLimit == [j \in Job |-> IF j = "month" THEN 2 ELSE 1]
MCRoots == [j \in Job |-> IF j = "month" THEN <<<<1, 2>>>> ELSE <<<<1, 1>>>>]
MCResume == [j \in Job |-> {TRUE}]

MCSymmetry == Permutations(Worker)

(* A claim is compared only by the worker that still acts on it.           *)
Acts(w, p, ats) == w # None /\ Busy(w) /\ work[w].stack # <<>> /\ Top(w).part = p /\ Top(w).at \in ats
MCView ==
  <<[db EXCEPT
      !.part = [p \in Partition |->
        IF @[p].status = "running" /\ Acts(@[p].holder, p, {"fetch", "joining", "verifying", "folding"})
        THEN @[p] ELSE [@[p] EXCEPT !.holder = None]],
      !.item = [p \in Partition |-> [c \in Code |->
        IF @[p][c].status = "running" /\ Acts(@[p][c].holder, p, {"item"})
        THEN @[p][c] ELSE [@[p][c] EXCEPT !.holder = None]]],
      !.job = [j \in Job |-> IF @[j].holder # None /\ work[@[j].holder].job = j
        THEN @[j] ELSE [@[j] EXCEPT !.holder = None]]],
    work, events>>
=============================================================================
