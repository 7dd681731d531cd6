---------------------------- MODULE MCReviewRound ----------------------------
(* Reviews of small diffs with few distinct reports. *)
EXTENDS ReviewRound

Says(outcome, blocks) == [outcome |-> outcome, blocks |-> blocks]

\* Reports that each found at most one blocker.
OneBlockerEach == {Says("done", {b}) : b \in Blockers}
CleanOrBlocking == {Says("done", {})} \cup OneBlockerEach

\* The same beside a reviewer that asks.
CleanBlockingAsking == CleanOrBlocking \cup {Says("asks", {})}

=============================================================================
