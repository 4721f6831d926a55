----------------------------- MODULE MCCampaign -----------------------------
(* Campaign with small sets, for TLC.                                      *)
EXTENDS Campaign, TLC

Symmetry == Permutations(Recipient) \union Permutations(JobId)
            \union Permutations(Request)

\* TLC has no symmetry for liveness. Instead, jobs take their numbers in order:
\* every behaviour of FairSpec is one of these with its jobs renumbered.
InOrder == \A j, k \in JobId : j < k /\ job'[k].pc # "free" => job'[j].pc # "free"

OrderedSpec ==
    /\ Init /\ [][Next /\ InOrder]_vars
    /\ Fairness
=============================================================================
