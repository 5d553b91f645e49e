------------------------------ MODULE MCAiJobs ------------------------------
(* AiJobs for TLC: two topics, of two tickets each. *)
EXTENDS AiJobs, TLC

CONSTANTS t1, t2, t3, t4

MCTickets == {t1, t2, t3, t4}
MCTopics == {1, 2}
MCTopicOf == [t \in MCTickets |-> IF t \in {t1, t2} THEN 1 ELSE 2]

\* Callers, workers, reviewers and the tickets of a topic differ only by name.
Symmetry == Permutations(Workers) \union Permutations(Reviewers)
              \union Permutations({t1, t2}) \union Permutations({t3, t4})
=============================================================================
