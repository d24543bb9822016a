--------------------------- MODULE MCHistoryService ---------------------------
(* Message ids are interchangeable and nothing temporal is checked. *)
EXTENDS HistoryService, TLC

Symmetry == Permutations(Messages) \cup Permutations(Forks)
            \cup Permutations(Stops)
=============================================================================
