----------------------------- MODULE MCKnowledge -----------------------------
EXTENDS Knowledge, TLC

\* Handlers differ only by name, and so do edits, requests and questions.
Symmetry == Permutations(Workers) \cup Permutations(Editors) \cup Permutations(Starters)
            \cup Permutations(Readers)

\* Answers that a question may still find: it holds or will read their version.
Findable(e, here) ==
  \/ /\ e.version >= version \/ (e.version = 1 /\ faults < MaxFaults)
     /\ asks < MaxAsks \/ \E r \in Readers : reader[r].pc # "idle"
  \/ \E r \in Readers : reader[r].pc = here /\ reader[r].ver = e.version

\* The others no longer matter.
View == <<version, {e \in exact : Findable(e, "exact")}, {e \in semantic : Findable(e, "semantic")},
          reader, asks, faults, authors, epoch, floor, unannounced,
          docVars, ticketVars, crawlVars, focus>>
=============================================================================
