---------------------------- MODULE MCParseJobs -----------------------------
(* One photo document or one catalogue, two attempts that may overlap, one   *)
(* sweep at a time.  No symmetry: a liveness property is among those checked. *)
EXTENDS ParseJobs
=============================================================================
