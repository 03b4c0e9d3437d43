------------------------------- MODULE MCFeeder -------------------------------
(* A manifest of three slices for the backlog feeder.                      *)
EXTENDS BacklogFeeder

\* A chain over two lanes, and a slice that is the owner's.
MCManifest ==
  <<[lane |-> "alpha", gated |-> FALSE, needs |-> {}],
    [lane |-> "beta", gated |-> FALSE, needs |-> {1}],
    [lane |-> "alpha", gated |-> TRUE, needs |-> {}]>>
===============================================================================
