----------------------------- MODULE MCRequests -----------------------------
(* Small instances of Requests: what its parts are given by the cfgs.      *)
EXTENDS Requests, TLC

\* Two products: one known by name, one that is not.
Products == [s1 |-> "sentry", door |-> "door"]

\* What a manifest may declare, and what the file may hold of a product before.
Declared ==
  {[reviewable |-> TRUE, cap |-> "access", undecided |-> TRUE, stops |-> FALSE],
   [reviewable |-> FALSE, cap |-> "access", undecided |-> TRUE, stops |-> FALSE],
   [reviewable |-> TRUE, cap |-> "none", undecided |-> FALSE, stops |-> TRUE]}
Before ==
  {[id |-> 1, cap |-> "access", undecided |-> FALSE, stops |-> FALSE, over |-> {"operator"}],
   [id |-> 1, cap |-> "none", undecided |-> TRUE, stops |-> FALSE, over |-> {}]}

\* The requests to the acknowledgement page: looking, answering, and guessing.
Asked == {<<"GET", "right">>, <<"POST", "right">>, <<"POST", "junk">>}

Symmetric == Permutations(Hands)
=============================================================================
