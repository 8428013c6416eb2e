----------------------------- MODULE MCWatching -----------------------------
(* Watching on small sets. *)
EXTENDS Watching

\* The sources of one application on two consoles, which share its name.
Applications == [house |-> "protect", yard |-> "protect"]
Promises == [house |-> 1, yard |-> 1]

\* Two devices on one site, which fill two pages, and one on another.
Homes == <<"s1", "s1", "s2">>
=============================================================================
