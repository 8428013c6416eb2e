----------------------------- MODULE MCDelivery -----------------------------
(***************************************************************************)
(* Instances of Delivery for TLC.                                          *)
(***************************************************************************)
EXTENDS Delivery

\* Two configurations, the second without e-mail.
EmailRemoved == <<{"ntfy", "email"}, {"ntfy"}>>

\* Stages of the channel that stays, and of both.
OneOrBoth == {{"ntfy"}, {"ntfy", "email"}}

\* A backoff that holds the channel after every failure.
OneRung == <<1>>
=============================================================================
