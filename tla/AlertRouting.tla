----------------------------- MODULE AlertRouting ----------------------------
(***************************************************************************)
(* From the settings of channels and ladders to the queue a rung reaches:  *)
(* what the validator refuses and says, which channels can be built, the   *)
(* ladders made for them, and the look-up each delivery does.  A channel   *)
(* has one defect at a time, and is named by it.                           *)
(***************************************************************************)
EXTENDS Integers, Sequences, FiniteSets

CONSTANTS
  Conditions,  \* bound: built-in channel -> the states its settings are tried in
  HookLists,   \* bound: the lists of outbound webhooks tried
  Policies,    \* bound: the operator's own ladders tried; NoPolicy for none
  Windows      \* bound: the states quiet hours are tried in

VARIABLES
  config,   \* [channel |-> .., hooks |-> .., policy |-> .., quiet |-> ..]
  phase,    \* "file", "accepted", "built", "running"; "refused", "stopped"
  queues,   \* Delivery.queues: their names
  broken,   \* Delivery.broken
  ladders,  \* the scheduler's policies: severity -> policy
  warned,   \* what Warnings and reportBrokenChannels said
  unknown   \* ghost: names Deliver did not find

vars == <<config, phase, queues, broken, ladders, warned, unknown>>

Severities == {"critical", "high", "medium", "low", "info"}
Builtins == {"ntfy", "email", "pushover", "voice"}
NoPolicy == [severity |-> "none"]

Lower(name) == CASE name = "Hook" -> "hook" [] name = "Ntfy" -> "ntfy" [] OTHER -> name

Refuses == \* what the validator finds
  [ntfy |-> {"no topic", "bad server"},
   email |-> {"no host", "no from", "bad from", "bad recipient", "no recipients",
              "bad port", "bad tls", "no password"},
   pushover |-> {"no token", "no user"},
   voice |-> {"no sid", "not a sid", "no token", "bad from", "bad recipient", "no recipients"},
   webhook |-> {"no url", "bad url", "own header"}]

(* What each channel's own New finds. *)
NtfyCannot == Refuses.ntfy \cup {"path topic"}
EmailCannot == (Refuses.email \ {"bad tls", "no password"}) \cup {"blank recipients"}
PushoverCannot == Refuses.pushover
VoiceCannot == Refuses.voice \cup {"bad voice"}
WebhookCannot == Refuses.webhook \cup {"framing header", "bad header"}

CannotBuild ==
  [ntfy |-> NtfyCannot, email |-> EmailCannot, pushover |-> PushoverCannot,
   voice |-> VoiceCannot, webhook |-> WebhookCannot]

On(state) == state \notin {"absent", "off"}
HookName(h) == IF h.name = "" THEN "webhook" ELSE h.name
HookNames(c) == {HookName(c.hooks[i]) : i \in {j \in DOMAIN c.hooks : On(c.hooks[j].state)}}

EnabledChannelNames(c) == {b \in Builtins : On(c.channel[b])} \cup HookNames(c)

ChannelProblems(c) ==
  {<<b, c.channel[b]>> : b \in {b \in Builtins : c.channel[b] \in Refuses[b]}}

HookProblems(c) ==
  {<<"hook", i>> : i \in {i \in DOMAIN c.hooks :
     \/ Lower(HookName(c.hooks[i])) \in Builtins
     \/ \E j \in 1 .. i - 1 : Lower(HookName(c.hooks[j])) = Lower(HookName(c.hooks[i]))
     \/ c.hooks[i].state \in Refuses.webhook}}

---------------------------------------------------------------------------
Rung(after, channels) == [after |-> after, channels |-> channels]

DefaultPolicies ==
  [critical |-> [stages |-> <<Rung(0, {"ntfy"}), Rung(2, {"ntfy", "email"})>>, quiet |-> FALSE, giveUp |-> 0],
   high |-> [stages |-> <<Rung(0, {"ntfy"}), Rung(15, {"ntfy", "email"})>>, quiet |-> FALSE, giveUp |-> 240],
   medium |-> [stages |-> <<Rung(0, {"ntfy"})>>, quiet |-> FALSE, giveUp |-> 720],
   low |-> [stages |-> <<Rung(0, {"ntfy"})>>, quiet |-> TRUE, giveUp |-> 1440],
   info |-> [stages |-> <<Rung(0, {"ntfy"})>>, quiet |-> TRUE, giveUp |-> 60]]

Have(enabled) == {Lower(n) : n \in enabled}

\* A rung left without channels is left out; the others keep their numbers here.
FilterToEnabled(p, have) ==
  LET left == {i \in DOMAIN p.stages : \E ch \in p.stages[i].channels : Lower(ch) \in have}
  IN  [p EXCEPT !.stages =
         [i \in left |-> [p.stages[i] EXCEPT !.channels = {ch \in @ : Lower(ch) \in have}]]]

EveryChannelLadder(p, enabled) == [p EXCEPT !.stages = <<Rung(0, enabled)>>]

DefaultFor(sev, enabled) ==
  LET p == DefaultPolicies[sev]
      filtered == FilterToEnabled(p, Have(enabled))
  IN  CASE enabled = {} -> p
        [] enabled # {} /\ filtered.stages # <<>> -> filtered
        [] OTHER -> EveryChannelLadder(p, enabled)

(* A duration that does not parse is -1. *)
Builds(p) == p.giveUp # -1 /\ \A i \in DOMAIN p.stages : p.stages[i].after # -1

Own(p) == [stages |-> p.stages, quiet |-> p.quiet, giveUp |-> p.giveUp]

BuildKeepsDefault(c, enabled) == \* mutant: no delete(out, sev)
  LET own == IF c.policy = NoPolicy \/ enabled = {} THEN c.policy
             ELSE FilterToEnabled(c.policy, Have(enabled))
      left == IF c.policy = NoPolicy \/ own.stages = <<>> THEN {} ELSE {own.severity}
  IN  [sev \in Severities \cup left |->
         IF sev \in left THEN Own(own) ELSE DefaultFor(sev, enabled)]

BuildPolicies(c, enabled) ==
  LET own == IF c.policy = NoPolicy \/ enabled = {} THEN c.policy
             ELSE FilterToEnabled(c.policy, Have(enabled))
      named == IF c.policy = NoPolicy THEN {} ELSE {c.policy.severity}
      left == IF named = {} \/ (own.stages = <<>> /\ enabled # {}) THEN {} ELSE named
  IN  [sev \in (Severities \ named) \cup left |->
         IF sev \in left THEN Own(own) ELSE DefaultFor(sev, enabled)]

(* Policy.Validate *)
Expressible(sev, p) ==
  /\ p.stages # <<>>
  /\ \A i \in DOMAIN p.stages : p.stages[i].channels # {}
  /\ \A i, j \in DOMAIN p.stages : i < j => p.stages[i].after < p.stages[j].after
  /\ sev = "critical" => ~p.quiet /\ p.giveUp = 0

PolicyProblems(c) ==
  LET enabled == EnabledChannelNames(c)
      built == BuildPolicies(c, enabled)
  IN  IF c.policy # NoPolicy /\ ~Builds(c.policy) THEN {<<"duration">>}
      ELSE {<<"not a severity", s>> : s \in DOMAIN built \ Severities}
           \cup {<<"ladder", s>> : s \in {s \in DOMAIN built \cap Severities : ~Expressible(s, built[s])}}
           \cup {<<"no ladder left", s>> : s \in IF enabled = {} THEN {} ELSE Severities \ DOMAIN built}

(* QuietHours.Validate looks only at a window that is switched on. *)
QuietProblems(c) ==
  {<<"quiet hours">> : x \in {c.quiet} \cap {"not a time", "empty", "unknown zone"}}

ZoneWarnings(c) == {<<"unknown zone">> : x \in {c.quiet} \cap {"off, unknown zone"}}

Problems(c) ==
  ChannelProblems(c) \cup HookProblems(c) \cup QuietProblems(c) \cup PolicyProblems(c)

Rungs(p) == UNION {p.stages[i].channels : i \in DOMAIN p.stages}

OwnRungs(c) == IF c.policy = NoPolicy THEN {} ELSE Rungs(c.policy)

UnavailableWarnings(c) ==
  LET have == Have(EnabledChannelNames(c))
  IN  {<<"not enabled", ch>> : ch \in IF have = {} THEN {} ELSE {ch \in OwnRungs(c) : Lower(ch) \notin have}}

VoiceWarnings(c) ==
  {<<"nothing will call">> : x \in {"voice"} \cap (EnabledChannelNames(c) \ OwnRungs(c))}

Warnings(c) == UnavailableWarnings(c) \cup VoiceWarnings(c) \cup ZoneWarnings(c)

---------------------------------------------------------------------------
Init ==
  /\ config \in [channel : {f \in [Builtins -> UNION {Conditions[b] : b \in Builtins}] :
                              \A b \in Builtins : f[b] \in Conditions[b]},
                 hooks : HookLists, policy : Policies, quiet : Windows]
  /\ phase = "file" /\ queues = {} /\ broken = {} /\ ladders = <<>>
  /\ warned = {} /\ unknown = {}

Read ==
  /\ phase = "file"
  /\ IF Problems(config) = {}
     THEN phase' = "accepted" /\ warned' = Warnings(config)
     ELSE phase' = "refused" /\ UNCHANGED warned
  /\ UNCHANGED <<config, queues, broken, ladders, unknown>>

BuildDelivery ==
  /\ phase = "accepted"
  /\ LET c == config
         bad == {b \in Builtins : c.channel[b] \in CannotBuild[b]}
                \cup {HookName(c.hooks[i]) : i \in {i \in DOMAIN c.hooks : c.hooks[i].state \in CannotBuild.webhook}}
     IN  /\ broken' = bad
         /\ queues' = EnabledChannelNames(c) \ bad
         /\ warned' = warned \cup {<<"could not be started", n>> : n \in bad}
  /\ phase' = "built"
  /\ UNCHANGED <<config, ladders, unknown>>

(* BuildPolicies over the channels that exist, and NewScheduler's checks *)
BuildLadders ==
  /\ phase = "built"
  /\ LET built == BuildPolicies(config, queues)
     IN  IF \A s \in DOMAIN built : Expressible(s, built[s])
         THEN phase' = "running" /\ ladders' = built
         ELSE phase' = "stopped" /\ UNCHANGED ladders
  /\ UNCHANGED <<config, queues, broken, warned, unknown>>

Deliver(sev, rung) ==
  /\ phase = "running" /\ queues # {}
  /\ sev \in DOMAIN ladders /\ rung \in DOMAIN ladders[sev].stages
  /\ unknown' = unknown \cup {ch \in ladders[sev].stages[rung].channels : Lower(ch) \notin queues}
  /\ UNCHANGED <<config, phase, queues, broken, ladders, warned>>

(* The service manager starts the program again, on the same file. *)
Restart ==
  /\ phase \in {"refused", "stopped", "running"}
  /\ phase' = "file" /\ queues' = {} /\ broken' = {} /\ ladders' = <<>> /\ warned' = {}
  /\ UNCHANGED <<config, unknown>>

Next ==
  \/ Read \/ BuildDelivery \/ BuildLadders \/ Restart
  \/ \E sev \in Severities, rung \in 1 .. 2 : Deliver(sev, rung)

Spec == Init /\ [][Next]_vars

---------------------------------------------------------------------------
TypeOK ==
  /\ phase \in {"file", "accepted", "built", "running", "refused", "stopped"}
  /\ queues \subseteq EnabledChannelNames(config) /\ broken \subseteq EnabledChannelNames(config)
  /\ DOMAIN ladders \subseteq Severities \cup {config.policy.severity}

Spelled == \A n \in HookNames(config) : Lower(n) = n

(***************************************************************************)
(* An accepted configuration tells somebody: with a channel running, each  *)
(* severity has a ladder unless a channel could not be started, every rung *)
(* finds its channels, the operator's own ladder is used or nothing is,    *)
(* and each rung left out was said.  (Holds for webhook names in lower     *)
(* case.)                                                                  *)
(***************************************************************************)
AcceptedReaches ==
  phase = "running" /\ queues # {} /\ Spelled =>
    /\ unknown = {}
    /\ broken = {} => DOMAIN ladders = Severities
    /\ LET p == config.policy
       IN  p # NoPolicy =>
             /\ p.severity \in DOMAIN ladders => Rungs(ladders[p.severity]) \subseteq Rungs(p)
             /\ \A ch \in Rungs(p) :
                  \/ p.severity \in DOMAIN ladders /\ ch \in Rungs(ladders[p.severity])
                  \/ <<"not enabled", ch>> \in warned
                  \/ <<"could not be started", Lower(ch)>> \in warned

(***************************************************************************)
(* "nothing puts it there for them" (policy.go, DefaultPolicies) and "so   *)
(* nothing will ever place a call" (validate.go): a telephone is called    *)
(* only by a ladder the operator wrote.                                    *)
(***************************************************************************)
VoiceIsOptIn ==
  phase = "running" => \A sev \in DOMAIN ladders :
    "voice" \in Rungs(ladders[sev]) => config.policy # NoPolicy /\ config.policy.severity = sev

(***************************************************************************)
(* "Should be unreachable: config validation refuses a policy naming a     *)
(* channel that is not enabled" (build.go, Deliver).                       *)
(***************************************************************************)
RungsReachAChannel == unknown = {}

(***************************************************************************)
(* "One malformed field cannot stop the daemon" (main.go): a configuration *)
(* that was accepted starts.                                               *)
(***************************************************************************)
AcceptedStarts == phase # "stopped"
=============================================================================
