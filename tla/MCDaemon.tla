------------------------------ MODULE MCDaemon ------------------------------
(* Daemon on small sets. *)
EXTENDS Daemon

\* What a change applies, in the order of applyLive: three of its six parts, which
\* it treats alike.
LiveParts == <<"channels", "rules", "sources">>

\* The states the channels' settings are tried in, the outbound webhooks, and
\* the operator's own ladders.
Channels ==
  [ntfy |-> {"absent", "off", "fine", "no topic", "path topic"},
   email |-> {"absent", "fine", "bad tls", "blank recipients"},
   pushover |-> {"off", "fine"}, voice |-> {"absent", "fine"}]
Hooks ==
  {<< >>} \cup {<<[name |-> n, state |-> s]>> :
                  n \in {"", "hook", "Hook", "Ntfy"}, s \in {"off", "fine", "own header"}}
          \cup {<<[name |-> n, state |-> "fine"], [name |-> "hook", state |-> "fine"]>> :
                  n \in {"", "Hook"}}
Stage(after, channels) == [after |-> after, channels |-> channels]
Ladders ==
  {[severity |-> "none"]}
    \cup [severity : {"critical", "High"}, quiet : {FALSE}, giveUp : {0},
          stages : {<< >>, <<Stage(0, {"ntfy"})>>, <<Stage(0, {"Hook"}), Stage(5, {"voice", "ntfy"})>>,
                    <<Stage(-1, {"ntfy"})>>}]
    \cup [severity : {"critical"}, quiet : BOOLEAN, giveUp : {0, 60},
          stages : {<<Stage(0, {"ntfy"})>>}]

\* Addresses: a LAN, a loopback and a public one, a port of its own for the
\* acknowledgement page, none and one to be picked (-1), and the URLs an
\* operator may type.
Address(host, port) == [host |-> host, port |-> port]
Addresses == {Address("all", 8322), Address("loopback", 8322), Address("lan", 80)}
AckPages == {Address("", 0), Address("all", -1), Address("loopback", 50001)}
Origins ==
  {[scheme |-> "", host |-> "", port |-> 0]}
    \cup [scheme : {"http", "https"}, host : {"lan", "public", "loopback"}, port : {0, 8322, 50001}]
    \cup {[scheme |-> "other", host |-> "lan", port |-> 0]}

\* Events at their own time or late, and a clock that is left alone or set back.
Punctual == {0}
Late == {0, -2}
Never == {}
Back == {-3}

\* A quiet and two busy intervals: events and devices.
Stretches == {<<30, 1>>, <<20, 6>>, <<70, 6>>}
=============================================================================
