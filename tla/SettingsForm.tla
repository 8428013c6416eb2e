---------------------------- MODULE SettingsForm ----------------------------
(* The settings page and the sources built from what it saves              *)
(* (web/settings.go, config/sources.go, config/io.go).  The page is never  *)
(* sent a credential, so it cannot send one back: a save carries over what *)
(* it was not given, matching the rows of the page to the stored ones by   *)
(* name and, for consoles, by position when no name matches.  Pages stay   *)
(* open while others save.  A credential is the number of the typing that  *)
(* entered it; `home' remembers which console row it was typed into, and   *)
(* `moved' the rows that a save could not match to what they were.         *)
EXTENDS Naturals, Sequences, FiniteSets, SequencesExt

CONSTANTS
    Tabs,           \* open pages of the interface
    Names,          \* names of consoles
    HookNames,      \* names of webhooks and of inbound hooks
    Apps,           \* the applications a console watches
    Channels,       \* channels with credentials of their own
    MaxTyped,       \* bound: credentials typed or minted
    MaxRows,        \* bound: console rows ever made
    MaxSaves,       \* bound: accepted saves
    Absent          \* a section the request does not mention

VARIABLES config, running, forms, typed, home, moved, rows, saves

vars == <<config, running, forms, typed, home, moved, rows, saves>>

None == 0                   \* no credential
Slots == {"first", "second"}   \* token and user, account SID and auth token

NamesOf(list) == {list[i].name : i \in DOMAIN list}
Named(list, n) == list[CHOOSE i \in DOMAIN list :
                         /\ list[i].name = n
                         /\ \A j \in DOMAIN list : list[j].name = n => j <= i]
Twice(list) == \E i, j \in DOMAIN list : i # j /\ list[i].name = list[j].name

---------------------------------------------------------------------------
(* The consoles' keys and the sources built with them.                     *)

KeyFor(con, app) == IF con.own[app] # None THEN con.own[app] ELSE con.key

Connections(c) ==
    {[host |-> c.consoles[i].host, app |-> a, key |-> KeyFor(c.consoles[i], a)] :
        i \in DOMAIN c.consoles, a \in Apps}

\* What a running source is recognised by.
SourceKey(con, app) == <<con.host, app, KeyFor(con, app)>>
BuildSources(c) ==
    {[id |-> SourceKey(c.consoles[i], a), host |-> c.consoles[i].host,
      app |-> a, key |-> KeyFor(c.consoles[i], a)] :
        i \in DOMAIN c.consoles, a \in Apps}

ReuseSources(live, built) ==
    {s \in live : \E b \in built : b.id = s.id}
        \cup {b \in built : \A s \in live : s.id # b.id}

---------------------------------------------------------------------------
(* Building the next configuration from the current one and an update.     *)

Kept(sent, old) == IF sent = None THEN old ELSE sent

Blank == [name |-> "", host |-> 0, key |-> None, own |-> [a \in Apps |-> None],
          row |-> 0]

\* Mutant: the position is tried first.
PreviousAtPosition(cur, in, i) ==
    IF i \in DOMAIN cur.consoles THEN cur.consoles[i]
    ELSE IF in.name \in NamesOf(cur.consoles) THEN Named(cur.consoles, in.name) ELSE Blank

Previous(cur, in, i) ==
    IF in.name \in NamesOf(cur.consoles) THEN Named(cur.consoles, in.name)
    ELSE IF i \in DOMAIN cur.consoles THEN cur.consoles[i] ELSE Blank

ConsoleFrom(cur, in, i) ==
    LET prev == Previous(cur, in, i)
    IN [name |-> in.name, host |-> in.host, row |-> in.row,
        key |-> Kept(in.key, prev.key),
        own |-> [a \in Apps |-> IF in.own[a] # None THEN in.own[a]
                                ELSE IF a \in in.clear THEN None
                                ELSE prev.own[a]]]

ConsolesOf(cur, upd) ==
    IF upd.consoles = Absent THEN cur.consoles
    ELSE [i \in DOMAIN upd.consoles |-> ConsoleFrom(cur, upd.consoles[i], i)]

\* A channel is replaced only when the update mentions it; one that is not
\* configured is Absent.
ChannelsWholesale(cur, upd) ==
    [c \in Channels |->
        IF upd.channels[c] = Absent
        THEN IF \E d \in Channels : upd.channels[d] # Absent THEN Absent
             ELSE cur.channels[c]
        ELSE [s \in Slots |->
                Kept(upd.channels[c][s],
                     IF cur.channels[c] = Absent THEN None
                     ELSE cur.channels[c][s])]]

ChannelsOf(cur, upd) ==
    [c \in Channels |->
        IF upd.channels[c] = Absent THEN cur.channels[c]
        ELSE [s \in Slots |->
                Kept(upd.channels[c][s],
                     IF cur.channels[c] = Absent THEN None
                     ELSE cur.channels[c][s])]]
\* Signing secrets and hook credentials follow the name.
Endpoint(list, in) ==
    [name |-> in.name,
     cred |-> IF in.name \in NamesOf(list) THEN Kept(in.cred, Named(list, in.name).cred)
              ELSE in.cred]
WebhooksOf(cur, upd) ==
    IF upd.webhooks = Absent THEN cur.webhooks
    ELSE [i \in DOMAIN upd.webhooks |-> Endpoint(cur.webhooks, upd.webhooks[i])]
HooksOf(cur, upd) ==
    IF upd.hooks = Absent THEN cur.hooks
    ELSE [i \in DOMAIN upd.hooks |->
            IF upd.hooks[i].regenerate
            THEN [name |-> upd.hooks[i].name, cred |-> None]
            ELSE Endpoint(cur.hooks, [name |-> upd.hooks[i].name, cred |-> None])]

\* The signing key of the acknowledgement links and the password are never
\* editable here; an address left blank stays.
WebOf(cur, upd) ==
    [cur.web EXCEPT !.listen = IF upd.listen = Absent THEN @ ELSE upd.listen,
                    !.ackListen = IF upd.ackListen = Absent THEN @
                                  ELSE upd.ackListen]

ApplyUpdate(cur, upd) ==
    [consoles |-> ConsolesOf(cur, upd), channels |-> ChannelsOf(cur, upd),
     webhooks |-> WebhooksOf(cur, upd), hooks |-> HooksOf(cur, upd),
     policies |-> IF upd.policies = Absent THEN cur.policies ELSE upd.policies,
     web |-> WebOf(cur, upd)]

Nothing == [consoles |-> Absent, channels |-> [c \in Channels |-> Absent],
            webhooks |-> Absent, hooks |-> Absent, policies |-> Absent,
            listen |-> Absent, ackListen |-> Absent]

---------------------------------------------------------------------------
(* Validation, and what the write mints.                                   *)

Keyless(con) == /\ con.key = None
                /\ \E a \in Apps : con.own[a] = None

Problems(c) ==
    {<<"keyless", c.consoles[i].name>> : i \in {j \in DOMAIN c.consoles :
                                                  Keyless(c.consoles[j])}}
        \cup (IF Twice(c.consoles) THEN {<<"consoles", "twice">>} ELSE {})
        \cup (IF Twice(c.webhooks) THEN {<<"webhooks", "twice">>} ELSE {})
        \cup (IF Twice(c.hooks) THEN {<<"hooks", "twice">>} ELSE {})

RefusedBy(cur, next) == Problems(next) \ Problems(cur)

ToMint(c) == {i \in DOMAIN c.hooks : c.hooks[i].cred = None}
\* Each hook without a credential gets one nobody has seen.
Mint(c, from) ==
    [c EXCEPT !.hooks = [i \in DOMAIN @ |->
        IF @[i].cred # None THEN @[i]
        ELSE [@[i] EXCEPT !.cred = from + Cardinality({j \in ToMint(c) : j <= i})]]]

\* handleSaveSettings and SaveConfig: `fresh' credentials were typed, the
\* rows they were typed into are `where'.
Save(upd, where) ==
    LET next == ApplyUpdate(config, upd)
        after == typed + Len(where)
        minted == Cardinality(ToMint(next))
    IN /\ saves < MaxSaves
       /\ after + minted <= MaxTyped
       /\ RefusedBy(config, next) = {}
       /\ Problems(next) = {}
       /\ config' = Mint(next, after)
       /\ running' = ReuseSources(running, BuildSources(next))
       /\ typed' = after + minted
       /\ home' = home \o where \o [i \in 1..minted |-> 0]
       /\ saves' = saves + 1

---------------------------------------------------------------------------
(* What the page sends.  A form holds the names it was opened with and the *)
(* row each came from; the operator removes, renames and adds.             *)

View == [consoles |-> [i \in DOMAIN config.consoles |->
                         [name |-> config.consoles[i].name,
                          host |-> config.consoles[i].host,
                          row |-> config.consoles[i].row]],
         webhooks |-> [i \in DOMAIN config.webhooks |-> config.webhooks[i].name],
         hooks |-> [i \in DOMAIN config.hooks |-> config.hooks[i].name]]

HandleGet(t) ==
    /\ forms' = [forms EXCEPT ![t] = View]
    /\ UNCHANGED <<config, running, typed, home, moved, rows, saves>>

\* What is left of a list when some of its rows are removed.
Thinned(list) ==
    UNION {{[k \in 1..n |-> list[at[k]]] :
              at \in {f \in [1..n -> DOMAIN list] :
                        \A i, j \in 1..n : i < j => f[i] < f[j]}} :
           n \in 0..Len(list)}

\* At most one row renamed, at most one given another address.
Renamed(lists) ==
    lists \cup {[l EXCEPT ![1].name = n] : l \in lists \ {<<>>}, n \in Names}
Readdressed(lists) ==
    lists \cup {[l EXCEPT ![Len(l)].host = 1 - @] : l \in lists \ {<<>>}}

\* The consoles as edited, and the row added at their end, if any.
Edited(view) == Readdressed(Renamed(Thinned(view)))
Added(view) ==
    {<<>>} \cup {<<[name |-> n, host |-> 0, row |-> rows + 1]>> :
                    n \in {m \in Names \ NamesOf(view) : rows < MaxRows}}

Sent(r, key, own, clear) ==
    [name |-> r.name, host |-> r.host, row |-> r.row, key |-> key, own |-> own,
     clear |-> clear]
NoOwn == [a \in Apps |-> None]

\* The i-th row sent is recognised: it kept its name, or it kept its position and
\* no row has its new name, or it is new where nothing was.
Settled(list, i) ==
    LET fresh == list[i].name \notin NamesOf(config.consoles)
    IN \/ \E j \in DOMAIN config.consoles :
            /\ config.consoles[j].row = list[i].row
            /\ config.consoles[j].name = list[i].name \/ (j = i /\ fresh)
       \/ fresh /\ i \notin DOMAIN config.consoles

Moved(list) == {list[i].row : i \in {j \in DOMAIN list : ~Settled(list, j)}}

SaveConsoles(t) ==
    \E left \in Edited(forms[t].consoles), more \in Added(forms[t].consoles) :
    \E at \in 0..(Len(left) + Len(more)), app \in Apps, what \in {"key", "own", "clear"} :
        LET list == left \o more
            new == typed + 1
            row(i) ==
                IF i # at THEN Sent(list[i], None, NoOwn, {})
                ELSE CASE what = "key" -> Sent(list[i], new, NoOwn, {})
                       [] what = "own" -> Sent(list[i], None,
                                               [NoOwn EXCEPT ![app] = new], {})
                       [] OTHER -> Sent(list[i], None, NoOwn, {app})
            where == IF at = 0 \/ what = "clear" THEN <<>> ELSE <<list[at].row>>
        IN /\ Save([Nothing EXCEPT !.consoles = [i \in DOMAIN list |-> row(i)]], where)
           /\ rows' = rows + Len(more)
           /\ moved' = moved \cup Moved(list)
           /\ UNCHANGED forms

SaveChannel(t) ==
    \E c \in Channels, s \in Slots, retyped \in BOOLEAN :
        /\ Save([Nothing EXCEPT !.channels[c] =
                    [x \in Slots |-> IF retyped /\ x = s THEN typed + 1 ELSE None]],
                IF retyped THEN <<0>> ELSE <<>>)
        /\ UNCHANGED <<forms, moved, rows>>

\* The webhooks page posts the two lists it owns.
NamesSent(view) ==
    {view} \cup {RemoveAt(view, i) : i \in DOMAIN view}
           \cup {Append(view, n) : n \in HookNames}
SaveHooks(t) ==
    \E w \in NamesSent(forms[t].webhooks), h \in NamesSent(forms[t].hooks),
       again \in HookNames \cup {""}, signed \in BOOLEAN :
        /\ Save([Nothing EXCEPT
                    !.webhooks = [i \in DOMAIN w |-> [name |-> w[i],
                        cred |-> IF signed /\ i = 1 THEN typed + 1 ELSE None]],
                    !.hooks = [i \in DOMAIN h |-> [name |-> h[i],
                                                   regenerate |-> h[i] = again]]],
                IF signed /\ w # <<>> THEN <<0>> ELSE <<>>)
        /\ UNCHANGED <<forms, moved, rows>>

SaveRest(t) ==
    \E p \in {Absent, 0, 1}, l \in {Absent, 1}, a \in {Absent, 0, 1} :
        /\ Save([Nothing EXCEPT !.policies = p, !.listen = l, !.ackListen = a], <<>>)
        /\ UNCHANGED <<forms, moved, rows>>

Init ==
    /\ config = [consoles |-> <<[name |-> CHOOSE n \in Names : TRUE, host |-> 0,
                                 key |-> 1, own |-> NoOwn, row |-> 1]>>,
                 channels |-> [c \in Channels |-> Absent],
                 webhooks |-> <<>>, hooks |-> <<>>, policies |-> 0,
                 web |-> [listen |-> 0, ackListen |-> 0,
                          ackKey |-> 1, password |-> 1]]
    /\ running = BuildSources(config)
    /\ forms = [t \in Tabs |-> Absent]
    /\ typed = 1
    /\ home = <<1>> /\ moved = {}
    /\ rows = 1
    /\ saves = 0

Submit(t) == /\ forms[t] # Absent
             /\ (SaveConsoles(t) \/ SaveChannel(t) \/ SaveHooks(t) \/ SaveRest(t))

Next == \E t \in Tabs : HandleGet(t) \/ Submit(t)

Spec == Init /\ [][Next]_vars

---------------------------------------------------------------------------
(* Properties.                                                             *)

TypeOK ==
    /\ typed \in 0..MaxTyped /\ rows \in 1..MaxRows /\ saves \in 0..MaxSaves
    /\ Len(home) = typed
    /\ Problems(config) = {}
    /\ \A i \in DOMAIN config.consoles : config.consoles[i].key \in 0..typed

Credentials(c) ==
    {<<"console", c.consoles[i].name, "all", c.consoles[i].key>> : i \in DOMAIN c.consoles}
        \cup {<<"console", c.consoles[i].name, a, c.consoles[i].own[a]>> :
                i \in DOMAIN c.consoles, a \in Apps}
        \cup {<<"channel", d, s, c.channels[d][s]>> :
                d \in {x \in Channels : c.channels[x] # Absent}, s \in Slots}
        \cup {<<"webhook", c.webhooks[i].name, "", c.webhooks[i].cred>> :
                i \in DOMAIN c.webhooks}
        \cup {<<"hook", c.hooks[i].name, "", c.hooks[i].cred>> : i \in DOMAIN c.hooks}
        \cup {<<"web", "", "key", c.web.ackKey>>, <<"web", "", "hash", c.web.password>>}

\* settings.go: no save, from a page however old, forgets a credential of
\* something whose name is still in the configuration: it is kept, replaced by
\* a newer one, or was a console's own key for one application, which may be
\* cleared.  A channel, the signing key and the password are never removed.
NothingForgotten ==
    [][\A k \in Credentials(config) :
        \/ k[4] = None
        \/ k \in Credentials(config')
        \/ \E l \in Credentials(config') :
             l[1] = k[1] /\ l[2] = k[2] /\ l[3] = k[3] /\ l[4] > k[4]
        \/ k[1] = "console" /\ k[3] # "all"
        \/ k[1] = "console" /\ k[2] \notin NamesOf(config'.consoles)
        \/ k[1] = "webhook" /\ k[2] \notin NamesOf(config'.webhooks)
        \/ k[1] = "hook" /\ k[2] \notin NamesOf(config'.hooks)]_vars

StoredKeys(con) == {con.key} \cup {con.own[a] : a \in Apps}

\* applyUpdate, sources.go and reuseSources: whatever was saved in whatever order,
\* from pages of whatever age, the sources that run connect to the hosts, with the
\* keys, of the configuration saved last, and a key was typed into the row that is
\* read with it, unless in some save that row could not be recognised: it was
\* renamed and moved at once, or took the place of another.
SourcesUseTheirKeys ==
    /\ {[host |-> s.host, app |-> s.app, key |-> s.key] : s \in running} = Connections(config)
    /\ \A i \in DOMAIN config.consoles :
          config.consoles[i].row \notin moved =>
            \A k \in StoredKeys(config.consoles[i]) : k # None => home[k] = config.consoles[i].row

\* settings.go:578-581 "renaming AND reordering in one save does not [keep its
\* key], and the UI says the key must be re-entered": the same of every row, which
\* the code does not keep, for it falls back to the position.
KeysStayHome ==
    \A i \in DOMAIN config.consoles :
        \A k \in StoredKeys(config.consoles[i]) : k # None => home[k] = config.consoles[i].row
=============================================================================
