------------------------------ MODULE ConfigApply ----------------------------
(***************************************************************************)
(* The daemon's configuration: the file, the copy in memory each change    *)
(* starts from, and the parts of the running daemon it is put into one     *)
(* after the other.  Requests change it (a save of the settings, a         *)
(* silence, a pairing, ...), and so does a person with an                  *)
(* editor, whose change the watcher finds by polling.                      *)
(*                                                                         *)
(* Copies of a configuration share the operator's overrides for the paired *)
(* product: `over` is a map in memory, one of `maps`, or Nil.  In the file *)
(* it is what the map says of the condition that a product's old releases  *)
(* do not describe in full (config.firstPartyDefaults).                    *)
(***************************************************************************)
EXTENDS Integers, Sequences

CONSTANTS
  Parts,       \* what applyLive changes, in its order
  Requests,    \* bound: requests under way at once
  Serial,      \* whether a change begins only when the last is over
  MaxChanges,  \* bound: changes made by requests and by hand
  MaxFailures, \* bound: saves and parts that fail
  MaxCrashes   \* bound: restarts

VARIABLES
  up,
  file,       \* [content, stamp, torn]
  current,    \* current
  live,       \* part -> the configuration it was last built from
  maps,       \* the maps of overrides made since the start: what each says
  applied, pending, waited, \* the watcher: stamps, and whether pending was there at the last check
  watcher,    \* [at, next, step]
  request,    \* request -> [at, op, next, step]
  changes, failures, crashes,
  saved,      \* ghost: every configuration the file has held
  broken,     \* ghost: a part refused a configuration since the daemon started
  revoked,    \* ghost: the credentials that a pairing replaced or an unpairing took
  touched     \* ghost: the maps that a pairing wrote into while they were in use

counts == <<changes, failures, crashes>>
watch == <<applied, pending, waited>>
heap == <<maps, touched>>
vars == <<up, file, current, live, watch, watcher, request, counts, saved, broken, revoked, heap>>

None == 0
Prefix == -1   \* the settings of a file of which half is written
Free == [at |-> "free"]
First == [settings |-> 0, rules |-> 0, password |-> 0, peer |-> 0, conditions |-> 0,
          over |-> "none", valid |-> TRUE]
RunningOn(c) == [i \in DOMAIN Parts |-> c]

\* A product was paired before, and the operator made overrides for it.
Earlier == [First EXCEPT !.peer = MaxChanges + 1, !.over = "undecided"]

\* Reading a file makes a map of the overrides it holds, besides those there are.
Nil == 0
WithMap(ms, content) == IF content.over = "none" THEN ms ELSE Append(ms, content.over)
InMemory(ms, content) == [content EXCEPT !.over = IF @ = "none" THEN Nil ELSE Len(ms) + 1]

\* And writing one puts into it what the map then says.
OnDisk(c) == [c EXCEPT !.over = IF @ = Nil THEN "none" ELSE maps[@]]

Init ==
  \E content \in {First, Earlier} :
  /\ up = TRUE /\ file = [content |-> content, stamp |-> 1, torn |-> FALSE]
  /\ current = InMemory(<<>>, content) /\ live = RunningOn(current)
  /\ maps = WithMap(<<>>, content) /\ touched = {}
  /\ applied = 1 /\ pending = None /\ waited = FALSE /\ watcher = Free
  /\ request = [r \in Requests |-> Free]
  /\ changes = 0 /\ failures = 0 /\ crashes = 0 /\ saved = {content} /\ broken = FALSE
  /\ revoked = {}

Quiet == watcher = Free /\ \A r \in Requests : request[r] = Free
Settled == Quiet /\ ~file.torn /\ file.stamp = applied
MayChange == up /\ changes < MaxChanges /\ (Serial => Settled)

Fails == failures < MaxFailures /\ failures' = failures + 1

-----------------------------------------------------------------------------
\* Requests.  Save writes a new file and renames it over the old one.

\* What each request makes of the configuration it read.
SettingsSaved(c) == [c EXCEPT !.settings = changes + 1]
Silenced(c) == [c EXCEPT !.rules = changes + 1]
Repointed(c) == [c EXCEPT !.rules = changes + 1]
PasswordSet(c) == [c EXCEPT !.password = changes + 1]
Paired(c) == [c EXCEPT !.peer = changes + 1, !.conditions = 0]   \* the overrides survive
PairedOld(c) == [Paired(c) EXCEPT !.over = IF @ = Nil THEN Len(maps) + 1 ELSE @]
Approved(c) == [c EXCEPT !.conditions = changes + 1]
Unpaired(c) == [c EXCEPT !.peer = 0, !.conditions = 0, !.over = Nil]

Live == {"settings", "silence", "repoint"}     \* put into force by the request itself
Pairings == {"pair", "pair_old"}               \* of a release that describes itself, or not
Ops == Live \cup Pairings \cup {"password", "approve", "unpair"}

\* A rule is repointed that is there, a peer amended or forgotten that is paired.
Possible(c, op) == (op = "repoint" => c.rules # 0) /\ (op \in {"approve", "unpair"} => c.peer # 0)

Edited(c, op) ==
  CASE op = "settings" -> SettingsSaved(c) [] op = "silence" -> Silenced(c)
    [] op = "repoint"  -> Repointed(c)     [] op = "password" -> PasswordSet(c)
    [] op = "pair"     -> Paired(c)        [] op = "pair_old" -> PairedOld(c)
    [] op = "approve"  -> Approved(c)      [] op = "unpair" -> Unpaired(c)

\* ApplyPeerDefaults: what the operator left open is decided in the map there is,
\* which the running configuration has too, or in a new one.
PeerDefaults(over) ==
  /\ maps' = IF over = Nil THEN Append(maps, "decided") ELSE [maps EXCEPT ![over] = "decided"]
  /\ touched' = touched \cup {m \in {over} \ {Nil} : maps[m] = "undecided"}

\* Mutant: the change is made in what the daemon is using.
ReadShared(r, op) ==
  /\ MayChange /\ request[r] = Free /\ changes' = changes + 1
  /\ Possible(current, op)
  /\ current' = Edited(current, op)
  /\ IF op = "pair_old" THEN PeerDefaults(current.over) ELSE UNCHANGED heap
  /\ request' = [request EXCEPT ![r] = [at |-> "save", op |-> op, next |-> current']]
  /\ UNCHANGED <<up, file, live, watch, watcher, failures, crashes, saved, broken, revoked>>

\* A request reads what the daemon is using, and works on a copy, but for the map.
Read(r, op) ==
  /\ MayChange /\ request[r] = Free /\ changes' = changes + 1
  /\ Possible(current, op)
  /\ request' = [request EXCEPT ![r] = [at |-> "save", op |-> op, next |-> Edited(current, op)]]
  /\ IF op = "pair_old" THEN PeerDefaults(current.over) ELSE UNCHANGED heap
  /\ UNCHANGED <<up, file, current, live, watch, watcher, failures, crashes, saved, broken, revoked>>

Write(content) == file' = [content |-> content, stamp |-> file.stamp + 1, torn |-> FALSE]

Save(r) ==
  /\ up /\ request[r].at = "save" /\ Write(OnDisk(request[r].next))
  /\ saved' = saved \cup {file'.content}
  /\ request' = [request EXCEPT ![r].at = IF request[r].op \in Live THEN "written" ELSE "publish"]
  /\ UNCHANGED <<up, current, live, watch, watcher, counts, broken, revoked, heap>>

SaveFails(r) ==
  /\ up /\ request[r].at = "save" /\ Fails
  /\ request' = [request EXCEPT ![r] = Free]
  /\ UNCHANGED <<up, file, current, live, watch, watcher, changes, crashes, saved, broken, revoked, heap>>

\* Only a save of the settings tells the watcher the file is the daemon's own.
Written(r) ==
  /\ up /\ request[r].at = "written"
  /\ applied' = file.stamp /\ pending' = None /\ waited' = FALSE
  /\ request' = [request EXCEPT ![r].at = "publish"]
  /\ UNCHANGED <<up, file, current, live, watcher, counts, saved, broken, revoked, heap>>

\* And only that one is put into force by the request itself.
Publish(r) ==
  /\ up /\ request[r].at = "publish" /\ current' = request[r].next
  /\ request' = [request EXCEPT ![r] =
       IF @.op \in Live THEN [at |-> "apply", next |-> @.next, step |-> 1] ELSE Free]
  /\ revoked' = IF request[r].op \in Pairings \cup {"unpair"}
                  THEN (revoked \cup {current.peer}) \ {0, current'.peer} ELSE revoked
  /\ UNCHANGED <<up, file, live, watch, watcher, counts, saved, broken, heap>>

-----------------------------------------------------------------------------
\* applyLive: one part after the other, stopping at the first that refuses.

Applied(job) == live' = [live EXCEPT ![job.step] = job.next]
After(job) == IF job.step = Len(Parts) THEN Free ELSE [job EXCEPT !.step = @ + 1]

ApplyPart(r) ==
  /\ up /\ request[r].at = "apply" /\ Applied(request[r])
  /\ request' = [request EXCEPT ![r] = After(@)]
  /\ UNCHANGED <<up, file, current, watch, watcher, counts, saved, broken, revoked, heap>>

ApplyFails(r) ==
  /\ up /\ request[r].at = "apply" /\ Fails /\ broken' = TRUE
  /\ request' = [request EXCEPT ![r] = Free]
  /\ UNCHANGED <<up, file, current, live, watch, watcher, changes, crashes, saved, revoked, heap>>

-----------------------------------------------------------------------------
\* The editor and the watcher.

\* An editor truncates and then writes; what is there between reads as a file.
\* None begins in the moment between the watcher's look and its reading.
EditBegins ==
  /\ MayChange /\ ~file.torn /\ watcher.at # "load" /\ changes' = changes + 1
  /\ file' = [content |-> [First EXCEPT !.settings = Prefix], stamp |-> file.stamp + 1, torn |-> TRUE]
  /\ UNCHANGED <<up, current, live, watch, watcher, request, failures, crashes, saved, broken, revoked, heap>>

\* What is written is an edit of what the editor opened, or nothing that loads.
EditEnds ==
  /\ file.torn
  /\ \E valid \in BOOLEAN, opened \in {c \in saved : c.valid} :
       LET content == [opened EXCEPT !.settings = changes, !.valid = valid]
       IN  Write(content) /\ saved' = saved \cup {content}
  /\ UNCHANGED <<up, current, live, watch, watcher, request, counts, broken, revoked, heap>>

\* Mutant: read as soon as it is seen to differ.
Ready == file.stamp # applied

\* Still since the check before.
Still == pending = file.stamp /\ waited

Notice ==
  /\ up /\ watcher = Free /\ ~Still
  /\ pending' = (IF file.stamp = applied THEN None ELSE file.stamp)
  /\ waited' = (file.stamp # applied)
  /\ UNCHANGED <<up, file, current, live, applied, watcher, request, counts, saved, broken, revoked, heap>>

\* This version is dealt with, whatever load says.  No editor is at work for as
\* long as it takes to find the file the same twice.
Look ==
  /\ up /\ watcher = Free /\ Still /\ file.stamp # applied /\ (file.torn => ~waited)
  /\ applied' = file.stamp /\ pending' = None /\ waited' = FALSE
  /\ watcher' = [at |-> "load"]
  /\ UNCHANGED <<up, file, current, live, request, counts, saved, broken, revoked, heap>>

Load ==
  /\ up /\ watcher.at = "load"
  /\ IF file.content.valid
       THEN /\ watcher' = [at |-> "current", next |-> InMemory(maps, file.content)]
            /\ maps' = WithMap(maps, file.content)
       ELSE watcher' = Free /\ maps' = maps
  /\ UNCHANGED <<up, file, current, live, watch, request, counts, saved, broken, revoked, touched>>

\* Mutant: the next save starts from what was there before the edit.
FromFileUnnoted ==
  /\ up /\ watcher.at = "current"
  /\ watcher' = [at |-> "apply", next |-> watcher.next, step |-> 1]
  /\ UNCHANGED <<up, file, current, live, watch, request, counts, saved, broken, revoked, heap>>

\* applyFromFile.
FromFile ==
  /\ up /\ watcher.at = "current" /\ current' = watcher.next
  /\ watcher' = [at |-> "apply", next |-> watcher.next, step |-> 1]
  /\ UNCHANGED <<up, file, live, watch, request, counts, saved, broken, revoked, heap>>

FilePart ==
  /\ up /\ watcher.at = "apply" /\ Applied(watcher) /\ watcher' = After(watcher)
  /\ UNCHANGED <<up, file, current, watch, request, counts, saved, broken, revoked, heap>>

FilePartFails ==
  /\ up /\ watcher.at = "apply" /\ Fails /\ broken' = TRUE /\ watcher' = Free
  /\ UNCHANGED <<up, file, current, live, watch, request, changes, crashes, saved, revoked, heap>>

-----------------------------------------------------------------------------
\* A crash, or a restart, at any moment: a request is simply gone.
Crash ==
  /\ up /\ crashes < MaxCrashes /\ crashes' = crashes + 1 /\ up' = FALSE
  /\ watcher' = Free /\ request' = [r \in Requests |-> Free]
  /\ UNCHANGED <<file, current, live, watch, changes, failures, saved, broken, revoked, heap>>

\* A start finds nothing left open of what the file's manifest declares: the pairing
\* that declared it decided it.
Start ==
  /\ ~up /\ up' = TRUE /\ ~file.torn /\ file.content.valid
  /\ current' = InMemory(<<>>, file.content) /\ live' = RunningOn(current')
  /\ maps' = WithMap(<<>>, file.content) /\ touched' = {}
  /\ applied' = file.stamp /\ pending' = None /\ waited' = FALSE /\ broken' = FALSE
  /\ UNCHANGED <<file, watcher, request, counts, saved, revoked>>

Handle(r) == Save(r) \/ Written(r) \/ Publish(r) \/ ApplyPart(r)
Watch == Notice \/ Look \/ Load \/ FromFile \/ FilePart

Next ==
  \/ \E r \in Requests : \/ \E op \in Ops : Read(r, op)
                         \/ Handle(r) \/ SaveFails(r) \/ ApplyFails(r)
  \/ EditBegins \/ EditEnds \/ Watch \/ FilePartFails \/ Crash \/ Start

Spec == Init /\ [][Next]_vars

-----------------------------------------------------------------------------
\* Properties.

TypeOK ==
  /\ applied \in 0 .. file.stamp /\ pending \in 0 .. file.stamp
  /\ current.settings \in Prefix .. MaxChanges /\ current.peer \in 0 .. MaxChanges + 1
  /\ maps \in Seq({"undecided", "decided"}) /\ current.over \in 0 .. Len(maps)
  /\ watcher.at \in {"free", "load", "current", "apply"}

\* The daemon runs nothing the file never held whole: not a change that could not
\* be saved, which the next start would lose, and not half of an edit.  The one
\* exception is the default that a pairing writes into the overrides in use.
RunsWhatWasSaved ==
  \A c \in {current} \cup {live[i] : i \in DOMAIN Parts} :
    \/ OnDisk(c) \in saved
    \/ c.over \in touched /\ [c EXCEPT !.over = "undecided"] \in saved

\* With one change at a time, however it was made, the next change starts from
\* what the file holds, and every part runs it unless one refused: as long as no
\* pairing wrote into the overrides in use, which a save that fails does not undo.
AgreesWhenSettled ==
  up /\ Serial /\ Settled /\ file.content.valid /\ touched = {} =>
    /\ OnDisk(current) = file.content
    /\ broken \/ \A i \in DOMAIN Parts : OnDisk(live[i]) = OnDisk(current)

\* "The first half of one configuration and the second half of another is the
\* state that must not be reachable".
NoMixture == up /\ Settled /\ ~broken => \A i, j \in DOMAIN Parts : OnDisk(live[i]) = OnDisk(live[j])

\* A credential that an unpairing took, or a pairing replaced, does not work again.
RevokedStays == current.peer \notin revoked
=============================================================================
