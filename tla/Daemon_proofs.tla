--------------------------- MODULE Daemon_proofs ---------------------------
(***************************************************************************)
(* Theorems about what the daemon does with its configuration, its         *)
(* messages and its records, one section per part. Each part has an        *)
(* invariant of its own, which its initial states satisfy and its steps    *)
(* keep; a theorem of Daemon follows since a behaviour is of one part.     *)
(***************************************************************************)
EXTENDS Daemon, FiniteSetTheorems, SequenceTheorems, WellFoundedInduction, TLAPS

\* A behaviour stays with its subject, and its steps are the subject's.
LEMMA StepsOfSubject ==
  [Next]_vars =>
    /\ subject' = subject
    /\ subject = "config" => [Config!Next]_(Config!vars)
    /\ subject = "routing" => [Routing!Next]_(Routing!vars)
    /\ subject = "text" => [Text!Next]_(Text!vars)
    /\ subject = "send" => [Sending!Next]_(Sending!vars)
    /\ subject = "reach" => [Reach!Next]_(Reach!vars)
    /\ subject = "audit" => [Audit!Next]_(Audit!vars)
    /\ subject = "activity" => [Activity!Next]_(Activity!vars)
    /\ subject = "baseline" => [Baseline!Next]_(Baseline!vars)
<1> SUFFICES ASSUME [Next]_vars
             PROVE  /\ subject' = subject
                    /\ subject = "config" => [Config!Next]_(Config!vars)
                    /\ subject = "routing" => [Routing!Next]_(Routing!vars)
                    /\ subject = "text" => [Text!Next]_(Text!vars)
                    /\ subject = "send" => [Sending!Next]_(Sending!vars)
                    /\ subject = "reach" => [Reach!Next]_(Reach!vars)
                    /\ subject = "audit" => [Audit!Next]_(Audit!vars)
                    /\ subject = "activity" => [Activity!Next]_(Activity!vars)
                    /\ subject = "baseline" => [Baseline!Next]_(Baseline!vars)
  OBVIOUS
<1>1. CASE Next
  BY <1>1 DEF Next, ConfigSteps, RoutingSteps, TextSteps, SendingSteps, ReachSteps,
     AuditSteps, ActivitySteps, BaselineSteps
<1>2. CASE UNCHANGED vars
  <2>1. UNCHANGED <<subject, configVars, routingVars, textVars, sendingVars, reachVars,
                    auditVars, activityVars, baselineVars>>
    BY <1>2 DEF vars
  <2>2. UNCHANGED Config!vars
    BY <2>1 DEF configVars, Config!vars, Config!watch, Config!counts, Config!heap
  <2>3. UNCHANGED Routing!vars
    BY <2>1 DEF routingVars, Routing!vars
  <2>4. UNCHANGED Text!vars
    BY <2>1 DEF textVars, Text!vars
  <2>5. UNCHANGED Sending!vars
    BY <2>1 DEF sendingVars, Sending!vars
  <2>6. UNCHANGED Reach!vars
    BY <2>1 DEF reachVars, Reach!vars
  <2>7. UNCHANGED Audit!vars
    BY <2>1 DEF auditVars, Audit!vars
  <2>8. UNCHANGED Activity!vars
    BY <2>1 DEF activityVars, Activity!vars, Activity!ghosts
  <2>9. UNCHANGED Baseline!vars
    BY <2>1 DEF baselineVars, Baseline!vars
  <2> QED
    BY <2>1, <2>2, <2>3, <2>4, <2>5, <2>6, <2>7, <2>8, <2>9
<1> QED
  BY <1>1, <1>2

-----------------------------------------------------------------------------
(* Applying a change (ConfigApply).                                        *)

\* A configuration whose overrides are one of O.
Configuration(O) ==
  [settings : Config!Prefix .. MaxChanges, rules : 0 .. MaxChanges, password : 0 .. MaxChanges,
   peer : 0 .. MaxChanges + 1, conditions : 0 .. MaxChanges, over : O, valid : BOOLEAN]

Said == {"undecided", "decided"}
OnFile == Configuration(Said \cup {"none"})    \* as the file holds it
InUse == Configuration(0 .. Len(maps))         \* as the process does

HeapOK == maps \in Seq(Said)

\* What the property asks of a configuration in force.
Backed(c) ==
  \/ Config!OnDisk(c) \in saved
  \/ c.over \in touched /\ [c EXCEPT !.over = "undecided"] \in saved

ForceOK(c) == c \in InUse /\ Backed(c)

\* A request under way: what it makes is saved before it is put into force.
RequestOK(q) ==
  \/ q = Config!Free
  \/ q = [at |-> "save", op |-> q.op, next |-> q.next] /\ q.next \in InUse
  \/ /\ q.at \in {"written", "publish"} /\ q = [at |-> q.at, op |-> q.op, next |-> q.next]
     /\ ForceOK(q.next)
  \/ q = [at |-> "apply", next |-> q.next, step |-> q.step] /\ ForceOK(q.next)

\* The watcher reads no file of which half is written, and applies what it read.
WatcherOK ==
  \/ watcher = Config!Free
  \/ watcher = [at |-> "load"] /\ ~file_config.torn
  \/ watcher = [at |-> "current", next |-> watcher.next] /\ ForceOK(watcher.next)
  \/ /\ watcher = [at |-> "apply", next |-> watcher.next, step |-> watcher.step]
     /\ ForceOK(watcher.next)

PartsOK == DOMAIN live = DOMAIN Parts /\ \A i \in DOMAIN Parts : ForceOK(live[i])
RequestsOK == DOMAIN request = Requests /\ \A r \in Requests : RequestOK(request[r])
FileOK == file_config.torn \in BOOLEAN /\ (~file_config.torn => file_config.content \in saved)
DownIsQuiet == ~up => Config!Quiet

\* A file that is whole, and what is or will be in force, was saved.
ConfigSafe ==
  /\ changes \in 0 .. MaxChanges /\ saved \subseteq OnFile
  /\ HeapOK /\ ForceOK(current_config) /\ PartsOK
  /\ RequestsOK /\ WatcherOK /\ FileOK /\ DownIsQuiet

\* Maps are added, and one that was left open may be decided by a pairing.
HeapGrows ==
  /\ HeapOK' /\ saved \subseteq saved' /\ touched \subseteq touched'
  /\ Len(maps) <= Len(maps')
  /\ \A m \in 1 .. Len(maps) :
       maps'[m] = maps[m] \/ (maps[m] = "undecided" /\ m \in touched')

\* Whatever is in force stays so, also where a map it uses is decided.
LEMMA StillInUse == ASSUME HeapOK, HeapGrows PROVE \A c : c \in InUse => c \in InUse'
<1>1. Len(maps) \in Nat /\ Len(maps') \in Nat /\ Len(maps) <= Len(maps')
  BY DEF HeapOK, HeapGrows
<1>2. 0 .. Len(maps) \subseteq 0 .. Len(maps')
  BY <1>1
<1> QED
  BY <1>2 DEF InUse, Configuration

LEMMA StillInForce == ASSUME HeapOK, HeapGrows PROVE \A c : ForceOK(c) => ForceOK(c)'
<1> SUFFICES ASSUME NEW c, ForceOK(c) PROVE Backed(c)'
  BY StillInUse DEF ForceOK
<1>1. c \in InUse /\ Backed(c)
  BY DEF ForceOK
<1>3. c.over \in 0 .. Len(maps) /\ Len(maps) \in Nat
  BY <1>1 DEF InUse, Configuration, HeapOK
<1>4. CASE c.over \in touched /\ [c EXCEPT !.over = "undecided"] \in saved
  <2> PICK left : left = [c EXCEPT !.over = "undecided"]
    OBVIOUS
  <2>1. c.over \in touched' /\ left \in saved'
    BY <1>4 DEF HeapGrows
  <2> QED
    BY <2>1 DEF Backed
<1>5. CASE Config!OnDisk(c) \in saved
  <2>1. CASE c.over = 0
    <3> PICK image : image = [c EXCEPT !.over = "none"]
      OBVIOUS
    <3>1. Config!OnDisk(c) = image /\ Config!OnDisk(c)' = image
      BY <2>1 DEF Config!OnDisk, Config!Nil
    <3>2. image \in saved'
      BY <1>5, <3>1 DEF HeapGrows
    <3> QED
      BY <3>1, <3>2 DEF Backed
  <2>2. CASE c.over # 0
    <3>1. c.over \in 1 .. Len(maps)
      BY <1>3, <2>2
    <3>2. Config!OnDisk(c) = [c EXCEPT !.over = maps[c.over]]
      BY <2>2 DEF Config!OnDisk, Config!Nil
    <3>3. CASE maps'[c.over] = maps[c.over]
      <4> PICK image : image = [c EXCEPT !.over = maps[c.over]]
        OBVIOUS
      <4>1. Config!OnDisk(c)' = image
        BY <2>2, <3>3 DEF Config!OnDisk, Config!Nil
      <4>2. image \in saved'
        BY <1>5, <3>2 DEF HeapGrows
      <4> QED
        BY <1>5, <3>2, <4>1, <4>2 DEF Backed
    <3>4. CASE maps[c.over] = "undecided" /\ c.over \in touched'
      <4> PICK left : left = [c EXCEPT !.over = "undecided"]
        OBVIOUS
      <4>1. left \in saved'
        BY <1>5, <3>2, <3>4 DEF HeapGrows
      <4> QED
        BY <3>4, <4>1 DEF Backed
    <3> QED
      BY <3>1, <3>3, <3>4 DEF HeapGrows
  <2> QED
    BY <2>1, <2>2
<1> QED
  BY <1>1, <1>4, <1>5 DEF Backed

LEMMA SameHeap ==
  ASSUME ConfigSafe, UNCHANGED <<maps, touched>>, saved \subseteq saved'
  PROVE  HeapGrows
BY DEF ConfigSafe, HeapOK, HeapGrows

\* What is of a whole file is, in memory, in force.
LEMMA FromDisk ==
  ASSUME NEW ms \in Seq(Said), NEW content \in OnFile, content \in saved,
         maps' = Config!WithMap(ms, content), saved' = saved
  PROVE  /\ HeapOK' /\ ForceOK(Config!InMemory(ms, content))'
         /\ Len(ms) <= Len(maps') /\ \A m \in 1 .. Len(ms) : maps'[m] = ms[m]
<1> PICK c : c = Config!InMemory(ms, content)
  OBVIOUS
<1>1. content.over \in Said \cup {"none"} /\ Len(ms) \in Nat
  BY DEF OnFile, Configuration
<1>2. CASE content.over = "none"
  <2>1. maps' = ms /\ c = [content EXCEPT !.over = 0]
    BY <1>2 DEF Config!WithMap, Config!InMemory, Config!Nil
  <2>2. c \in InUse'
    BY <1>1, <2>1 DEF InUse, OnFile, Configuration
  <2>3. [c EXCEPT !.over = "none"] = content /\ c.over = 0
    BY <1>2, <2>1 DEF OnFile, Configuration
  <2>4. Config!OnDisk(c)' = content
    BY <2>3 DEF Config!OnDisk, Config!Nil
  <2> QED
    BY <1>1, <2>1, <2>2, <2>4 DEF ForceOK, Backed, HeapOK
<1>3. CASE content.over # "none"
  <2>1. maps' = Append(ms, content.over) /\ c = [content EXCEPT !.over = Len(ms) + 1]
    BY <1>3 DEF Config!WithMap, Config!InMemory
  <2>2. /\ maps' \in Seq(Said) /\ Len(maps') = Len(ms) + 1 /\ maps'[Len(ms) + 1] = content.over
        /\ \A m \in 1 .. Len(ms) : maps'[m] = ms[m]
    BY <1>1, <1>3, <2>1
  <2>3. c \in InUse'
    BY <1>1, <2>1, <2>2 DEF InUse, OnFile, Configuration
  <2>4. [c EXCEPT !.over = content.over] = content /\ c.over = Len(ms) + 1
    BY <1>3, <2>1 DEF OnFile, Configuration
  <2>5. Config!OnDisk(c)' = content
    BY <1>1, <2>2, <2>4 DEF Config!OnDisk, Config!Nil
  <2> QED
    BY <1>1, <2>2, <2>3, <2>5 DEF ForceOK, Backed, HeapOK
<1> QED
  BY <1>2, <1>3

LEMMA ConfigInit == Config!Init => ConfigSafe
<1> SUFFICES ASSUME Config!Init PROVE ConfigSafe
  OBVIOUS
<1>1. PICK content \in {Config!First, Config!Earlier} :
        /\ file_config = [content |-> content, stamp |-> 1, torn |-> FALSE]
        /\ current_config = Config!InMemory(<<>>, content)
        /\ live = Config!RunningOn(current_config)
        /\ maps = Config!WithMap(<<>>, content) /\ touched = {} /\ saved = {content}
  BY DEF Config!Init
<1>2. /\ up = TRUE /\ watcher = Config!Free /\ changes = 0
      /\ request = [r \in Requests |-> Config!Free]
  BY DEF Config!Init
<1>3. Config!First \in OnFile /\ Config!Earlier \in OnFile
  <2>1. Config!First \in OnFile
    BY ConfigAssumption DEF ConfigAssumption, Config!First, OnFile, Configuration, Config!Prefix
  <2>2. MaxChanges + 1 \in 0 .. MaxChanges + 1 /\ "undecided" \in Said \cup {"none"}
    BY ConfigAssumption DEF ConfigAssumption, Said
  <2> QED
    BY <2>1, <2>2 DEF Config!Earlier, OnFile, Configuration
<1>4. HeapOK /\ ForceOK(current_config)
  <2>1. CASE content = Config!First
    <3>1. maps = <<>> /\ current_config = [Config!First EXCEPT !.over = 0]
      BY <1>1, <2>1 DEF Config!WithMap, Config!InMemory, Config!First, Config!Nil
    <3>2. current_config \in InUse
      BY <1>3, <3>1 DEF InUse, OnFile, Configuration
    <3>3. [current_config EXCEPT !.over = "none"] = Config!First /\ current_config.over = 0
      <4>1. Config!First.over = "none"
        BY DEF Config!First
      <4> QED
        BY <1>3, <3>1, <4>1 DEF OnFile, Configuration
    <3>4. Config!OnDisk(current_config) = Config!First
      BY <3>3 DEF Config!OnDisk, Config!Nil
    <3>5. HeapOK
      BY <3>1 DEF HeapOK
    <3> QED
      BY <1>1, <2>1, <3>2, <3>4, <3>5 DEF ForceOK, Backed
  <2>2. CASE content = Config!Earlier
    <3>0. Config!Earlier.over = "undecided"
      BY DEF Config!Earlier, Config!First
    <3>1. maps = <<"undecided">> /\ current_config = [Config!Earlier EXCEPT !.over = 1]
      BY <1>1, <2>2, <3>0 DEF Config!WithMap, Config!InMemory
    <3>2. current_config \in InUse
      BY <1>3, <3>1 DEF InUse, OnFile, Configuration
    <3>3. [current_config EXCEPT !.over = "undecided"] = Config!Earlier /\ current_config.over = 1
      BY <1>3, <3>0, <3>1 DEF OnFile, Configuration
    <3>4. Config!OnDisk(current_config) = Config!Earlier
      BY <3>1, <3>3 DEF Config!OnDisk, Config!Nil
    <3>5. HeapOK
      BY <3>1 DEF HeapOK, Said
    <3> QED
      BY <1>1, <2>2, <3>2, <3>4, <3>5 DEF ForceOK, Backed
  <2> QED
    BY <1>1, <2>1, <2>2
<1>5. PartsOK
  BY <1>1, <1>4 DEF PartsOK, Config!RunningOn
<1>6. RequestsOK /\ WatcherOK /\ FileOK /\ DownIsQuiet
  BY <1>1, <1>2 DEF RequestsOK, RequestOK, WatcherOK, FileOK, DownIsQuiet
<1> QED
  BY <1>1, <1>2, <1>3, <1>4, <1>5, <1>6, ConfigAssumption DEF ConfigAssumption, ConfigSafe

\* A request that is not moved on is as it was; so is the watcher, while the file is
\* not begun to be written, and so are the parts.
LEMMA StillRequest ==
  ASSUME HeapOK, HeapGrows PROVE \A q : RequestOK(q) => RequestOK(q)'
BY StillInUse, StillInForce DEF RequestOK, Config!Free

LEMMA OneRequest ==
  ASSUME ConfigSafe, HeapGrows, NEW r \in Requests, NEW v, request' = [request EXCEPT ![r] = v],
         RequestOK(v)'
  PROVE  RequestsOK'
<1>1. DOMAIN request' = Requests /\ request'[r] = v
      /\ \A q \in Requests \ {r} : request'[q] = request[q] /\ RequestOK(request[q])
  BY DEF ConfigSafe, RequestsOK
<1>2. \A q : RequestOK(q) => RequestOK(q)'
  BY StillRequest DEF ConfigSafe
<1>3. ASSUME NEW q \in Requests
      PROVE  RequestOK(request[q])'
  <2>1. CASE q = r
    BY <1>1, <2>1
  <2>2. CASE q # r
    <3> PICK w : w = request[q]
      OBVIOUS
    <3>1. RequestOK(w)'
      BY <1>1, <1>2, <2>2
    <3>2. request'[q] = w
      BY <1>1, <2>2
    <3> QED
      BY <3>1, <3>2
  <2> QED
    BY <2>1, <2>2
<1> QED
  BY <1>1, <1>3 DEF RequestsOK

LEMMA SameRequests ==
  ASSUME ConfigSafe, HeapGrows, request' = request PROVE RequestsOK'
<1>1. \A q : RequestOK(q) => RequestOK(q)'
  BY StillRequest DEF ConfigSafe
<1>2. ASSUME NEW r \in Requests
      PROVE  RequestOK(request[r])'
  <2> PICK w : w = request[r]
    OBVIOUS
  <2>1. RequestOK(w)'
    BY <1>1 DEF ConfigSafe, RequestsOK
  <2> QED
    BY <2>1
<1> QED
  BY <1>2 DEF ConfigSafe, RequestsOK

LEMMA SameWatcher ==
  ASSUME ConfigSafe, HeapGrows, watcher' = watcher,
         watcher.at = "load" => (file_config.torn' = file_config.torn \/ ~file_config.torn')
  PROVE  WatcherOK'
<1>1. \A c : ForceOK(c) => ForceOK(c)'
  BY StillInForce DEF ConfigSafe
<1> PICK w : w = watcher
  OBVIOUS
<1>2. ForceOK(w.next) => ForceOK(w.next)'
  BY <1>1
<1> QED
  BY <1>2 DEF ConfigSafe, WatcherOK, Config!Free

LEMMA SameParts ==
  ASSUME ConfigSafe, HeapGrows, live' = live PROVE PartsOK'
<1>1. \A c : ForceOK(c) => ForceOK(c)'
  BY StillInForce DEF ConfigSafe
<1>2. ASSUME NEW i \in DOMAIN Parts
      PROVE  ForceOK(live[i])'
  <2> PICK c : c = live[i]
    OBVIOUS
  <2>1. ForceOK(c)'
    BY <1>1 DEF ConfigSafe, PartsOK
  <2> QED
    BY <2>1
<1> QED
  BY <1>2 DEF ConfigSafe, PartsOK

LEMMA OnePart ==
  ASSUME ConfigSafe, HeapGrows, NEW c, ForceOK(c), NEW i, live' = [live EXCEPT ![i] = c]
  PROVE  PartsOK'
<1>1. \A d : ForceOK(d) => ForceOK(d)'
  BY StillInForce DEF ConfigSafe
<1>2. ASSUME NEW k \in DOMAIN Parts
      PROVE  ForceOK(live[k])'
  <2> PICK d : d = live'[k]
    OBVIOUS
  <2>1. d = c \/ d = live[k]
    BY DEF ConfigSafe, PartsOK
  <2>2. ForceOK(d)
    BY <2>1 DEF ConfigSafe, PartsOK
  <2>3. ForceOK(d)'
    BY <1>1, <2>2
  <2> QED
    BY <2>3
<1> QED
  BY <1>2 DEF ConfigSafe, PartsOK

LEMMA SameCurrent ==
  ASSUME ConfigSafe, HeapGrows, current_config' = current_config PROVE ForceOK(current_config)'
<1>1. \A c : ForceOK(c) => ForceOK(c)'
  BY StillInForce DEF ConfigSafe
<1> PICK c : c = current_config
  OBVIOUS
<1>2. ForceOK(c)'
  BY <1>1 DEF ConfigSafe
<1> QED
  BY <1>2

\* Steps that put nothing new into force.
LEMMA SameForce ==
  ASSUME ConfigSafe, HeapGrows, UNCHANGED <<current_config, live>>
  PROVE  HeapOK' /\ ForceOK(current_config)' /\ PartsOK'
BY SameCurrent, SameParts DEF HeapGrows

\* What a request makes of a configuration in use is one, in the maps there are then.
LEMMA EditedInUse ==
  ASSUME ConfigSafe, changes < MaxChanges, NEW op \in Config!Ops,
         IF op = "pair_old" THEN Config!PeerDefaults(current_config.over)
                            ELSE UNCHANGED <<maps, touched>>,
         saved' = saved
  PROVE  HeapGrows /\ Config!Edited(current_config, op) \in InUse'
<1> PICK c : c = current_config
  OBVIOUS
<1>1. c \in InUse /\ c.over \in 0 .. Len(maps) /\ maps \in Seq(Said) /\ Len(maps) \in Nat
  BY DEF ConfigSafe, ForceOK, InUse, Configuration, HeapOK
<1>2. changes + 1 \in 0 .. MaxChanges /\ 0 \in 0 .. MaxChanges + 1
      /\ changes + 1 \in Config!Prefix .. MaxChanges /\ changes + 1 \in 0 .. MaxChanges + 1
      /\ 0 \in 0 .. MaxChanges /\ 0 \in 0 .. Len(maps)
  BY <1>1, ConfigAssumption DEF ConfigAssumption, Config!Prefix, ConfigSafe
<1>3. CASE op # "pair_old"
  <2>1. HeapGrows
    BY <1>3, SameHeap
  <2>2. /\ Config!SettingsSaved(c) \in InUse /\ Config!Silenced(c) \in InUse
        /\ Config!Repointed(c) \in InUse /\ Config!PasswordSet(c) \in InUse
    BY <1>1, <1>2 DEF Config!SettingsSaved, Config!Silenced, Config!Repointed, Config!PasswordSet,
       InUse, Configuration
  <2>3. /\ Config!Paired(c) \in InUse /\ Config!Approved(c) \in InUse
        /\ Config!Unpaired(c) \in InUse
    BY <1>1, <1>2 DEF Config!Paired, Config!Approved, Config!Unpaired, Config!Nil, InUse, Configuration
  <2>4. Config!Edited(c, op) \in InUse
    BY <1>3, <2>2, <2>3 DEF Config!Edited, Config!Ops, Config!Live, Config!Pairings
  <2>5. InUse' = InUse
    BY <1>3 DEF InUse
  <2> QED
    BY <2>1, <2>4, <2>5
<1>4. CASE op = "pair_old"
  <2>1. Config!Paired(c) \in InUse /\ Config!Paired(c).over = c.over
    BY <1>1, <1>2 DEF Config!Paired, InUse, Configuration
  <2>2. Config!Edited(c, op) = [Config!Paired(c) EXCEPT !.over = IF c.over = 0 THEN Len(maps) + 1 ELSE c.over]
    BY <1>4, <2>1 DEF Config!Edited, Config!PairedOld, Config!Nil
  <2>3. /\ maps' = IF c.over = 0 THEN Append(maps, "decided") ELSE [maps EXCEPT ![c.over] = "decided"]
        /\ touched' = touched \cup {m \in {c.over} \ {0} : maps[m] = "undecided"}
    BY <1>4 DEF Config!PeerDefaults, Config!Nil
  <2>4. CASE c.over = 0
    <3>1. /\ maps' \in Seq(Said) /\ Len(maps') = Len(maps) + 1
          /\ \A m \in 1 .. Len(maps) : maps'[m] = maps[m]
      <4>1. "decided" \in Said /\ maps' = Append(maps, "decided")
        BY <2>3, <2>4 DEF Said
      <4> QED
        BY <1>1, <4>1
    <3>2. HeapGrows
      BY <1>1, <2>3, <3>1 DEF HeapGrows, HeapOK
    <3>3. Config!Edited(c, op) \in InUse'
      <4>1. Config!Edited(c, op) = [Config!Paired(c) EXCEPT !.over = Len(maps) + 1]
        BY <2>2, <2>4
      <4>2. Len(maps) + 1 \in 0 .. Len(maps')
        BY <1>1, <3>1
      <4> QED
        BY <2>1, <4>1, <4>2 DEF InUse, Configuration
    <3> QED
      BY <3>2, <3>3
  <2>5. CASE c.over # 0
    <3>1. c.over \in 1 .. Len(maps) /\ maps' = [maps EXCEPT ![c.over] = "decided"]
      BY <1>1, <2>3, <2>5
    <3>2. /\ maps' \in Seq(Said) /\ Len(maps') = Len(maps) /\ maps[c.over] \in Said
          /\ maps'[c.over] = "decided"
          /\ \A m \in 1 .. Len(maps) : m # c.over => maps'[m] = maps[m]
      BY <1>1, <3>1 DEF Said
    <3>3. maps[c.over] = "undecided" => c.over \in touched'
      BY <2>3, <2>5
    <3>4. HeapGrows
      BY <1>1, <2>3, <3>2, <3>3 DEF HeapGrows, HeapOK, Said
    <3>5. Config!Edited(c, op) \in InUse'
      BY <1>1, <2>1, <2>2, <2>5, <3>2 DEF InUse, Configuration
    <3> QED
      BY <3>4, <3>5
  <2> QED
    BY <2>4, <2>5
<1> QED
  BY <1>3, <1>4

\* Steps that only move a request on, or end it.
LEMMA RequestGoesOn ==
  ASSUME ConfigSafe, up, NEW r \in Requests, NEW v, request' = [request EXCEPT ![r] = v],
         UNCHANGED <<up, file_config, current_config, live, watcher, saved, changes, maps, touched>>,
         RequestOK(v)'
  PROVE  ConfigSafe'
<1>1. HeapGrows
  BY SameHeap
<1>2. RequestsOK' /\ WatcherOK' /\ HeapOK' /\ ForceOK(current_config)' /\ PartsOK'
  BY <1>1, OneRequest, SameWatcher, SameForce
<1> QED
  BY <1>2 DEF ConfigSafe, FileOK, DownIsQuiet

LEMMA RequestGone ==
  ASSUME ConfigSafe, up, NEW r \in Requests, request' = [request EXCEPT ![r] = Config!Free],
         UNCHANGED <<up, file_config, current_config, live, watcher, saved, changes, maps, touched>>
  PROVE  ConfigSafe'
<1>1. RequestOK(Config!Free)'
  BY DEF RequestOK, Config!Free
<1> QED
  BY <1>1, RequestGoesOn DEF Config!Free

LEMMA ReadSafe ==
  ASSUME ConfigSafe, NEW r \in Requests, NEW op \in Config!Ops, Config!Read(r, op)
  PROVE  ConfigSafe'
<1> PICK e : e = Config!Edited(current_config, op)
  OBVIOUS
<1> PICK v : v = [at |-> "save", op |-> op, next |-> e]
  OBVIOUS
<1>1. /\ up /\ changes < MaxChanges /\ changes' = changes + 1
      /\ request' = [request EXCEPT ![r] = v]
      /\ UNCHANGED <<up, file_config, current_config, live, watcher, saved>>
  BY DEF Config!Read, Config!MayChange
<1>2. HeapGrows /\ e \in InUse'
  BY <1>1, EditedInUse DEF Config!Read, Config!heap
<1>3. RequestOK(v)'
  BY <1>2 DEF RequestOK
<1>4. RequestsOK' /\ WatcherOK'
  BY <1>1, <1>2, <1>3, OneRequest, SameWatcher
<1>5. HeapOK' /\ ForceOK(current_config)' /\ PartsOK'
  BY <1>1, <1>2, SameForce
<1>6. changes' \in 0 .. MaxChanges
  BY <1>1, ConfigAssumption DEF ConfigAssumption, ConfigSafe
<1> QED
  BY <1>1, <1>4, <1>5, <1>6 DEF ConfigSafe, FileOK, DownIsQuiet

\* Writing what is in use makes it held.
LEMMA WritingHolds ==
  ASSUME HeapOK, NEW c \in InUse
  PROVE  Config!OnDisk(c) \in OnFile
<1>1. c.over \in 0 .. Len(maps) /\ Len(maps) \in Nat
  BY DEF InUse, Configuration, HeapOK
<1>2. (IF c.over = 0 THEN "none" ELSE maps[c.over]) \in Said \cup {"none"}
  BY <1>1 DEF HeapOK
<1> QED
  BY <1>2 DEF Config!OnDisk, Config!Nil, InUse, OnFile, Configuration

LEMMA SaveSafe ==
  ASSUME ConfigSafe, NEW r \in Requests, Config!Save(r) \/ Config!SaveFails(r)
  PROVE  ConfigSafe'
<1>1. CASE Config!Save(r)
  <2> PICK place : place = IF request[r].op \in Config!Live THEN "written" ELSE "publish"
    OBVIOUS
  <2> PICK next : next = request[r].next
    OBVIOUS
  <2> PICK image : image = Config!OnDisk(next)
    OBVIOUS
  <2> PICK v : v = [request[r] EXCEPT !.at = place]
    OBVIOUS
  <2>1. /\ up /\ request[r].at = "save" /\ request' = [request EXCEPT ![r] = v]
        /\ file_config' = [content |-> image, stamp |-> file_config.stamp + 1, torn |-> FALSE]
        /\ saved' = saved \cup {image}
        /\ UNCHANGED <<up, current_config, live, watcher, changes, maps, touched>>
    BY <1>1 DEF Config!Save, Config!Write, Config!heap, Config!counts
  <2>2. request[r] = [at |-> "save", op |-> request[r].op, next |-> next] /\ next \in InUse
    BY <2>1 DEF ConfigSafe, RequestsOK, RequestOK, Config!Free
  <2>3. v = [at |-> place, op |-> request[r].op, next |-> next]
    BY <2>2
  <2>4. HeapGrows
    BY <2>1, SameHeap
  <2>5. image \in OnFile
    BY <2>2, WritingHolds DEF ConfigSafe
  <2>6. RequestOK(v)'
    <3>1. v.at = place /\ v.op = request[r].op /\ v.next = next /\ place \in {"written", "publish"}
      BY <2>3
    <3>2. next \in InUse'
      BY <2>2, <2>4, StillInUse DEF ConfigSafe
    <3>3. Config!OnDisk(next)' = image
      BY <2>1 DEF Config!OnDisk
    <3>4. ForceOK(next)'
      BY <2>1, <3>2, <3>3 DEF ForceOK, Backed
    <3> QED
      BY <2>3, <3>1, <3>4 DEF RequestOK
  <2>7. RequestsOK' /\ WatcherOK'
    BY <2>1, <2>4, <2>6, OneRequest, SameWatcher
  <2>8. HeapOK' /\ ForceOK(current_config)' /\ PartsOK'
    BY <2>1, <2>4, SameForce
  <2> QED
    BY <2>1, <2>5, <2>7, <2>8 DEF ConfigSafe, FileOK, DownIsQuiet
<1>2. CASE Config!SaveFails(r)
  <2>1. /\ up /\ request' = [request EXCEPT ![r] = Config!Free]
        /\ UNCHANGED <<up, file_config, current_config, live, watcher, saved, changes, maps, touched>>
    BY <1>2 DEF Config!SaveFails, Config!heap
  <2> QED
    BY <2>1, RequestGone
<1> QED
  BY <1>1, <1>2

LEMMA WrittenSafe ==
  ASSUME ConfigSafe, NEW r \in Requests, Config!Written(r)
  PROVE  ConfigSafe'
<1> PICK v : v = [request[r] EXCEPT !.at = "publish"]
  OBVIOUS
<1> PICK next : next = request[r].next
  OBVIOUS
<1>1. /\ up /\ request[r].at = "written" /\ request' = [request EXCEPT ![r] = v]
      /\ UNCHANGED <<up, file_config, current_config, live, watcher, saved, changes, maps, touched>>
  BY DEF Config!Written, Config!heap, Config!counts
<1>2. request[r] = [at |-> "written", op |-> request[r].op, next |-> next] /\ ForceOK(next)
  BY <1>1 DEF ConfigSafe, RequestsOK, RequestOK, Config!Free
<1>3. v = [at |-> "publish", op |-> request[r].op, next |-> next]
  BY <1>2
<1>4. HeapGrows
  BY <1>1, SameHeap
<1>5. RequestOK(v)'
  <2>1. v.at = "publish" /\ v.op = request[r].op /\ v.next = next
    BY <1>3
  <2>2. ForceOK(next)'
    BY <1>2, <1>4, StillInForce DEF ConfigSafe
  <2> QED
    BY <1>3, <2>1, <2>2 DEF RequestOK
<1> QED
  BY <1>1, <1>4, <1>5, RequestGoesOn

LEMMA PublishSafe ==
  ASSUME ConfigSafe, NEW r \in Requests, Config!Publish(r)
  PROVE  ConfigSafe'
<1> PICK next : next = request[r].next
  OBVIOUS
<1> PICK v : v = IF request[r].op \in Config!Live
                   THEN [at |-> "apply", next |-> next, step |-> 1] ELSE Config!Free
  OBVIOUS
<1>1. /\ up /\ request[r].at = "publish" /\ request' = [request EXCEPT ![r] = v]
      /\ current_config' = next
      /\ UNCHANGED <<up, file_config, live, watcher, saved, changes, maps, touched>>
  BY DEF Config!Publish, Config!heap, Config!counts
<1>2. ForceOK(next)
  BY <1>1 DEF ConfigSafe, RequestsOK, RequestOK, Config!Free
<1>3. HeapGrows
  BY <1>1, SameHeap
<1>4. ForceOK(next)'
  BY <1>2, <1>3, StillInForce DEF ConfigSafe
<1>5. RequestOK(v)'
  BY <1>4 DEF RequestOK, Config!Free
<1>6. RequestsOK' /\ WatcherOK' /\ PartsOK'
  BY <1>1, <1>3, <1>5, OneRequest, SameWatcher, SameParts
<1> QED
  BY <1>1, <1>3, <1>4, <1>6 DEF ConfigSafe, FileOK, DownIsQuiet, HeapGrows

\* A part of applyLive: what is left of the job is a job, or nothing.
LEMMA AfterPart ==
  ASSUME NEW j, j = [at |-> "apply", next |-> j.next, step |-> j.step], NEW k, k = Config!After(j)
  PROVE  k = Config!Free \/ (k = [at |-> "apply", next |-> k.next, step |-> k.step] /\ k.next = j.next)
<1>1. CASE j.step = Len(Parts)
  BY <1>1 DEF Config!After
<1>2. CASE j.step # Len(Parts)
  <2>1. k = [j EXCEPT !.step = @ + 1]
    BY <1>2 DEF Config!After
  <2>2. k = [at |-> "apply", next |-> j.next, step |-> j.step + 1]
    BY <2>1
  <2> QED
    BY <2>2
<1> QED
  BY <1>1, <1>2

LEMMA ApplySafe ==
  ASSUME ConfigSafe, NEW r \in Requests, Config!ApplyPart(r) \/ Config!ApplyFails(r)
  PROVE  ConfigSafe'
<1>1. CASE Config!ApplyPart(r)
  <2>1. PICK v : v = Config!After(request[r])
    OBVIOUS
  <2> PICK q : q = request[r]
    OBVIOUS
  <2>2. /\ up /\ q.at = "apply" /\ request' = [request EXCEPT ![r] = v]
        /\ live' = [live EXCEPT ![q.step] = q.next]
        /\ UNCHANGED <<up, file_config, current_config, watcher, saved, changes, maps, touched>>
    BY <1>1, <2>1 DEF Config!ApplyPart, Config!Applied, Config!heap, Config!counts
  <2>3. q = [at |-> "apply", next |-> q.next, step |-> q.step] /\ ForceOK(q.next)
    BY <2>2 DEF ConfigSafe, RequestsOK, RequestOK, Config!Free
  <2>4. HeapGrows
    BY <2>2, SameHeap
  <2>5. RequestOK(v)'
    <3>1. ForceOK(q.next)'
      BY <2>3, <2>4, StillInForce DEF ConfigSafe
    <3>2. v = Config!Free \/ (v = [at |-> "apply", next |-> v.next, step |-> v.step] /\ v.next = q.next)
      BY <2>1, <2>3, AfterPart
    <3> QED
      BY <3>1, <3>2 DEF RequestOK
  <2>6. RequestsOK' /\ PartsOK' /\ WatcherOK' /\ ForceOK(current_config)'
    BY <2>2, <2>3, <2>4, <2>5, OneRequest, OnePart, SameWatcher, SameCurrent
  <2> QED
    BY <2>2, <2>4, <2>6 DEF ConfigSafe, FileOK, DownIsQuiet, HeapGrows
<1>2. CASE Config!ApplyFails(r)
  <2>1. /\ up /\ request' = [request EXCEPT ![r] = Config!Free]
        /\ UNCHANGED <<up, file_config, current_config, live, watcher, saved, changes, maps, touched>>
    BY <1>2 DEF Config!ApplyFails, Config!heap
  <2> QED
    BY <2>1, RequestGone
<1> QED
  BY <1>1, <1>2

LEMMA EditorSafe ==
  ASSUME ConfigSafe, Config!EditBegins \/ Config!EditEnds
  PROVE  ConfigSafe'
<1>1. UNCHANGED <<up, current_config, live, watcher, request, maps, touched>>
  BY DEF Config!EditBegins, Config!EditEnds, Config!heap
<1>2. DownIsQuiet'
  BY <1>1 DEF ConfigSafe, DownIsQuiet, Config!Quiet
<1>3. CASE Config!EditBegins
  <2>1. /\ file_config'.torn = TRUE /\ watcher.at # "load" /\ saved' = saved
        /\ changes < MaxChanges /\ changes' = changes + 1
    BY <1>3 DEF Config!EditBegins, Config!MayChange
  <2>2. HeapGrows
    BY <1>1, <2>1, SameHeap
  <2>3. WatcherOK' /\ RequestsOK' /\ HeapOK' /\ ForceOK(current_config)' /\ PartsOK'
    BY <1>1, <2>1, <2>2, SameWatcher, SameRequests, SameForce
  <2>4. changes' \in 0 .. MaxChanges
    BY <2>1, ConfigAssumption DEF ConfigAssumption, ConfigSafe
  <2> QED
    BY <1>2, <2>1, <2>3, <2>4 DEF ConfigSafe, FileOK
<1>4. CASE Config!EditEnds
  <2>1. PICK valid \in BOOLEAN, opened \in {c \in saved : c.valid} :
          /\ file_config' = [content |-> [opened EXCEPT !.settings = changes, !.valid = valid],
                             stamp |-> file_config.stamp + 1, torn |-> FALSE]
          /\ saved' = saved \cup {[opened EXCEPT !.settings = changes, !.valid = valid]}
    BY <1>4 DEF Config!EditEnds, Config!Write
  <2> PICK content : content = [opened EXCEPT !.settings = changes, !.valid = valid]
    OBVIOUS
  <2>2. /\ file_config' = [content |-> content, stamp |-> file_config.stamp + 1, torn |-> FALSE]
        /\ saved' = saved \cup {content} /\ changes' = changes
    BY <1>4, <2>1 DEF Config!EditEnds, Config!counts
  <2>3. content \in OnFile
    <3>1. opened \in OnFile /\ changes \in Config!Prefix .. MaxChanges
      BY ConfigAssumption DEF ConfigAssumption, ConfigSafe, Config!Prefix
    <3> QED
      BY <3>1 DEF OnFile, Configuration
  <2>4. HeapGrows
    BY <1>1, <2>2, SameHeap
  <2>5. WatcherOK' /\ RequestsOK' /\ HeapOK' /\ ForceOK(current_config)' /\ PartsOK'
    BY <1>1, <2>2, <2>4, SameWatcher, SameRequests, SameForce
  <2> QED
    BY <1>2, <2>2, <2>3, <2>5 DEF ConfigSafe, FileOK
<1> QED
  BY <1>3, <1>4

LEMMA WatchSafe ==
  ASSUME ConfigSafe, Config!Watch \/ Config!FilePartFails
  PROVE  ConfigSafe'
<1>1. up /\ UNCHANGED <<up, file_config, request, saved, changes, touched>>
  BY DEF Config!Watch, Config!FilePartFails, Config!Notice, Config!Look, Config!Load,
     Config!FromFile, Config!FilePart, Config!counts, Config!heap
<1>2. ASSUME HeapGrows, ForceOK(current_config)', PartsOK', WatcherOK'
      PROVE  ConfigSafe'
  BY <1>1, <1>2, SameRequests DEF ConfigSafe, FileOK, DownIsQuiet, HeapGrows
<1>3. CASE Config!Load
  <2>1. watcher.at = "load" /\ UNCHANGED <<current_config, live>>
    BY <1>3 DEF Config!Load
  <2>2. file_config.content \in saved /\ file_config.content \in OnFile
    BY <2>1 DEF ConfigSafe, WatcherOK, FileOK, Config!Free
  <2>3. CASE file_config.content.valid
    <3> PICK next : next = Config!InMemory(maps, file_config.content)
      OBVIOUS
    <3>1. watcher' = [at |-> "current", next |-> next] /\ maps' = Config!WithMap(maps, file_config.content)
      BY <1>3, <2>3 DEF Config!Load
    <3> PICK ms : ms = maps
      OBVIOUS
    <3> PICK content : content = file_config.content
      OBVIOUS
    <3>2. /\ HeapOK' /\ ForceOK(Config!InMemory(ms, content))'
          /\ Len(ms) <= Len(maps') /\ \A m \in 1 .. Len(ms) : maps'[m] = ms[m]
      BY <1>1, <2>2, <3>1, FromDisk DEF ConfigSafe, HeapOK
    <3>3. ForceOK(next)'
      BY <3>2 DEF Config!InMemory
    <3>4. HeapGrows
      BY <1>1, <3>2 DEF HeapGrows
    <3>5. WatcherOK'
      BY <3>1, <3>3 DEF WatcherOK
    <3> QED
      BY <1>2, <2>1, <3>4, <3>5, SameForce
  <2>4. CASE ~file_config.content.valid
    <3>1. watcher' = Config!Free /\ maps' = maps
      BY <1>3, <2>4 DEF Config!Load
    <3>2. HeapGrows
      BY <1>1, <3>1, SameHeap
    <3> QED
      BY <1>2, <2>1, <3>1, <3>2, SameForce DEF WatcherOK
  <2> QED
    BY <2>3, <2>4
<1>4. CASE ~Config!Load
  <2>1. maps' = maps
    BY <1>4 DEF Config!Watch, Config!FilePartFails, Config!Notice, Config!Look, Config!FromFile,
       Config!FilePart, Config!heap
  <2>2. HeapGrows
    BY <1>1, <2>1, SameHeap
  <2>3. CASE Config!Notice
    <3>1. UNCHANGED <<current_config, live, watcher>>
      BY <2>3 DEF Config!Notice
    <3> QED
      BY <1>1, <1>2, <2>2, <3>1, SameWatcher, SameForce
  <2>4. CASE Config!Look
    <3>1. watcher' = [at |-> "load"] /\ ~file_config.torn /\ UNCHANGED <<current_config, live>>
      BY <2>4 DEF Config!Look, Config!Still, ConfigSafe, FileOK
    <3> QED
      BY <1>1, <1>2, <2>2, <3>1, SameForce DEF WatcherOK
  <2>5. CASE Config!FromFile
    <3> PICK next : next = watcher.next
      OBVIOUS
    <3>1. /\ watcher.at = "current" /\ current_config' = next /\ live' = live
          /\ watcher' = [at |-> "apply", next |-> next, step |-> 1]
      BY <2>5 DEF Config!FromFile
    <3>2. ForceOK(next)
      BY <3>1 DEF ConfigSafe, WatcherOK, Config!Free
    <3>3. ForceOK(next)'
      BY <2>2, <3>2, StillInForce DEF ConfigSafe
    <3>4. WatcherOK'
      BY <3>1, <3>3 DEF WatcherOK
    <3> QED
      BY <1>2, <2>2, <3>1, <3>3, <3>4, SameParts
  <2>6. CASE Config!FilePart
    <3>1. PICK k : k = Config!After(watcher)
      OBVIOUS
    <3> PICK w : w = watcher
      OBVIOUS
    <3>2. /\ w.at = "apply" /\ watcher' = k /\ current_config' = current_config
          /\ live' = [live EXCEPT ![w.step] = w.next]
      BY <2>6, <3>1 DEF Config!FilePart, Config!Applied
    <3>3. w = [at |-> "apply", next |-> w.next, step |-> w.step] /\ ForceOK(w.next)
      BY <3>2 DEF ConfigSafe, WatcherOK, Config!Free
    <3>4. ForceOK(w.next)'
      BY <2>2, <3>3, StillInForce DEF ConfigSafe
    <3>5. k = Config!Free \/ (k = [at |-> "apply", next |-> k.next, step |-> k.step] /\ k.next = w.next)
      BY <3>1, <3>3, AfterPart
    <3>6. WatcherOK'
      BY <3>2, <3>4, <3>5 DEF WatcherOK
    <3>7. PartsOK' /\ ForceOK(current_config)'
      BY <2>2, <3>2, <3>3, OnePart, SameCurrent
    <3> QED
      BY <1>2, <2>2, <3>6, <3>7
  <2>7. CASE Config!FilePartFails
    <3>1. watcher' = Config!Free /\ UNCHANGED <<current_config, live>>
      BY <2>7 DEF Config!FilePartFails
    <3> QED
      BY <1>2, <2>2, <3>1, SameForce DEF WatcherOK
  <2> QED
    BY <1>4, <2>3, <2>4, <2>5, <2>6, <2>7 DEF Config!Watch
<1> QED
  BY <1>3, <1>4

\* A start makes the maps anew: nothing that used the old ones is left.
LEMMA ProcessSafe ==
  ASSUME ConfigSafe, Config!Crash \/ Config!Start
  PROVE  ConfigSafe'
<1>1. CASE Config!Crash
  <2>1. /\ watcher' = Config!Free /\ request' = [r \in Requests |-> Config!Free]
        /\ UNCHANGED <<file_config, current_config, live, saved, changes, maps, touched>>
    BY <1>1 DEF Config!Crash, Config!heap
  <2>2. HeapGrows
    BY <2>1, SameHeap
  <2>3. HeapOK' /\ ForceOK(current_config)' /\ PartsOK'
    BY <2>1, <2>2, SameForce
  <2> QED
    BY <2>1, <2>3 DEF ConfigSafe, WatcherOK, RequestOK, RequestsOK, FileOK, DownIsQuiet, Config!Quiet
<1>2. CASE Config!Start
  <2> PICK next : next = Config!InMemory(<<>>, file_config.content)
    OBVIOUS
  <2>1. /\ ~up /\ up' = TRUE /\ ~file_config.torn
        /\ current_config' = next /\ live' = [i \in DOMAIN Parts |-> next]
        /\ maps' = Config!WithMap(<<>>, file_config.content)
        /\ UNCHANGED <<file_config, watcher, request, saved, changes>>
    BY <1>2 DEF Config!Start, Config!RunningOn, Config!counts
  <2>2. /\ watcher' = Config!Free /\ request' = request /\ \A r \in Requests : request[r] = Config!Free
    BY <2>1 DEF ConfigSafe, DownIsQuiet, Config!Quiet
  <2>3. RequestsOK' /\ WatcherOK'
    BY <2>2 DEF ConfigSafe, RequestsOK, RequestOK, WatcherOK
  <2> PICK content : content = file_config.content
    OBVIOUS
  <2>4. content \in saved /\ content \in OnFile
    BY <2>1 DEF ConfigSafe, FileOK
  <2>5. HeapOK' /\ ForceOK(Config!InMemory(<<>>, content))'
    <3>1. <<>> \in Seq(Said)
      OBVIOUS
    <3> QED
      BY <2>1, <2>4, <3>1, FromDisk
  <2>6. ForceOK(next)'
    BY <2>5 DEF Config!InMemory
  <2>7. ForceOK(current_config)' /\ PartsOK'
    BY <2>1, <2>6 DEF PartsOK
  <2> QED
    BY <2>1, <2>3, <2>5, <2>7 DEF ConfigSafe, FileOK, DownIsQuiet
<1> QED
  BY <1>1, <1>2

LEMMA ConfigNext == ConfigSafe /\ [Config!Next]_(Config!vars) => ConfigSafe'
<1> SUFFICES ASSUME ConfigSafe, [Config!Next]_(Config!vars)
             PROVE  ConfigSafe'
  OBVIOUS
<1>1. ASSUME NEW r \in Requests, NEW op \in Config!Ops, Config!Read(r, op)
      PROVE  ConfigSafe'
  BY <1>1, ReadSafe
<1>2. ASSUME NEW r \in Requests,
             Config!Handle(r) \/ Config!SaveFails(r) \/ Config!ApplyFails(r)
      PROVE  ConfigSafe'
  BY <1>2, SaveSafe, WrittenSafe, PublishSafe, ApplySafe DEF Config!Handle
<1>3. CASE Config!EditBegins \/ Config!EditEnds
  BY <1>3, EditorSafe
<1>4. CASE Config!Watch \/ Config!FilePartFails
  BY <1>4, WatchSafe
<1>5. CASE Config!Crash \/ Config!Start
  BY <1>5, ProcessSafe
<1>6. CASE UNCHANGED Config!vars
  <2>1. UNCHANGED <<up, file_config, current_config, live, watcher, request, saved, changes, maps, touched>>
    BY <1>6 DEF Config!vars, Config!heap, Config!counts
  <2>2. HeapGrows
    BY <2>1, SameHeap
  <2>3. WatcherOK' /\ RequestsOK' /\ HeapOK' /\ ForceOK(current_config)' /\ PartsOK'
    BY <2>1, <2>2, SameWatcher, SameRequests, SameForce
  <2> QED
    BY <2>1, <2>3 DEF ConfigSafe, FileOK, DownIsQuiet, Config!Quiet
<1> QED
  BY <1>1, <1>2, <1>3, <1>4, <1>5, <1>6 DEF Config!Next

\* The daemon runs nothing the file never held whole, however many requests,
\* edits, refusals and restarts there are and in whatever order, but for the default
\* that a pairing writes into the overrides in use before its save (storePeer,
\* ApplyPeerDefaults): what it runs beside that, some file held.
THEOREM RunsWhatWasSavedSafe == Spec => []RunsWhatWasSaved
<1> DEFINE Safe == subject = "config" => ConfigSafe
<1>1. Init => Safe
  BY ConfigInit DEF Init
<1>2. Safe /\ [Next]_vars => Safe'
  BY StepsOfSubject, ConfigNext
<1>3. Safe => RunsWhatWasSaved
  BY DEF RunsWhatWasSaved, Config!RunsWhatWasSaved, ConfigSafe, PartsOK, ForceOK, Backed
<1> QED
  BY <1>1, <1>2, <1>3, PTL DEF Spec

-----------------------------------------------------------------------------
(* From the settings to the queue a rung reaches (AlertRouting).           *)

Rungs(stages) ==
  \A i \in DOMAIN stages :
    stages[i] = [after |-> stages[i].after, channels |-> stages[i].channels]

\* A ladder of the operator's, and one of the defaults.
Own(p) ==
  /\ p = [severity |-> p.severity, quiet |-> p.quiet, giveUp |-> p.giveUp, stages |-> p.stages]
  /\ Rungs(p.stages)
Default(p) ==
  /\ p = [stages |-> p.stages, quiet |-> p.quiet, giveUp |-> p.giveUp]
  /\ Rungs(p.stages)

LEMMA OwnLadders == \A p \in Policies : p = Routing!NoPolicy \/ Own(p)
<1> SUFFICES ASSUME NEW p \in Policies, p # Routing!NoPolicy PROVE Own(p)
  OBVIOUS
<1>1. p \in [severity : STRING, quiet : BOOLEAN, giveUp : Int,
             stages : Seq([after : Int, channels : SUBSET STRING])]
  BY LadderAssumption
<1>2. p.stages \in Seq([after : Int, channels : SUBSET STRING])
  BY <1>1
<1>3. \A i \in DOMAIN p.stages : p.stages[i] \in [after : Int, channels : SUBSET STRING]
  BY <1>2, ElementOfSeq, LenProperties
<1> QED
  BY <1>1, <1>3 DEF Own, Rungs

\* Names in lower case stand for themselves.
LEMMA SpelledNames ==
  ASSUME Routing!Spelled
  PROVE  \A n \in Routing!EnabledChannelNames(config) : Routing!Lower(n) = n
BY DEF Routing!Spelled, Routing!EnabledChannelNames, Routing!Builtins, Routing!Lower

\* What is left of a ladder: the channels there are, and the rungs that have some.
LEMMA Filtered ==
  ASSUME NEW p, Own(p) \/ Default(p), NEW have,
         NEW f, f = Routing!FilterToEnabled(p, have)
  PROVE  /\ Own(p) => f.severity = p.severity
         /\ \A i \in DOMAIN f.stages :
              f.stages[i].channels \subseteq {ch \in Routing!Rungs(p) : Routing!Lower(ch) \in have}
         /\ Routing!Rungs(f) = {ch \in Routing!Rungs(p) : Routing!Lower(ch) \in have}
         /\ f.stages = << >> => Routing!Rungs(f) = {}
<1> DEFINE left == {i \in DOMAIN p.stages : \E ch \in p.stages[i].channels : Routing!Lower(ch) \in have}
           kept == [i \in left |-> [p.stages[i] EXCEPT !.channels = {ch \in @ : Routing!Lower(ch) \in have}]]
<1>1. f = [p EXCEPT !.stages = kept]
  BY DEF Routing!FilterToEnabled
<1>2. f.stages = kept /\ (Own(p) => f.severity = p.severity)
  BY <1>1 DEF Own, Default
<1>3. Rungs(p.stages)
  BY DEF Own, Default
<1>4. \A i \in left : kept[i].channels = {ch \in p.stages[i].channels : Routing!Lower(ch) \in have}
  BY <1>3 DEF Rungs
<1>5. DOMAIN kept = left
  OBVIOUS
<1> HIDE DEF kept
<1>6. \A i \in DOMAIN f.stages :
        f.stages[i].channels = {ch \in p.stages[i].channels : Routing!Lower(ch) \in have}
  BY <1>2, <1>4, <1>5
<1>7. Routing!Rungs(f) = {ch \in Routing!Rungs(p) : Routing!Lower(ch) \in have}
  BY <1>2, <1>4, <1>5 DEF Routing!Rungs
<1>8. f.stages = << >> => Routing!Rungs(f) = {}
  BY DEF Routing!Rungs
<1> QED
  BY <1>2, <1>5, <1>6, <1>7, <1>8 DEF Routing!Rungs

LEMMA DefaultLadders ==
  ASSUME NEW sev \in Routing!Severities
  PROVE  Default(Routing!DefaultPolicies[sev])
BY DEF Routing!Severities, Routing!DefaultPolicies, Routing!Rung, Default, Rungs

\* The rungs of a default ladder have channels there are.
LEMMA DefaultReaches ==
  ASSUME NEW enabled, enabled # {}, \A n \in enabled : Routing!Lower(n) = n,
         NEW sev \in Routing!Severities
  PROVE  \A i \in DOMAIN Routing!DefaultFor(sev, enabled).stages :
           \A ch \in Routing!DefaultFor(sev, enabled).stages[i].channels : Routing!Lower(ch) \in enabled
<1> DEFINE p == Routing!DefaultPolicies[sev]
           f == Routing!FilterToEnabled(p, Routing!Have(enabled))
<1>1. Default(p)
  BY DefaultLadders
<1>2. Routing!Have(enabled) = enabled
  BY DEF Routing!Have
<1>3. \A i \in DOMAIN f.stages : \A ch \in f.stages[i].channels : Routing!Lower(ch) \in enabled
  BY <1>1, <1>2, Filtered
<1>4. CASE f.stages # << >>
  <2>1. Routing!DefaultFor(sev, enabled) = f
    BY <1>4 DEF Routing!DefaultFor
  <2> QED
    BY <1>3, <2>1
<1>5. CASE f.stages = << >>
  <2>1. Routing!DefaultFor(sev, enabled) = Routing!EveryChannelLadder(p, enabled)
    BY <1>5 DEF Routing!DefaultFor
  <2>2. Routing!DefaultFor(sev, enabled).stages = <<Routing!Rung(0, enabled)>>
    BY <1>1, <2>1 DEF Routing!EveryChannelLadder, Default
  <2> QED
    BY <2>2 DEF Routing!Rung
<1> QED
  BY <1>4, <1>5

\* What is left of the operator's own ladder is used, and every other severity has
\* its default.
LEMMA BuiltLadders ==
  ASSUME NEW c, c.policy \in Policies, NEW enabled, enabled # {},
         \A n \in enabled : Routing!Lower(n) = n,
         NEW built, built = Routing!BuildPolicies(c, enabled)
  PROVE  /\ \A sev \in DOMAIN built \cap Routing!Severities : \A i \in DOMAIN built[sev].stages :
              \A ch \in built[sev].stages[i].channels : Routing!Lower(ch) \in enabled
         /\ c.policy # Routing!NoPolicy =>
              LET p == c.policy
                  reached == {ch \in Routing!Rungs(p) : Routing!Lower(ch) \in enabled}
              IN  /\ p.severity \in DOMAIN built => Routing!Rungs(built[p.severity]) = reached
                  /\ p.severity \notin DOMAIN built => reached = {}
<1> DEFINE p == c.policy
           own == IF p = Routing!NoPolicy \/ enabled = {} THEN p
                  ELSE Routing!FilterToEnabled(p, Routing!Have(enabled))
           named == IF p = Routing!NoPolicy THEN {} ELSE {p.severity}
           left == IF named = {} \/ (own.stages = << >> /\ enabled # {}) THEN {} ELSE named
<1>1. built = [sev \in (Routing!Severities \ named) \cup left |->
                 IF sev \in left THEN Routing!Own(own) ELSE Routing!DefaultFor(sev, enabled)]
  BY DEF Routing!BuildPolicies
<1>2. Routing!Have(enabled) = enabled
  BY DEF Routing!Have
<1>3. ASSUME p # Routing!NoPolicy
      PROVE  /\ \A i \in DOMAIN own.stages :
                  \A ch \in own.stages[i].channels : Routing!Lower(ch) \in enabled
             /\ Routing!Rungs(own) = {ch \in Routing!Rungs(p) : Routing!Lower(ch) \in enabled}
             /\ own.stages = << >> => Routing!Rungs(own) = {}
             /\ left \subseteq {p.severity}
             /\ left = {} <=> own.stages = << >>
  <2>1. Own(p)
    BY <1>3, OwnLadders
  <2>2. own = Routing!FilterToEnabled(p, enabled)
    BY <1>2, <1>3
  <2> HIDE DEF own
  <2>3. /\ \A i \in DOMAIN own.stages : own.stages[i].channels
              \subseteq {ch \in Routing!Rungs(p) : Routing!Lower(ch) \in enabled}
        /\ Routing!Rungs(own) = {ch \in Routing!Rungs(p) : Routing!Lower(ch) \in enabled}
        /\ own.stages = << >> => Routing!Rungs(own) = {}
    BY <2>1, <2>2, Filtered
  <2> QED
    BY <1>3, <2>3
<1>4. p = Routing!NoPolicy => left = {} /\ named = {}
  OBVIOUS
<1>5. \A sev \in left : built[sev] = Routing!Own(own)
  BY <1>1
<1>6. Routing!Own(own).stages = own.stages
  BY DEF Routing!Own
<1>7. \A sev \in Routing!Severities \ named : sev \notin left /\ built[sev] = Routing!DefaultFor(sev, enabled)
  BY <1>1
<1>8. DOMAIN built = (Routing!Severities \ named) \cup left
  BY <1>1
<1>9. Routing!Rungs(Routing!Own(own)) = Routing!Rungs(own)
  BY <1>6 DEF Routing!Rungs
<1>10. left \subseteq named
  OBVIOUS
<1> HIDE DEF own, left
<1>11. ASSUME NEW sev \in DOMAIN built \cap Routing!Severities, NEW i \in DOMAIN built[sev].stages,
              NEW ch \in built[sev].stages[i].channels
       PROVE  Routing!Lower(ch) \in enabled
  <2>1. CASE sev \in left
    BY <1>3, <1>4, <1>5, <1>6, <1>11, <2>1
  <2>2. CASE sev \notin left
    <3>1. built[sev] = Routing!DefaultFor(sev, enabled)
      BY <1>7, <1>8, <2>2
    <3> QED
      BY <1>11, <3>1, DefaultReaches
  <2> QED
    BY <2>1, <2>2
<1>12. ASSUME p # Routing!NoPolicy
       PROVE  LET reached == {ch \in Routing!Rungs(p) : Routing!Lower(ch) \in enabled}
              IN  /\ p.severity \in DOMAIN built => Routing!Rungs(built[p.severity]) = reached
                  /\ p.severity \notin DOMAIN built => reached = {}
  <2>1. p.severity \in named
    BY <1>12
  <2>2. CASE p.severity \in left
    BY <1>3, <1>5, <1>8, <1>9, <1>12, <2>2
  <2>3. CASE p.severity \notin left
    BY <1>3, <1>8, <1>12, <2>1, <2>3
  <2> QED
    BY <2>2, <2>3
<1> QED
  BY <1>11, <1>12

\* What was refused is not run, what could not be started was said, and the ladders
\* in force are those of the channels that run.
RoutingSafe ==
  /\ config.policy \in Policies
  /\ Routing!Spelled => unknown = {}
  /\ phase_routing \in {"accepted", "built", "running"} =>
       Routing!Problems(config) = {} /\ Routing!Warnings(config) \subseteq warned
  /\ phase_routing \in {"built", "running"} =>
       /\ queues = Routing!EnabledChannelNames(config) \ broken_routing
       /\ \A n \in broken_routing : <<"could not be started", n>> \in warned
  /\ phase_routing = "running" => ladders = Routing!BuildPolicies(config, queues)

LEMMA RoutingInit == Routing!Init => RoutingSafe
BY DEF Routing!Init, RoutingSafe

LEMMA RoutingNext == RoutingSafe /\ [Routing!Next]_(Routing!vars) => RoutingSafe'
<1> SUFFICES ASSUME RoutingSafe, [Routing!Next]_(Routing!vars) PROVE RoutingSafe'
  OBVIOUS
<1> USE DEF RoutingSafe
<1>1. CASE Routing!Read
  BY <1>1 DEF Routing!Read, Routing!Spelled, Routing!HookNames, Routing!Problems,
     Routing!Warnings
<1>2. CASE Routing!BuildDelivery
  BY <1>2 DEF Routing!BuildDelivery, Routing!Spelled
<1>3. CASE Routing!BuildLadders
  BY <1>3 DEF Routing!BuildLadders, Routing!Spelled
<1>4. CASE Routing!Restart
  BY <1>4 DEF Routing!Restart, Routing!Spelled
<1>5. ASSUME NEW sev \in Routing!Severities, NEW n \in 1 .. 2, Routing!Deliver(sev, n)
      PROVE  RoutingSafe'
  <2>1. UNCHANGED <<config, phase_routing, queues, broken_routing, ladders, warned>>
    BY <1>5 DEF Routing!Deliver
  <2>2. ASSUME Routing!Spelled
        PROVE  unknown' = {}
    <3>1. queues # {} /\ queues \subseteq Routing!EnabledChannelNames(config)
          /\ ladders = Routing!BuildPolicies(config, queues)
          /\ sev \in DOMAIN ladders /\ n \in DOMAIN ladders[sev].stages
      BY <1>5 DEF Routing!Deliver
    <3>2. \A q \in queues : Routing!Lower(q) = q
      BY <2>2, <3>1, SpelledNames
    <3>3. \A ch \in ladders[sev].stages[n].channels : Routing!Lower(ch) \in queues
      BY <3>1, <3>2, BuiltLadders
    <3> QED
      BY <1>5, <2>2, <3>3 DEF Routing!Deliver
  <2> QED
    BY <2>1, <2>2 DEF Routing!Spelled
<1>6. CASE UNCHANGED Routing!vars
  BY <1>6 DEF Routing!vars, Routing!Spelled
<1> QED
  BY <1>1, <1>2, <1>3, <1>4, <1>5, <1>6 DEF Routing!Next

\* An accepted configuration reaches somebody, whatever channels, webhooks and
\* ladders the operator wrote: no rung names a channel that is not there, no severity
\* is without a ladder while every channel could be started, and whoever is left out
\* of the operator's ladder was named in a warning.
THEOREM AcceptedReachesSafe == Spec => []AcceptedReaches
<1> DEFINE Safe == subject = "routing" => RoutingSafe
<1>1. Init => Safe
  BY RoutingInit DEF Init
<1>2. Safe /\ [Next]_vars => Safe'
  BY StepsOfSubject, RoutingNext
<1>3. Safe => AcceptedReaches
  <2> SUFFICES ASSUME RoutingSafe, phase_routing = "running", queues # {}, Routing!Spelled
               PROVE  /\ unknown = {}
                      /\ broken_routing = {} => DOMAIN ladders = Routing!Severities
                      /\ LET p == config.policy
                         IN  p # Routing!NoPolicy =>
                               /\ p.severity \in DOMAIN ladders =>
                                    Routing!Rungs(ladders[p.severity]) \subseteq Routing!Rungs(p)
                               /\ \A ch \in Routing!Rungs(p) :
                                    \/ p.severity \in DOMAIN ladders /\ ch \in Routing!Rungs(ladders[p.severity])
                                    \/ <<"not enabled", ch>> \in warned
                                    \/ <<"could not be started", Routing!Lower(ch)>> \in warned
    BY DEF AcceptedReaches, Routing!AcceptedReaches
  <2> DEFINE enabled == Routing!EnabledChannelNames(config)
             p == config.policy
  <2>1. \A n \in enabled : Routing!Lower(n) = n
    BY SpelledNames
  <2>2. queues = enabled \ broken_routing /\ ladders = Routing!BuildPolicies(config, queues)
        /\ (\A n \in broken_routing : <<"could not be started", n>> \in warned)
        /\ Routing!Problems(config) = {} /\ Routing!Warnings(config) \subseteq warned
    BY DEF RoutingSafe
  <2> HIDE DEF enabled
  <2>3. ASSUME broken_routing = {}
        PROVE  DOMAIN ladders = Routing!Severities
    <3>1. queues = enabled /\ Routing!PolicyProblems(config) = {}
      BY <2>2, <2>3 DEF Routing!Problems
    <3>2. /\ {<<"not a severity", s>> : s \in DOMAIN ladders \ Routing!Severities} = {}
          /\ {<<"no ladder left", s>> : s \in Routing!Severities \ DOMAIN ladders} = {}
      BY <2>2, <3>1 DEF Routing!PolicyProblems, enabled
    <3> QED
      BY <3>2
  <2>4. ASSUME p # Routing!NoPolicy
        PROVE  /\ p.severity \in DOMAIN ladders =>
                    Routing!Rungs(ladders[p.severity]) \subseteq Routing!Rungs(p)
               /\ \A ch \in Routing!Rungs(p) :
                    \/ p.severity \in DOMAIN ladders /\ ch \in Routing!Rungs(ladders[p.severity])
                    \/ <<"not enabled", ch>> \in warned
                    \/ <<"could not be started", Routing!Lower(ch)>> \in warned
    <3> DEFINE reached == {ch \in Routing!Rungs(p) : Routing!Lower(ch) \in queues}
    <3>1. /\ p.severity \in DOMAIN ladders => Routing!Rungs(ladders[p.severity]) = reached
          /\ p.severity \notin DOMAIN ladders => reached = {}
      <4>1. config.policy \in Policies /\ \A n \in queues : Routing!Lower(n) = n
        BY <2>1, <2>2 DEF RoutingSafe
      <4>2. ladders = Routing!BuildPolicies(config, queues) /\ config.policy # Routing!NoPolicy
        BY <2>2, <2>4
      <4> HIDE DEF reached
      <4>3. LET reached_1 == {ch \in Routing!Rungs(config.policy) : Routing!Lower(ch) \in queues}
            IN  /\ config.policy.severity \in DOMAIN ladders =>
                      Routing!Rungs(ladders[config.policy.severity]) = reached_1
                /\ config.policy.severity \notin DOMAIN ladders => reached_1 = {}
        BY <4>1, <4>2, BuiltLadders
      <4> QED
        BY <4>3 DEF reached
    <3>2. ASSUME NEW ch \in Routing!Rungs(p), Routing!Lower(ch) \notin enabled
          PROVE  <<"not enabled", ch>> \in warned
      <4>1. Routing!Have(enabled) = enabled
        BY <2>1 DEF Routing!Have
      <4>2. enabled # {} /\ Routing!OwnRungs(config) = Routing!Rungs(p)
        BY <2>2, <2>4 DEF Routing!OwnRungs
      <4>3. <<"not enabled", ch>> \in Routing!UnavailableWarnings(config)
        BY <3>2, <4>1, <4>2 DEF Routing!UnavailableWarnings, enabled
      <4> QED
        BY <2>2, <4>3 DEF Routing!Warnings
    <3>3. ASSUME NEW ch \in Routing!Rungs(p), Routing!Lower(ch) \in enabled,
                 Routing!Lower(ch) \notin queues
          PROVE  <<"could not be started", Routing!Lower(ch)>> \in warned
      BY <2>2, <3>3
    <3> QED
      BY <3>1, <3>2, <3>3
  <2>5. unknown = {}
    BY DEF RoutingSafe
  <2> QED
    BY <2>3, <2>4, <2>5
<1> QED
  BY <1>1, <1>2, <1>3, PTL DEF Spec

-----------------------------------------------------------------------------
(* One delivery by telephone (ChannelSend).                                *)

\* Who is to be called next was not called, the one being called at most as often
\* as the service broke, and nobody more than twice.
CallsOK ==
  /\ to \in Nat /\ broken_send \in {0, 1}
  /\ DOMAIN rung \subseteq Int /\ rung \in [DOMAIN rung -> 0 .. 2]
  /\ at # "done" => \A n \in DOMAIN rung :
       (n > to => rung[n] = 0) /\ (n = to => rung[n] <= broken_send)

SendSafe == kind = "voice" => CallsOK

LEMMA SendInit == Sending!Init => SendSafe
<1> SUFFICES ASSUME Sending!Init
             PROVE  CallsOK
  BY DEF SendSafe
<1>1. rung = [n \in Sending!Recipients(kind) |-> 0] /\ to = 1 /\ broken_send = 0
  BY DEF Sending!Init
<1>2. Sending!Recipients(kind) \subseteq Int
  BY DEF Sending!Recipients
<1> QED
  BY <1>1, <1>2 DEF CallsOK

\* A recipient the channel is done with is followed by the next, or by none.
LEMMA NextCall ==
  ASSUME NEW now, Sending!NextRecipient(now)
  PROVE  \/ at' = "done" /\ UNCHANGED <<to, broken_send>>
         \/ at' = "request" /\ to' = to + 1 /\ broken_send' = 0
BY DEF Sending!NextRecipient

LEMMA RequestSafe ==
  ASSUME SendSafe, Sending!Request
  PROVE  SendSafe'
<1> SUFFICES ASSUME kind' = "voice"
             PROVE  CallsOK'
  BY DEF SendSafe
<1>1. kind = "voice" /\ CallsOK /\ at = "request"
  BY DEF Sending!Request, SendSafe
<1>2. \E o \in Sending!Outcomes : \E landed \in BOOLEAN : \E now : \E d :
        /\ landed => o \in Sending!MayLand
        /\ rung' = [rung EXCEPT ![to] = @ + (IF landed THEN 1 ELSE 0)]
        /\ Sending!Conclude(o, now, d)
  <2>1. PICK t \in Times, outcome \in Sending!Outcomes, advised \in Advised :
          LET over == elapsed + t >= Sending!Deadline \/ t >= Sending!ClientTimeout
              o    == IF over THEN "lost" ELSE outcome
              now  == (IF elapsed + t > Sending!Deadline THEN Sending!Deadline ELSE elapsed + t)
                      + (IF kind = "ntfy" /\ o = "lost" THEN Sending!Probe ELSE 0)
          IN  /\ \E landed \in {(o \in Sending!MustLand), (o \in Sending!MayLand)} :
                   rung' = [rung EXCEPT ![to] = @ + (IF landed THEN 1 ELSE 0)]
              /\ Sending!Conclude(o, now, Sending!Delay(kind, o, advised))
    BY DEF Sending!Request
  <2>2. PICK over : over = (elapsed + t >= Sending!Deadline \/ t >= Sending!ClientTimeout)
    OBVIOUS
  <2>3. PICK o : o = IF over THEN "lost" ELSE outcome
    OBVIOUS
  <2>4. o \in Sending!Outcomes /\ (o \in Sending!MustLand => o \in Sending!MayLand)
    BY <2>3 DEF Sending!Outcomes, Sending!MustLand, Sending!MayLand
  <2> QED
    BY <2>1, <2>2, <2>3, <2>4
<1>3. PICK o \in Sending!Outcomes : \E landed \in BOOLEAN : \E now : \E d :
        /\ landed => o \in Sending!MayLand
        /\ rung' = [rung EXCEPT ![to] = @ + (IF landed THEN 1 ELSE 0)]
        /\ Sending!Conclude(o, now, d)
  BY <1>2
<1>4. PICK landed \in BOOLEAN : \E now : \E d :
        /\ landed => o \in Sending!MayLand
        /\ rung' = [rung EXCEPT ![to] = @ + (IF landed THEN 1 ELSE 0)]
        /\ Sending!Conclude(o, now, d)
  BY <1>3
<1>5. PICK now : \E d :
        /\ landed => o \in Sending!MayLand
        /\ rung' = [rung EXCEPT ![to] = @ + (IF landed THEN 1 ELSE 0)]
        /\ Sending!Conclude(o, now, d)
  BY <1>4
<1>6. /\ landed => o \in Sending!MayLand
      /\ rung' = [rung EXCEPT ![to] = @ + (IF landed THEN 1 ELSE 0)]
      /\ \/ Sending!NextRecipient(now)
         \/ /\ Sending!Verdict(o) = "retry" /\ at' = "wait" /\ to' = to
            /\ broken_send' = broken_send + (IF o = "broken" THEN 1 ELSE 0)
  BY <1>5 DEF Sending!Conclude, Sending!GivesUp
<1>7. \A n \in DOMAIN rung : rung'[n] = IF n = to THEN rung[n] + (IF landed THEN 1 ELSE 0) ELSE rung[n]
  BY <1>1, <1>6 DEF CallsOK
<1>8. DOMAIN rung' = DOMAIN rung /\ rung' = [n \in DOMAIN rung |-> rung'[n]]
  BY <1>6
<1>9. ASSUME NEW n \in DOMAIN rung
      PROVE  rung'[n] \in 0 .. 2
  BY <1>1, <1>7, <1>9 DEF CallsOK
<1>10. rung' \in [DOMAIN rung' -> 0 .. 2] /\ DOMAIN rung' \subseteq Int
  BY <1>1, <1>8, <1>9 DEF CallsOK
<1>11. CASE Sending!NextRecipient(now)
  <2>1. \/ at' = "done" /\ UNCHANGED <<to, broken_send>>
        \/ at' = "request" /\ to' = to + 1 /\ broken_send' = 0
    BY <1>11, NextCall
  <2>2. ASSUME NEW n \in DOMAIN rung, n > to
        PROVE  rung'[n] = 0
    BY <1>1, <1>7, <2>2 DEF CallsOK
  <2>3. to \in Nat
    BY <1>1 DEF CallsOK
  <2>4. \A n \in DOMAIN rung : n > to + 1 => n > to
    BY <1>1, <2>3 DEF CallsOK
  <2>5. at' # "done" => \A n \in DOMAIN rung' :
          (n > to' => rung'[n] = 0) /\ (n = to' => rung'[n] <= broken_send')
    BY <1>1, <1>8, <2>1, <2>2, <2>3, <2>4 DEF CallsOK
  <2> QED
    BY <1>1, <1>10, <2>1, <2>3, <2>5 DEF CallsOK
<1>12. CASE /\ Sending!Verdict(o) = "retry" /\ at' = "wait" /\ to' = to
           /\ broken_send' = broken_send + (IF o = "broken" THEN 1 ELSE 0)
  <2>1. o = "limited" \/ (o = "broken" /\ broken_send = 0)
    BY <1>1, <1>12 DEF Sending!Verdict, Sending!Voice, Sending!MaxServerErrorRetries, CallsOK
  <2>2. o = "limited" => ~landed
    BY <1>6 DEF Sending!MayLand
  <2>3. broken_send' \in {0, 1} /\ to' \in Nat
    BY <1>1, <1>12, <2>1 DEF CallsOK
  <2>4. ASSUME NEW n \in DOMAIN rung
        PROVE  (n > to => rung'[n] = 0) /\ (n = to => rung'[n] <= broken_send')
    BY <1>1, <1>7, <1>12, <2>1, <2>2 DEF CallsOK
  <2> QED
    BY <1>8, <1>10, <1>12, <2>3, <2>4 DEF CallsOK
<1> QED
  BY <1>6, <1>11, <1>12

LEMMA SendNext == SendSafe /\ [Sending!Next]_(Sending!vars) => SendSafe'
<1> SUFFICES ASSUME SendSafe, [Sending!Next]_(Sending!vars)
             PROVE  SendSafe'
  OBVIOUS
<1>1. CASE Sending!Sleep
  BY <1>1 DEF Sending!Sleep, SendSafe, CallsOK
<1>2. CASE UNCHANGED Sending!vars
  BY <1>2 DEF Sending!vars, SendSafe, CallsOK
<1> QED
  BY <1>1, <1>2, RequestSafe DEF Sending!Next, Sending!Done

\* No telephone is rung more than twice for one alert, whatever Twilio answers and
\* however long it takes, for any number of recipients.
THEOREM RungAtMostTwiceSafe == Spec => []RungAtMostTwice
<1> DEFINE Safe == subject = "send" => SendSafe
<1>1. Init => Safe
  BY SendInit DEF Init
<1>2. Safe /\ [Next]_vars => Safe'
  BY StepsOfSubject, SendNext
<1>3. Safe => RungAtMostTwice
  <2> SUFFICES ASSUME Safe, subject = "send", kind = "voice", NEW n \in DOMAIN rung
               PROVE  rung[n] <= 2
    BY DEF RungAtMostTwice, Sending!RungAtMostTwice
  <2>1. rung[n] \in 0 .. 2
    BY DEF SendSafe, CallsOK
  <2> QED
    BY <2>1
<1> QED
  BY <1>1, <1>2, <1>3, PTL DEF Spec

-----------------------------------------------------------------------------
(* What a message carries (AlertText).                                     *)

Alerts ==
  [title : Lengths, entity : Lengths, body : Lengths, link : Links, marks : Text!Marks,
   repeat : Repeats, severity : Text!Severities, arrival : BOOLEAN, open : BOOLEAN]

\* A message is what one of the channels makes of the alert.
TextSafe ==
  /\ alert \in Alerts
  /\ sent \in {Text!Nothing, Text!Pushover(alert), Text!Ntfy(alert), Text!Email(alert),
               Text!Webhook(alert), Text!Voice(alert)}

LEMMA TextInit == Text!Init => TextSafe
BY DEF Text!Init, TextSafe, Alerts

LEMMA TextNext == TextSafe /\ [Text!Next]_(Text!vars) => TextSafe'
<1> SUFFICES ASSUME TextSafe, [Text!Next]_(Text!vars)
             PROVE  TextSafe'
  OBVIOUS
<1>1. alert' = alert
  BY DEF Text!Next, Text!Send, Text!vars
<1>2. \/ sent' = sent
      \/ sent' \in {Text!Pushover(alert), Text!Ntfy(alert), Text!Email(alert),
                    Text!Webhook(alert), Text!Voice(alert)}
  BY DEF Text!Next, Text!Send, Text!vars
<1>3. sent' \in {Text!Nothing, Text!Pushover(alert), Text!Ntfy(alert), Text!Email(alert),
                 Text!Webhook(alert), Text!Voice(alert)}
  BY <1>2 DEF TextSafe
<1> QED
  BY <1>1, <1>3 DEF TextSafe, Text!Nothing, Text!Pushover, Text!Ntfy, Text!Email, Text!Webhook, Text!Voice

\* What is cut is as short as it has to be, where the marker fits the limit.
LEMMA CutFits ==
  ASSUME NEW length \in Nat, NEW limit \in Nat, NEW marker \in Nat
  PROVE  Text!Cut(length, limit, marker) \in 0 .. limit
BY DEF Text!Cut, Text!Larger
LEMMA TextParts ==
  ASSUME alert \in Alerts
  PROVE  /\ Text!TitleOf(alert) \in Nat /\ Text!Body(alert) \in Nat
         /\ alert.link \in Nat /\ alert.repeat \in Nat /\ Text!Digits(alert.repeat) \in {1, 2}
<1>1. /\ alert.title \in Nat /\ alert.entity \in Nat /\ alert.body \in Nat
      /\ alert.link \in Nat /\ alert.repeat \in Nat
  BY TextAssumption DEF Alerts, TextAssumption
<1>2. Text!TitleOf(alert) \in Nat
  BY <1>1 DEF Text!TitleOf
<1>3. Text!WhenLine(alert) \in Nat
  BY <1>1 DEF Text!WhenLine
<1>4. Text!Body(alert) \in Nat
  BY <1>1, <1>3 DEF Text!Body
<1> QED
  BY <1>1, <1>2, <1>4 DEF Text!Digits

\* Pushover's message and title keep within its limits, and the link is carried
\* unless it would leave no room for the alert.
LEMMA PushoverWithinLimits ==
  ASSUME alert \in Alerts
  PROVE  /\ Text!Pushover(alert).link
              = (alert.link > 0 /\ alert.link <= Text!MaxMessage - Text!MinBody - 15)
         /\ Text!Pushover(alert).message <= Text!MaxMessage
         /\ Text!Pushover(alert).title.length <= Text!MaxTitle
<1> PICK field \in BOOLEAN : field <=> alert.link > 0 /\ alert.link <= Text!MaxURL
  BY TextParts
<1> PICK trailer : trailer = IF field THEN 0 ELSE Text!AckTrailer(alert)
  OBVIOUS
<1> PICK marker : marker = IF alert.repeat > 0 THEN 12 + Text!Digits(alert.repeat) ELSE 0
  OBVIOUS
<1> PICK told : told = Text!Cut(Text!Body(alert), Text!MaxMessage - trailer, Text!PushoverMarker)
  OBVIOUS
<1> PICK head : head = Text!Cut(Text!TitleOf(alert), Text!MaxTitle - marker, Text!PushoverMarker)
  OBVIOUS
<1>1. /\ Text!Pushover(alert).link = (field \/ trailer > 0)
      /\ Text!Pushover(alert).message = told + trailer
      /\ Text!Pushover(alert).title.length = head + marker
  BY DEF Text!Pushover, Text!PushoverTitle
<1>2. trailer \in 0 .. (Text!MaxMessage - Text!MinBody)
  BY SMTT(30), TextParts DEF Text!AckTrailer, Text!MaxMessage, Text!MinBody
<1>3. field \/ trailer > 0 <=> alert.link > 0 /\ alert.link <= Text!MaxMessage - Text!MinBody - 15
  <2>1. alert.link \in Nat
    BY TextParts
  <2>2. field <=> alert.link > 0 /\ alert.link <= 512
    BY DEF Text!MaxURL
  <2>3. trailer = IF field \/ alert.link = 0 \/ alert.link + 15 > 944 THEN 0 ELSE alert.link + 15
    BY <2>1 DEF Text!AckTrailer, Text!MaxMessage, Text!MinBody
  <2>4. Text!MaxMessage - Text!MinBody - 15 = 929
    BY DEF Text!MaxMessage, Text!MinBody
  <2>5. CASE field = TRUE
    BY <2>1, <2>2, <2>4, <2>5
  <2>6. CASE field = FALSE
    <3>1. alert.link = 0 \/ alert.link > 512
      BY <2>1, <2>2, <2>6
    <3>2. trailer > 0 <=> alert.link > 0 /\ alert.link <= 929
      BY <2>1, <2>3, <2>6, <3>1
    <3> QED
      BY <2>4, <2>6, <3>2
  <2> QED
    BY <2>5, <2>6
<1>4. told \in 0 .. (Text!MaxMessage - trailer)
  <2>1. Text!MaxMessage - trailer \in Nat /\ Text!PushoverMarker \in Nat
    BY <1>2 DEF Text!MaxMessage, Text!MinBody, Text!PushoverMarker
  <2> QED
    BY <2>1, TextParts, CutFits
<1>5. marker \in 0 .. 14
  BY TextParts
<1>6. head \in 0 .. (Text!MaxTitle - marker)
  <2>1. Text!MaxTitle - marker \in Nat /\ Text!PushoverMarker \in Nat
    BY <1>5 DEF Text!MaxTitle, Text!PushoverMarker
  <2> QED
    BY <2>1, TextParts, CutFits
<1>7. told + trailer <= Text!MaxMessage
  BY <1>2, <1>4 DEF Text!MaxMessage, Text!MinBody
<1>8. head + marker <= Text!MaxTitle
  BY <1>5, <1>6 DEF Text!MaxTitle
<1> QED
  BY <1>1, <1>3, <1>7, <1>8

\* A message carries the whole link or none, and a link is left out only where it
\* would leave no room for the alert, whatever is long.
THEOREM LinkWithinLimitsSafe == Spec => []LinkWithinLimits
<1> DEFINE Safe == subject = "text" => TextSafe
<1>1. Init => Safe
  BY TextInit DEF Init
<1>2. Safe /\ [Next]_vars => Safe'
  BY StepsOfSubject, TextNext
<1>3. Safe => LinkWithinLimits
  <2> SUFFICES ASSUME TextSafe, sent.channel \in {"pushover", "ntfy", "email", "webhook"}
               PROVE  Text!LinkWithinLimits
    BY DEF LinkWithinLimits, Text!LinkWithinLimits
  <2>1. CASE sent = Text!Pushover(alert)
    <3>1. sent.channel = "pushover"
      BY <2>1 DEF Text!Pushover
    <3> QED
      BY <2>1, <3>1, PushoverWithinLimits DEF Text!LinkWithinLimits, TextSafe
  <2>2. CASE sent \in {Text!Ntfy(alert), Text!Email(alert), Text!Webhook(alert)}
    <3>1. sent.channel # "pushover" /\ sent.link = (alert.link > 0)
      BY <2>2 DEF Text!Ntfy, Text!Email, Text!Webhook
    <3> QED
      BY <3>1 DEF Text!LinkWithinLimits
  <2>3. sent \notin {Text!Nothing, Text!Voice(alert)}
    BY DEF Text!Nothing, Text!Voice
  <2> QED
    BY <2>1, <2>2, <2>3 DEF TextSafe
<1> QED
  BY <1>1, <1>2, <1>3, PTL DEF Spec

-----------------------------------------------------------------------------
(* The intervals of the site that are stored (SiteActivity).               *)

\* Multiples of a width are a width apart.
LEMMA MultiplesApart ==
  ASSUME NEW w \in Nat \ {0}, NEW a \in Int, NEW b \in Int, a % w = 0, b % w = 0, a < b
  PROVE  a + w <= b
<1>1. PICK x \in Int : a = x * w
  <2>1. a \div w \in Int /\ a = (a \div w) * w + (a % w)
    OBVIOUS
  <2> QED
    BY <2>1
<1>2. PICK y \in Int : b = y * w
  <2>1. b \div w \in Int /\ b = (b \div w) * w + (b % w)
    OBVIOUS
  <2> QED
    BY <2>1
<1>3. x * w < y * w
  BY <1>1, <1>2
<1>4. x + 1 <= y
  BY <1>3
<1>5. x * w + w <= y * w
  BY <1>4
<1> QED
  BY <1>1, <1>2, <1>5

\* An instant lies in the interval it is floored to.
LEMMA InInterval ==
  ASSUME NEW t \in Int
  PROVE  /\ Activity!Floor(t) \in Int /\ Activity!Floor(t) % Width = 0
         /\ Activity!Floor(t) <= t /\ t < Activity!Floor(t) + Width
<1>1. Width \in Nat \ {0}
  BY ActivityAssumption DEF ActivityAssumption
<1>2. t \div Width \in Int /\ (t \div Width) * Width \in Int
  BY <1>1
<1>3. t = (t \div Width) * Width + (t % Width) /\ t % Width \in 0 .. (Width - 1)
  BY <1>1
<1>4. ((t \div Width) * Width) % Width = 0
  BY <1>1
<1> DEFINE f == (t \div Width) * Width
<1>5. f \in Int /\ t = f + (t % Width) /\ t % Width \in 0 .. (Width - 1)
  BY <1>2, <1>3
<1>6. f <= t /\ t < f + Width
  <2> HIDE DEF f
  <2> QED
    BY <1>1, <1>5
<1> QED
  BY <1>4, <1>5, <1>6 DEF Activity!Floor

\* The first instant of an open interval that this program ran in.
First(r) == IF r.partial THEN r.openedAt[1] ELSE r.start

\* What is open was watched up to the present, except what came before it was opened.
IntervalOK(r) ==
  /\ r = [watching |-> TRUE, start |-> r.start, openedAt |-> r.openedAt, events |-> r.events,
          keys |-> r.keys, wasBlind |-> r.wasBlind, partial |-> r.partial]
  /\ r.start \in Int /\ r.start % Width = 0 /\ r.partial \in BOOLEAN
  /\ r.openedAt[1] \in Int
  /\ r.partial => r.openedAt[1] < r.start + Width
  /\ First(r) .. (wall - 1) \subseteq watched

WholeRow(t) == t .. (t + Width - 1) \subseteq watched

ActivitySafe ==
  /\ wall \in Int
  /\ rec = Activity!Asleep \/ IntervalOK(rec)
  /\ \A t \in DOMAIN stored : WholeRow(t)

\* Events carry the time they are received at, and the clock is only set back.
Timely == (\A o \in Offsets : o = 0) /\ \A d \in Jumps : d \in Int /\ d <= 0

LEMMA ActivityInit == Activity!Init => ActivitySafe
BY ActivityAssumption DEF Activity!Init, ActivitySafe, ActivityAssumption

\* An interval just opened.
JustOpened(r, s, late) ==
  /\ r = [watching |-> TRUE, start |-> r.start, openedAt |-> r.openedAt, events |-> r.events,
          keys |-> r.keys, wasBlind |-> r.wasBlind, partial |-> r.partial]
  /\ r.start = s /\ r.openedAt[1] = wall /\ r.partial = late

LEMMA Opened ==
  ASSUME NEW s, NEW late, NEW r, r = Activity!Open(s, late)
  PROVE  JustOpened(r, s, late)
<1>1. r = [watching |-> TRUE, start |-> s, openedAt |-> <<wall, mono>>, events |-> 0,
           keys |-> {}, wasBlind |-> blind, partial |-> late]
  BY DEF Activity!Open
<1>2. r.start = s /\ r.openedAt = <<wall, mono>> /\ r.partial = late
  BY <1>1
<1>3. r.events = 0 /\ r.keys = {} /\ r.wasBlind = blind
  BY <1>1
<1> QED
  BY <1>1, <1>2, <1>3 DEF JustOpened

\* The interval the present is in, opened now: partial if it had begun.
LEMMA OpenedNow ==
  ASSUME wall \in Int, NEW r, r = Activity!Open(Activity!Floor(wall), wall > Activity!Floor(wall))
  PROVE  IntervalOK(r)
<1> PICK s : s = Activity!Floor(wall)
  OBVIOUS
<1> PICK late : late = (wall > s)
  OBVIOUS
<1>1. s \in Int /\ s % Width = 0 /\ s <= wall /\ wall < s + Width
  BY InInterval
<1>2. late \in BOOLEAN /\ (late <=> wall > s)
  <2>1. (wall > s) \in BOOLEAN
    BY <1>1
  <2> QED
    BY <2>1
<1>3. r = Activity!Open(s, late)
  OBVIOUS
<1>4. JustOpened(r, s, late)
  BY <1>3, Opened, Zenon
<1>5. /\ r = [watching |-> TRUE, start |-> r.start, openedAt |-> r.openedAt, events |-> r.events,
              keys |-> r.keys, wasBlind |-> r.wasBlind, partial |-> r.partial]
      /\ r.start = s /\ r.openedAt[1] = wall
  BY <1>4, Zenon DEF JustOpened
<1>6. r.partial = late
  BY <1>4 DEF JustOpened
<1>7. First(r) = wall
  BY <1>1, <1>2, <1>5, <1>6 DEF First
<1>8. First(r) .. (wall - 1) \subseteq watched
  BY <1>7
<1>9. r.start \in Int /\ r.start % Width = 0 /\ r.partial \in BOOLEAN /\ r.openedAt[1] \in Int
      /\ r.openedAt[1] < r.start + Width
  BY <1>1, <1>2, <1>5, <1>6
<1> QED
  BY <1>5, <1>8, <1>9 DEF IntervalOK

\* The next interval, opened in an instant that was watched since it began.
LEMMA OpenedNext ==
  ASSUME wall \in Int, NEW s \in Int, s % Width = 0, s .. (wall - 1) \subseteq watched,
         NEW r, r = Activity!Open(s, FALSE)
  PROVE  IntervalOK(r)
<1> PICK late : late = FALSE
  OBVIOUS
<1>1. r = Activity!Open(s, late)
  OBVIOUS
<1>2. JustOpened(r, s, late)
  BY <1>1, Opened, Zenon
<1>3. /\ r = [watching |-> TRUE, start |-> r.start, openedAt |-> r.openedAt, events |-> r.events,
              keys |-> r.keys, wasBlind |-> r.wasBlind, partial |-> r.partial]
      /\ r.start = s /\ r.openedAt[1] = wall
  BY <1>2, Zenon DEF JustOpened
<1>4. r.partial = FALSE
  BY <1>2 DEF JustOpened
<1> QED
  BY <1>3, <1>4 DEF IntervalOK, First

\* Rolling to the interval of the present writes only what was watched, and opens
\* an interval that was watched since it began.
LEMMA RollSafe ==
  ASSUME wall \in Int, NEW r, IntervalOK(r), NEW s, s = Activity!Floor(wall), r.start < s
  PROVE  /\ s .. (wall - 1) \subseteq watched
         /\ \A t \in DOMAIN Activity!Rows(r, s) : WholeRow(t)
<1>1. s \in Int /\ s % Width = 0 /\ s <= wall
  BY InInterval
<1>2. r.start \in Int /\ r.start % Width = 0 /\ Width \in Nat \ {0}
  BY ActivityAssumption DEF ActivityAssumption, IntervalOK
<1>3. r.start + Width <= s
  BY <1>1, <1>2, MultiplesApart
<1>4. First(r) \in Int /\ First(r) <= r.start + Width /\ First(r) .. (wall - 1) \subseteq watched
  BY <1>2 DEF IntervalOK, First
<1>5. First(r) <= s
  BY <1>1, <1>2, <1>3, <1>4
<1>6. s .. (wall - 1) \subseteq watched
  BY <1>1, <1>4, <1>5
<1>7. ASSUME NEW t \in DOMAIN Activity!Rows(r, s)
      PROVE  WholeRow(t)
  <2>1. \/ t = r.start /\ ~r.partial
        \/ t \in (r.start + 1) .. (s - 1) /\ t % Width = 0
    BY DEF Activity!Rows
  <2>2. CASE t = r.start /\ ~r.partial
    <3>1. First(r) = t
      BY <2>2 DEF First
    <3> QED
      BY <1>1, <1>2, <1>3, <1>4, <2>2, <3>1 DEF WholeRow
  <2>3. CASE t \in (r.start + 1) .. (s - 1) /\ t % Width = 0
    <3>1. r.start + Width <= t /\ t + Width <= s /\ t \in Int
      BY <1>1, <1>2, <2>3, MultiplesApart
    <3> QED
      BY <1>1, <1>2, <1>4, <3>1 DEF WholeRow
  <2> QED
    BY <2>1, <2>2, <2>3
<1> QED
  BY <1>6, <1>7

\* What is stored was stored before or is a row that was put.
LEMMA StoreSafe ==
  ASSUME NEW rows_, \A t \in DOMAIN rows_ : WholeRow(t), Activity!Store(rows_),
         \A t \in DOMAIN stored : WholeRow(t)
  PROVE  \A t \in DOMAIN stored' : WholeRow(t)
<1>1. PICK lost \in SUBSET DOMAIN rows_ : Activity!Put([t \in DOMAIN rows_ \ lost |-> rows_[t]])
  BY DEF Activity!Store
<1> PICK put : put = [t \in DOMAIN rows_ \ lost |-> rows_[t]]
  OBVIOUS
<1>2. DOMAIN put \subseteq DOMAIN rows_ /\ Activity!Put(put)
  BY <1>1
<1>3. DOMAIN stored' \subseteq DOMAIN stored \cup DOMAIN put
  BY <1>2 DEF Activity!Put
<1> QED
  BY <1>2, <1>3

\* What a roll leaves open and what it stores.
LEMMA RolledSafe ==
  ASSUME wall \in Int, NEW r, IntervalOK(r), NEW s, s = Activity!Floor(wall),
         Activity!Store(Activity!Written(r, s)), \A t \in DOMAIN stored : WholeRow(t)
  PROVE  IntervalOK(Activity!Rolled(r, s)) /\ \A t \in DOMAIN stored' : WholeRow(t)
<1> PICK rows_ : rows_ = Activity!Written(r, s)
  OBVIOUS
<1>1. s \in Int /\ s % Width = 0 /\ r.start \in Int
  BY InInterval DEF IntervalOK
<1>2. CASE s > r.start
  <2>1. s .. (wall - 1) \subseteq watched /\ \A t \in DOMAIN rows_ : WholeRow(t)
    BY <1>1, <1>2, RollSafe DEF Activity!Written
  <2>2. IntervalOK(Activity!Rolled(r, s))
    BY <1>1, <1>2, <2>1, OpenedNext DEF Activity!Rolled
  <2> QED
    BY <2>1, <2>2, StoreSafe
<1>3. CASE ~(s > r.start)
  <2>1. rows_ = << >> /\ Activity!Rolled(r, s) = r
    BY <1>3 DEF Activity!Written, Activity!Rolled
  <2>2. \A t \in DOMAIN rows_ : WholeRow(t)
    BY <2>1
  <2> QED
    BY <2>1, <2>2, StoreSafe
<1> QED
  BY <1>2, <1>3

\* An interval that counts something more is the interval it was.
LEMMA SameInterval ==
  ASSUME NEW r, IntervalOK(r), NEW n, NEW ks, NEW b, NEW q,
         q = [watching |-> TRUE, start |-> r.start, openedAt |-> r.openedAt, events |-> n,
              keys |-> ks, wasBlind |-> b, partial |-> r.partial]
  PROVE  IntervalOK(q)
<1>1. q.start = r.start /\ q.openedAt = r.openedAt /\ q.partial = r.partial
      /\ q.events = n /\ q.keys = ks /\ q.wasBlind = b
  OBVIOUS
<1>2. q = [watching |-> TRUE, start |-> q.start, openedAt |-> q.openedAt, events |-> q.events,
           keys |-> q.keys, wasBlind |-> q.wasBlind, partial |-> q.partial]
  BY <1>1
<1> QED
  BY <1>1, <1>2 DEF IntervalOK, First

LEMMA Counted ==
  ASSUME NEW r, IntervalOK(r), NEW n, NEW ks, NEW b, NEW q,
         q = [r EXCEPT !.events = n, !.keys = ks, !.wasBlind = b]
  PROVE  IntervalOK(q)
<1> PICK st, op, n0, k0, b0, late :
       r = [watching |-> TRUE, start |-> st, openedAt |-> op, events |-> n0, keys |-> k0,
            wasBlind |-> b0, partial |-> late]
  BY Zenon DEF IntervalOK
<1>1. q = [watching |-> TRUE, start |-> st, openedAt |-> op, events |-> n, keys |-> ks,
           wasBlind |-> b, partial |-> late]
  OBVIOUS
<1>2. q = [watching |-> TRUE, start |-> r.start, openedAt |-> r.openedAt, events |-> n,
           keys |-> ks, wasBlind |-> b, partial |-> r.partial]
  BY <1>1
<1> QED
  BY <1>2, SameInterval, Zenon

LEMMA CountedBlind ==
  ASSUME NEW r, IntervalOK(r), NEW b, NEW q, q = [r EXCEPT !.wasBlind = b]
  PROVE  IntervalOK(q)
<1> PICK st, op, n, ks, b0, late :
       r = [watching |-> TRUE, start |-> st, openedAt |-> op, events |-> n, keys |-> ks,
            wasBlind |-> b0, partial |-> late]
  BY Zenon DEF IntervalOK
<1>1. q = [watching |-> TRUE, start |-> st, openedAt |-> op, events |-> n, keys |-> ks,
           wasBlind |-> b, partial |-> late]
  OBVIOUS
<1>2. q = [watching |-> TRUE, start |-> r.start, openedAt |-> r.openedAt, events |-> n,
           keys |-> ks, wasBlind |-> b, partial |-> r.partial]
  BY <1>1
<1> QED
  BY <1>2, SameInterval, Zenon

\* The interval that is open when an event or the timer comes, opened then if none was.
LEMMA WatchingNow ==
  ASSUME ActivitySafe, NEW r, r = Activity!Watching(Activity!Floor(wall))
  PROVE  IntervalOK(r)
<1>1. CASE rec.watching
  <2>1. rec # Activity!Asleep
    BY <1>1 DEF Activity!Asleep
  <2> QED
    BY <1>1, <2>1 DEF ActivitySafe, Activity!Watching
<1>2. CASE ~rec.watching
  BY <1>2, OpenedNow DEF ActivitySafe, Activity!Watching
<1> QED
  BY <1>1, <1>2

LEMMA SplitRange ==
  ASSUME NEW f \in Int, NEW m \in Int, NEW n \in Int, NEW t \in f .. (n - 1)
  PROVE  t \in f .. (m - 1) \/ t \in m .. (n - 1)
OBVIOUS

\* Whatever the clock says next, what was watched stays so.
LEMMA StillWatched ==
  ASSUME ActivitySafe, UNCHANGED <<rec, stored>>, wall' \in Int,
         watched \subseteq watched', \A t \in wall .. (wall' - 1) : t \in watched'
  PROVE  ActivitySafe'
<1>1. \A t \in DOMAIN stored' : WholeRow(t)'
  BY DEF ActivitySafe, WholeRow
<1>2. ASSUME IntervalOK(rec)
      PROVE  IntervalOK(rec)'
  <2>1. First(rec) .. (wall - 1) \subseteq watched /\ wall \in Int
    BY <1>2 DEF IntervalOK, ActivitySafe
  <2>2. First(rec) \in Int
    BY <1>2 DEF IntervalOK, First
  <2> PICK f : f = First(rec)
    OBVIOUS
  <2>3. f \in Int /\ wall \in Int /\ f .. (wall - 1) \subseteq watched
    BY <2>1, <2>2
  <2>4. ASSUME NEW t \in f .. (wall' - 1)
        PROVE  t \in watched'
    <3>1. t \in f .. (wall - 1) \/ t \in wall .. (wall' - 1)
      BY <2>3, SplitRange, Zenon
    <3> QED
      BY <2>3, <3>1
  <2> QED
    BY <1>2, <2>4 DEF IntervalOK, First
<1> QED
  BY <1>1, <1>2 DEF ActivitySafe, Activity!Asleep

LEMMA ActivityNext ==
  ASSUME Timely, ActivitySafe, [Activity!Next]_(Activity!vars)
  PROVE  ActivitySafe'
<1> USE DEF ActivitySafe
<1>1. CASE Activity!Elapse
  BY <1>1, StillWatched DEF Activity!Elapse
<1>2. CASE \E d \in Jumps : Activity!SetClock(d)
  <2> PICK d \in Jumps : Activity!SetClock(d)
    BY <1>2
  <2>1. d \in Int /\ d <= 0
    BY DEF Timely
  <2> QED
    BY <2>1, StillWatched DEF Activity!SetClock, Activity!ghosts
<1>3. CASE Activity!Turn
  BY <1>3, StillWatched DEF Activity!Turn
<1>4. CASE Activity!Tick
  <2>1. wall' = wall /\ watched' = watched
    BY <1>4 DEF Activity!Tick
  <2>2. IntervalOK(rec') /\ \A t \in DOMAIN stored' : WholeRow(t)
    <3>1. CASE ~rec.watching
      BY <1>4, <3>1, WatchingNow DEF Activity!Tick
    <3>2. CASE rec.watching
      <4>1. IntervalOK(rec)
        BY <3>2 DEF Activity!Asleep
      <4> PICK b : b = (rec.wasBlind \/ blind)
        OBVIOUS
      <4> PICK r : r = [rec EXCEPT !.wasBlind = b]
        OBVIOUS
      <4>2. IntervalOK(r)
        BY <4>1, CountedBlind, Zenon
      <4>3. rec' = Activity!Rolled(r, Activity!Floor(wall))
            /\ Activity!Store(Activity!Written(r, Activity!Floor(wall)))
        BY <1>4, <3>2 DEF Activity!Tick
      <4> QED
        BY <4>2, <4>3, RolledSafe
    <3> QED
      BY <3>1, <3>2
  <2> QED
    BY <2>1, <2>2 DEF IntervalOK, First, WholeRow
<1>5. CASE \E k \in Keys, o \in Offsets : wall + o >= 0 /\ Activity!Observe(k, wall + o)
  <2>1. PICK k \in Keys, o \in Offsets : Activity!Observe(k, wall + o)
    BY <1>5
  <2>2. Activity!Observe(k, wall)
    BY <2>1 DEF Timely
  <2>3. wall' = wall /\ watched' = watched
    BY <2>2 DEF Activity!Observe
  <2> PICK s : s = Activity!Floor(wall)
    OBVIOUS
  <2> PICK r : r = Activity!Watching(s)
    OBVIOUS
  <2>4. IntervalOK(r)
    BY WatchingNow
  <2>5. IntervalOK(rec') /\ \A t \in DOMAIN stored' : WholeRow(t)
    <3>1. CASE s < r.start
      BY <2>2, <2>4, <3>1 DEF Activity!Observe
    <3>2. CASE ~(s < r.start)
      <4> PICK q : q = Activity!Rolled(r, s)
        OBVIOUS
      <4>1. /\ rec' = [q EXCEPT !.events = @ + 1, !.keys = @ \cup {k}, !.wasBlind = @ \/ blind]
            /\ Activity!Store(Activity!Written(r, s))
        BY <2>2, <3>2 DEF Activity!Observe
      <4>2. IntervalOK(q) /\ \A t \in DOMAIN stored' : WholeRow(t)
        BY <2>4, <4>1, RolledSafe
      <4> PICK n : n = q.events + 1
        OBVIOUS
      <4> PICK ks : ks = q.keys \cup {k}
        OBVIOUS
      <4> PICK b : b = (q.wasBlind \/ blind)
        OBVIOUS
      <4>3. rec' = [q EXCEPT !.events = n, !.keys = ks, !.wasBlind = b]
        BY <4>1
      <4> QED
        BY ZenonT(60), <4>2, <4>3, Counted
    <3> QED
      BY <3>1, <3>2
  <2> QED
    BY <2>3, <2>5 DEF IntervalOK, First, WholeRow
<1>6. CASE \E d \in 0 .. Width : Activity!Restart(d)
  BY <1>6 DEF Activity!Restart, Activity!ghosts, WholeRow
<1>7. CASE UNCHANGED Activity!vars
  BY <1>7, StillWatched DEF Activity!vars
<1> QED
  BY <1>1, <1>2, <1>3, <1>4, <1>5, <1>6, <1>7 DEF Activity!Next

\* While every event carries the time it is received at and the clock is never set
\* forward, a row is stored only of an interval this program watched from its first
\* instant to its last, whatever goes silent, is refused or restarts.
THEOREM WrittenWasWatchedSafe == Timely => (Spec => []WrittenWasWatched)
<1> DEFINE Safe == Timely /\ (subject = "activity" => ActivitySafe)
<1>1. Timely /\ Init => Safe
  BY ActivityInit DEF Init
<1>2. Safe /\ [Next]_vars => Safe'
  <2> SUFFICES ASSUME Safe, [Next]_vars
               PROVE  (subject = "activity" => ActivitySafe)'
    BY DEF Timely
  <2> QED
    BY StepsOfSubject, ActivityNext
<1>3. Safe => WrittenWasWatched
  BY DEF WrittenWasWatched, Activity!WrittenWasWatched, ActivitySafe, WholeRow
<1> QED
  BY <1>1, <1>2, <1>3, PTL DEF Spec

-----------------------------------------------------------------------------
(* The address alerts link to (AckReach).                                  *)

PageAddress == [host : {"", "all", "loopback", "lan", "public"}, port : Int]

\* Settings that are valid, with a listener of their own for the page or not.
ValidWeb(w) ==
  /\ w = [main |-> w.main, ack |-> w.ack, url |-> w.url]
  /\ w.main \in Listens /\ w.ack \in PageAddress /\ w.url \in Urls
  /\ Reach!WebProblems(w) = {}

\* Every configuration is valid, and no listener is bound to a port still to be picked.
ReachSafe ==
  /\ ValidWeb(file_reach) /\ ValidWeb(current_reach) /\ ValidWeb(draft)
  /\ picked \in PageAddress /\ picked.host # "public" /\ picked.port # Reach!Auto
  /\ bound = [main |-> bound.main, ack |-> bound.ack] /\ bound.ack.port # Reach!Auto

LEMMA ValidSettings ==
  ASSUME NEW w \in Reach!Settings, Reach!WebProblems(w) = {}
  PROVE  ValidWeb(w)
BY AddressAssumption DEF AddressAssumption, PageAddress, Reach!Settings, ValidWeb

LEMMA NoProblems ==
  ASSUME NEW w
  PROVE  Reach!WebProblems(w) = {}
         <=> /\ w.main.host # "public" /\ w.url.host # "loopback" /\ w.url.scheme # "other"
             /\ Reach!Scoped(w) => w.ack.host # "public"
BY DEF Reach!WebProblems, Reach!ListenHostProblem

LEMMA NotAuto == \A p \in Nat : p # Reach!Auto
BY DEF Reach!Auto

\* No address is an address that a listener may be bound to.
LEMMA UnsetAddress ==
  /\ Reach!Unset \in PageAddress /\ Reach!Unset.host # "public"
  /\ Reach!Unset.port = 0 /\ Reach!Unset.port # Reach!Auto
  /\ Reach!Nothing.ack = Reach!Unset
  /\ Reach!Nothing = [main |-> Reach!Nothing.main, ack |-> Reach!Nothing.ack]
<1>1. Reach!Unset.host = "" /\ Reach!Unset.port = 0
  BY DEF Reach!Unset
<1>4. Reach!Unset \in PageAddress
  BY DEF Reach!Unset, PageAddress
<1>2. Reach!Nothing.ack = Reach!Unset
      /\ Reach!Nothing = [main |-> Reach!Nothing.main, ack |-> Reach!Nothing.ack]
  BY DEF Reach!Nothing
<1>3. Reach!Auto # 0
  BY DEF Reach!Auto
<1> QED
  BY <1>1, <1>2, <1>3, <1>4

LEMMA ReachInit == Reach!Init => ReachSafe
<1> SUFFICES ASSUME Reach!Init PROVE ReachSafe
  OBVIOUS
<1>1. ValidWeb(file_reach) /\ ValidWeb(current_reach) /\ ValidWeb(draft)
  BY ValidSettings DEF Reach!Init
<1>2. picked = Reach!Unset /\ bound = Reach!Nothing
  BY DEF Reach!Init
<1> QED
  BY <1>1, <1>2, UnsetAddress DEF ReachSafe

LEMMA ReachNext ==
  ASSUME ReachSafe, [Reach!Next]_(Reach!vars)
  PROVE  ReachSafe'
<1> USE UnsetAddress DEF ReachSafe
<1>1. CASE \E w \in Reach!Settings : Reach!Edit(w)
  <2> PICK w \in Reach!Settings : Reach!Edit(w)
    BY <1>1
  <2>1. ValidWeb(w)
    BY ValidSettings DEF Reach!Edit, ValidWeb
  <2> QED
    BY <2>1 DEF Reach!Edit
<1>2. CASE Reach!Start
  BY <1>2 DEF Reach!Start
<1>3. CASE Reach!ResolveAckListen
  <2>1. UNCHANGED <<file_reach, current_reach, draft>>
    BY <1>3 DEF Reach!ResolveAckListen
  <2>2. CASE ~Reach!Scoped(draft)
    BY <1>3, <2>1, <2>2 DEF Reach!ResolveAckListen
  <2>3. CASE Reach!Scoped(draft) /\ ~Reach!WantsRandom(draft.ack)
    <3>1. Reach!AsWritten(draft.ack) /\ UNCHANGED picked
      BY <1>3, <2>3 DEF Reach!ResolveAckListen
    <3>2. bound' = [bound EXCEPT !.ack = draft.ack] \/ bound' = Reach!Nothing
      BY <3>1 DEF Reach!AsWritten
    <3> QED
      BY <2>1, <2>3, <3>1, <3>2 DEF Reach!WantsRandom
  <2>4. CASE Reach!Scoped(draft) /\ Reach!WantsRandom(draft.ack)
    <3>1. Reach!PickOne(draft.ack)
      BY <1>3, <2>4 DEF Reach!ResolveAckListen
    <3>2. CASE bound' = Reach!Nothing /\ UNCHANGED picked
      BY <2>1, <3>2
    <3>3. CASE \E p \in Reach!Ephemeral : /\ picked' = [draft.ack EXCEPT !.port = p]
                                          /\ bound' = [bound EXCEPT !.ack = picked']
      <4> PICK p \in Reach!Ephemeral : /\ picked' = [draft.ack EXCEPT !.port = p]
                                       /\ bound' = [bound EXCEPT !.ack = picked']
        BY <3>3
      <4> PICK a : a = draft.ack
        OBVIOUS
      <4> PICK q : q = [a EXCEPT !.port = p]
        OBVIOUS
      <4>1. a \in PageAddress /\ a.host # "public"
        BY <2>4, NoProblems DEF ValidWeb
      <4>2. p \in Int /\ p # Reach!Auto
        BY DEF Reach!Ephemeral, Reach!Auto
      <4>3. q \in PageAddress /\ q.host = a.host /\ q.port = p
        BY <4>1, <4>2 DEF PageAddress
      <4>4. picked' = q /\ bound' = [bound EXCEPT !.ack = q]
        OBVIOUS
      <4>5. bound' = [main |-> bound.main, ack |-> q]
        BY <4>4
      <4> QED
        BY <2>1, <4>1, <4>2, <4>3, <4>4, <4>5
    <3> QED
      BY <3>1, <3>2, <3>3 DEF Reach!PickOne
  <2> QED
    BY <2>2, <2>3, <2>4
<1>4. CASE Reach!CopyCurrent
  <2>1. draft' = [current_reach EXCEPT !.ack = picked]
        /\ UNCHANGED <<file_reach, current_reach, picked, bound>>
    BY <1>4 DEF Reach!CopyCurrent
  <2> PICK w : w = current_reach
    OBVIOUS
  <2> PICK d : d = [w EXCEPT !.ack = picked]
    OBVIOUS
  <2>2. ValidWeb(d)
    <3>1. ValidWeb(w)
      OBVIOUS
    <3> PICK m, a, u : w = [main |-> m, ack |-> a, url |-> u]
      BY <3>1, Zenon DEF ValidWeb
    <3>2. d = [main |-> m, ack |-> picked, url |-> u]
      OBVIOUS
    <3>3. d.main = w.main /\ d.ack = picked /\ d.url = w.url
      BY <3>2
    <3>4. d = [main |-> d.main, ack |-> d.ack, url |-> d.url]
      BY <3>2
    <3> QED
      BY <3>1, <3>3, <3>4, NoProblems DEF ValidWeb
  <2> QED
    BY <2>1, <2>2
<1>5. CASE Reach!Pin
  BY <1>5 DEF Reach!Pin
<1>6. CASE Reach!Crash
  BY <1>6 DEF Reach!Crash
<1>7. CASE \E p \in Reach!Ephemeral : Reach!Others(p)
  BY <1>7 DEF Reach!Others
<1>8. CASE UNCHANGED Reach!vars
  BY <1>8 DEF Reach!vars
<1> QED
  BY <1>1, <1>2, <1>3, <1>4, <1>5, <1>6, <1>7, <1>8 DEF Reach!Next

\* What is not warned of is not so.
LEMMA Unwarned ==
  ASSUME NEW w, Reach!ExposureWarnings(w) = {}
  PROVE  /\ w.url # Reach!NoUrl
         /\ ~(Reach!Scoped(w) /\ Reach!Loopback(w.ack))
         /\ ~(/\ w.url # Reach!NoUrl /\ w.url.host # "loopback"
              /\ Reach!Loopback(w.main) /\ (Reach!Scoped(w) => Reach!Loopback(w.ack)))
         /\ ~Reach!AckPortProblem(w)
<1> PICK unset : unset = (w.url = Reach!NoUrl)
  OBVIOUS
<1> PICK unscoped : unscoped = (Reach!Public(w) /\ ~Reach!Scoped(w) /\ Reach!EveryInterface(w.main))
  OBVIOUS
<1> PICK readable : readable = (Reach!Public(w) /\ w.url.scheme = "http")
  OBVIOUS
<1> PICK plain : plain = Reach!HttpsAtOurPort(w)
  OBVIOUS
<1> PICK same_ : same_ = (Reach!Scoped(w) /\ w.ack = w.main)
  OBVIOUS
<1> PICK unheard : unheard = (/\ w.url # Reach!NoUrl /\ w.url.host # "loopback"
                              /\ Reach!Loopback(w.main)
                              /\ (Reach!Scoped(w) => Reach!Loopback(w.ack)))
  OBVIOUS
<1> PICK noPort : noPort = Reach!AckPortProblem(w)
  OBVIOUS
<1> PICK unforwardable : unforwardable = (Reach!Scoped(w) /\ Reach!Loopback(w.ack))
  OBVIOUS
<1> PICK said : said = [unset |-> unset, unscoped |-> unscoped, readable |-> readable,
                        plain |-> plain, same |-> same_, unheard |-> unheard,
                        noPort |-> noPort, unforwardable |-> unforwardable]
  OBVIOUS
<1>1. {k \in DOMAIN said : said[k]} = {}
  BY Zenon DEF Reach!ExposureWarnings
<1>2. ~said.unset /\ ~said.unheard /\ ~said.noPort /\ ~said.unforwardable
  BY <1>1
<1>3. ~unset /\ ~unheard /\ ~noPort /\ ~unforwardable
  BY <1>2
<1> QED
  BY <1>3, Zenon

\* Once a start has bound what is configured, a link that no telephone can open, and
\* that is not a proxy's to answer, is warned of or is still to be done, whatever
\* was saved while the port was being picked.
THEOREM DeadLinkIsSaidSafe == Spec => []DeadLinkIsSaid
<1> DEFINE Safe == subject = "reach" => ReachSafe
<1>1. Init => Safe
  BY ReachInit DEF Init
<1>2. Safe /\ [Next]_vars => Safe'
  BY StepsOfSubject, ReachNext
<1>3. Safe => DeadLinkIsSaid
  <2> SUFFICES ASSUME ReachSafe, Reach!Running, ~Reach!ProxyOrForward(current_reach),
                      current_reach.url.host # "alias",
                      \/ current_reach.url.port = 0 \/ ~Reach!Scoped(current_reach)
                      \/ current_reach.url.port = current_reach.ack.port,
                      ~Reach!Said(current_reach)
               PROVE  Reach!Opens(current_reach.url)
    BY DEF DeadLinkIsSaid, Reach!DeadLinkIsSaid
  <2> PICK w : w = current_reach
    OBVIOUS
  <2>1. /\ ValidWeb(w) /\ bound.main = w.main /\ bound.ack = w.ack /\ w.ack.port # Reach!Auto
        /\ ~Reach!ProxyOrForward(w) /\ w.url.host # "alias" /\ ~Reach!Said(w)
        /\ w.url.port = 0 \/ ~Reach!Scoped(w) \/ w.url.port = w.ack.port
    BY DEF ReachSafe, Reach!Running
  <2> HIDE DEF ReachSafe
  <2>2. /\ w.url # Reach!NoUrl /\ ~(Reach!Scoped(w) /\ Reach!Loopback(w.ack))
        /\ w.url.host # "loopback" /\ ~(~Reach!Scoped(w) /\ Reach!Loopback(w.main))
        /\ ~Reach!AckPortProblem(w)
    BY <2>1, Unwarned, NoProblems DEF Reach!Said, ValidWeb
  <2>3. w.url.scheme = "http" /\ w.url.host \in {"lan", "public"}
    <3> PICK u : u = w.url
      OBVIOUS
    <3>1. u \in [scheme : {"http", "https", "other"},
                 host : {"alias", "loopback", "lan", "public"}, port : Nat]
      BY <2>1, <2>2, AddressAssumption DEF ValidWeb, AddressAssumption
    <3>2. u.scheme # "https" /\ u.scheme # "other" /\ u.host \notin {"alias", "loopback"}
      BY <2>1, <2>2, NoProblems DEF ValidWeb, Reach!ProxyOrForward
    <3> QED
      BY <3>1, <3>2
  <2>4. w.main \in [host : {"all", "loopback", "lan", "public"}, port : Nat]
        /\ w.ack \in PageAddress
    BY <2>1, AddressAssumption DEF ValidWeb, AddressAssumption
  <2>5. w.main # Reach!Unset /\ w.main.port # Reach!Auto
    <3>1. w.main.host # "" /\ w.main.port \in Nat
      BY <2>4
    <3>2. Reach!Unset.host = ""
      BY DEF Reach!Unset
    <3> QED
      BY <3>1, <3>2, NotAuto
  <2>6. CASE w.url.port = 0
    <3>1. \/ Reach!Scoped(w) /\ w.ack.port = 80 /\ ~Reach!Loopback(w.ack)
          \/ w.main.port = 80 /\ ~Reach!Loopback(w.main)
      BY <2>1, <2>2, <2>3, <2>5, <2>6 DEF Reach!AckPortProblem
    <3> QED
      BY <2>1, <2>3, <2>5, <2>6, <3>1 DEF Reach!Opens, Reach!Scoped
  <2>7. CASE w.url.port # 0
    <3>1. w.url.port \in {w.main.port, w.ack.port}
      BY <2>1, <2>7 DEF Reach!ProxyOrForward
    <3>2. CASE Reach!Scoped(w)
      BY <2>1, <2>2, <2>3, <2>7, <3>2 DEF Reach!Opens, Reach!Scoped
    <3>3. CASE ~Reach!Scoped(w)
      <4>1. w.ack.port = 0
        BY <3>3, UnsetAddress DEF Reach!Scoped
      <4> QED
        BY <2>1, <2>2, <2>3, <2>5, <2>7, <3>1, <3>3, <4>1 DEF Reach!Opens
    <3> QED
      BY <3>2, <3>3
  <2> QED
    BY <2>6, <2>7
<1> QED
  BY <1>1, <1>2, <1>3, PTL DEF Spec

-----------------------------------------------------------------------------
(* The audit log (AuditLog).                                               *)

LogLine == [entry : Nat, ended : BOOLEAN]

\* Whether the last line was not ended, so that what is written next joins it.
Unended(lines) == lines # << >> /\ ~Audit!Last(lines).ended

\* A sequence and one element more.
OneMore(q, front, l) ==
  /\ q \in Seq(LogLine) /\ Len(q) = Len(front) + 1 /\ q[Len(front) + 1] = l
  /\ \A i \in 1 .. Len(front) : q[i] = front[i]

LEMMA Joined ==
  ASSUME NEW front \in Seq(LogLine), NEW l \in LogLine, NEW q, q = front \o <<l>>
  PROVE  OneMore(q, front, l)
<1>1. q = Append(front, l)
  BY AppendIsConcat
<1> QED
  BY <1>1, AppendProperties DEF OneMore

\* What a file holds when it ends with the line.
Ends(q, l, held_) ==
  /\ q \in Seq(LogLine) /\ q # << >> /\ Audit!Last(q) = l
  /\ held_ \subseteq Audit!Entries(q)

\* A file with its last line replaced by another.
LEMMA LastReplaced ==
  ASSUME NEW lines \in Seq(LogLine), lines # << >>, NEW l \in LogLine,
         NEW q, q = Audit!Front(lines) \o <<l>>
  PROVE  Ends(q, l, (Audit!Entries(lines) \ {Audit!Last(lines).entry}) \cup ({l.entry} \ {0}))
<1> PICK n : n = Len(lines)
  OBVIOUS
<1>1. n \in Nat \ {0} /\ DOMAIN lines = 1 .. n
  OBVIOUS
<1> PICK front : front = SubSeq(lines, 1, n - 1)
  OBVIOUS
<1>2. front \in Seq(LogLine) /\ Len(front) = n - 1 /\ \A i \in 1 .. (n - 1) : front[i] = lines[i]
  BY <1>1
<1>3. q = front \o <<l>>
  BY DEF Audit!Front
<1>4. q \in Seq(LogLine) /\ Len(q) = n /\ q[n] = l /\ \A i \in 1 .. (n - 1) : q[i] = front[i]
  <2>1. OneMore(q, front, l)
    BY <1>2, <1>3, Joined, Zenon
  <2>2. Len(front) + 1 = n
    BY <1>1, <1>2
  <2> QED
    BY <1>2, <2>1, <2>2 DEF OneMore
<1>5. DOMAIN q = 1 .. n
  BY <1>4
<1>6. Audit!Last(q) = l /\ Audit!Last(lines) = lines[n] /\ q # << >>
  BY <1>1, <1>4 DEF Audit!Last
<1>7. ASSUME NEW e \in Audit!Entries(lines) \ {Audit!Last(lines).entry}
      PROVE  e \in Audit!Entries(q)
  <2> PICK i \in 1 .. n : e = lines[i].entry /\ e # 0
    BY <1>1 DEF Audit!Entries
  <2>1. i \in 1 .. (n - 1)
    BY <1>1, <1>6
  <2>2. q[i] = lines[i] /\ i \in DOMAIN q
    BY <1>2, <1>4, <1>5, <2>1
  <2> QED
    BY <2>2 DEF Audit!Entries
<1>8. {l.entry} \ {0} \subseteq Audit!Entries(q)
  BY <1>1, <1>4, <1>5 DEF Audit!Entries
<1> QED
  BY <1>4, <1>6, <1>7, <1>8 DEF Ends

\* A line more.
LEMMA LineAppended ==
  ASSUME NEW lines \in Seq(LogLine), NEW l \in LogLine, NEW q, q = Append(lines, l)
  PROVE  Ends(q, l, Audit!Entries(lines) \cup ({l.entry} \ {0}))
<1>1. q \in Seq(LogLine) /\ Len(q) = Len(lines) + 1 /\ Len(lines) \in Nat
  OBVIOUS
<1>2. q[Len(q)] = l /\ \A i \in 1 .. Len(lines) : q[i] = lines[i]
  BY <1>1
<1>3. DOMAIN q = DOMAIN lines \cup {Len(q)} /\ DOMAIN lines = 1 .. Len(lines)
  BY <1>1
<1>4. Audit!Last(q) = l
  BY <1>2 DEF Audit!Last
<1>5. {q[i].entry : i \in DOMAIN q} = {lines[i].entry : i \in DOMAIN lines} \cup {l.entry}
  BY <1>2, <1>3
<1> QED
  BY <1>1, <1>4, <1>5 DEF Audit!Entries, Ends

\* A file healed holds the entries it held, on lines that are ended.
LEMMA HealedLines ==
  ASSUME NEW lines \in Seq(LogLine), NEW q, q = Audit!Healed(lines)
  PROVE  /\ q \in Seq(LogLine) /\ ~Unended(q)
         /\ Audit!Entries(lines) \subseteq Audit!Entries(q)
<1>1. CASE lines = << >>
  BY <1>1 DEF Audit!Healed, Unended
<1>2. CASE lines # << >>
  <2> PICK last : last = Audit!Last(lines)
    OBVIOUS
  <2>1. last \in LogLine
    <3>1. Len(lines) \in 1 .. Len(lines)
      BY <1>2
    <3> QED
      BY <3>1 DEF Audit!Last
  <2> PICK l : l = [last EXCEPT !.ended = TRUE]
    OBVIOUS
  <2>2. l \in LogLine /\ l.entry = last.entry /\ l.ended
    BY <2>1 DEF LogLine
  <2>3. q = Audit!Front(lines) \o <<l>>
    BY <1>2 DEF Audit!Healed
  <2>4. 0 \notin Audit!Entries(lines)
    BY DEF Audit!Entries
  <2> QED
    BY ZenonT(60), <1>2, <2>2, <2>3, <2>4, LastReplaced DEF Unended, Ends
<1> QED
  BY <1>1, <1>2

\* What a file holds once the entry is written to it, or part of it.
EntryWritten(lines, e, how, q) ==
  /\ q \in Seq(LogLine) /\ q # << >>
  /\ Audit!Last(q).ended <=> how = "whole"
  /\ Audit!Last(q).entry \in {0, e}
  /\ Unended(lines) =>
       Audit!Entries(lines) \ {Audit!Last(lines).entry} \subseteq Audit!Entries(q)
  /\ ~Unended(lines) =>
       Audit!Entries(lines) \cup (IF how = "part" THEN {} ELSE {e}) \subseteq Audit!Entries(q)

\* What is written after a line that was not ended costs that line and itself;
\* otherwise it costs nothing, and is read if its body was written.
LEMMA WrittenLines ==
  ASSUME NEW lines \in Seq(LogLine), NEW e \in Nat \ {0}, NEW how \in {"whole", "body", "part"},
         NEW q, q = Audit!Written(lines, e, how)
  PROVE  EntryWritten(lines, e, how, q)
<1> PICK whole : whole = (how = "whole")
  OBVIOUS
<1>1. whole \in BOOLEAN /\ (whole <=> how = "whole")
  <2>1. (how = "whole") \in BOOLEAN
    OBVIOUS
  <2> QED
    BY <2>1
<1>2. CASE Unended(lines)
  <2> PICK l : l = [entry |-> 0, ended |-> whole]
    OBVIOUS
  <2>1. l \in LogLine /\ l.entry = 0 /\ l.ended = whole
    BY <1>1 DEF LogLine
  <2>2. lines # << >> /\ q = Audit!Front(lines) \o <<l>>
    BY <1>2 DEF Audit!Written, Unended
  <2>3. q \in Seq(LogLine) /\ q # << >> /\ Audit!Last(q) = l
        /\ Audit!Entries(lines) \ {Audit!Last(lines).entry} \subseteq Audit!Entries(q)
    <3>1. Ends(q, l, (Audit!Entries(lines) \ {Audit!Last(lines).entry}) \cup ({l.entry} \ {0}))
      BY <2>1, <2>2, LastReplaced, Zenon
    <3> QED
      BY <3>1, Zenon DEF Ends
  <2>4. Audit!Last(q).ended <=> how = "whole"
    <3>1. Audit!Last(q).ended = whole
      BY <2>1, <2>3
    <3> QED
      BY <1>1, <3>1
  <2>6. Audit!Last(q).entry \in {0, e}
    BY <2>1, <2>3
  <2> QED
    BY <1>2, <2>3, <2>4, <2>6 DEF EntryWritten
<1>3. CASE ~Unended(lines)
  <2> PICK n : n = (IF how = "part" THEN 0 ELSE e)
    OBVIOUS
  <2> PICK l : l = [entry |-> n, ended |-> whole]
    OBVIOUS
  <2>1. l \in LogLine /\ l.entry = n /\ l.ended = whole
    BY <1>1 DEF LogLine
  <2>2. q = Append(lines, l)
    BY <1>3 DEF Audit!Written, Unended
  <2>3. q \in Seq(LogLine) /\ q # << >> /\ Audit!Last(q) = l
        /\ Audit!Entries(lines) \cup ({l.entry} \ {0}) \subseteq Audit!Entries(q)
    <3>1. Ends(q, l, Audit!Entries(lines) \cup ({l.entry} \ {0}))
      BY <2>1, <2>2, LineAppended, Zenon
    <3> QED
      BY <3>1, Zenon DEF Ends
  <2>4. Audit!Last(q).ended <=> how = "whole"
    <3>1. Audit!Last(q).ended = whole
      BY <2>1, <2>3
    <3> QED
      BY <1>1, <3>1
  <2>6. Audit!Last(q).entry \in {0, e}
    BY <2>1, <2>3
  <2>5. Audit!Entries(lines) \cup (IF how = "part" THEN {} ELSE {e}) \subseteq Audit!Entries(q)
    BY <2>1, <2>3
  <2> QED
    BY <1>3, <2>3, <2>4, <2>5, <2>6 DEF EntryWritten
<1> QED
  BY <1>2, <1>3

\* What of the log can be read, or was pruned.
Held(d) == d.pruned \cup Audit!Entries(d.current) \cup UNION {Audit!Entries(f.lines) : f \in d.rotated}

\* A line that was not ended will cost the next entry written.
Owed(d) == IF Unended(d.current) THEN 1 ELSE 0

\* Entries accepted that cannot be read, and one more when the last line was not
\* ended, are no more than the writes that failed part of the way; that line holds
\* no entry accepted.
LogSafe(d, said, n, failed) ==
  /\ d = [current |-> d.current, rotated |-> d.rotated, pruned |-> d.pruned, handle |-> d.handle]
  /\ d.current \in Seq(LogLine) /\ n \in Nat /\ failed \in Nat /\ said \subseteq 1 .. n
  /\ Unended(d.current) => Audit!Last(d.current).entry \in (0 .. n) \ said
  /\ Cardinality(said \ Held(d)) + Owed(d) <= failed

AuditSafe == LogSafe(disk, accepted_audit, entries, torn)

\* d is what a rotation, a close or a reopening makes of the files of c.
Kept(c, d) ==
  /\ d = [current |-> d.current, rotated |-> d.rotated, pruned |-> d.pruned, handle |-> d.handle]
  /\ d.current \in Seq(LogLine) /\ Held(c) \subseteq Held(d)
  /\ d.current = c.current \/ ~Unended(d.current)

LEMMA KeptSafe ==
  ASSUME NEW c, NEW d, NEW said, NEW n, NEW failed, LogSafe(c, said, n, failed), Kept(c, d)
  PROVE  LogSafe(d, said, n, failed)
<1>1. /\ n \in Nat /\ failed \in Nat /\ said \subseteq 1 .. n
      /\ Cardinality(said \ Held(c)) + Owed(c) <= failed
      /\ Held(c) \subseteq Held(d)
  BY DEF LogSafe, Kept
<1>2. Owed(c) \in {0, 1} /\ Owed(d) \in {0, 1} /\ Owed(d) <= Owed(c)
  BY DEF Owed, Kept
<1>3. IsFiniteSet(said \ Held(c)) /\ said \ Held(d) \subseteq said \ Held(c)
  <2>1. IsFiniteSet(1 .. n)
    BY <1>1, FS_Interval
  <2>2. IsFiniteSet(said)
    BY <1>1, <2>1, FS_Subset
  <2> QED
    BY <1>1, <2>2, FS_Subset
<1>4. /\ Cardinality(said \ Held(c)) \in Nat /\ Cardinality(said \ Held(d)) \in Nat
      /\ Cardinality(said \ Held(d)) <= Cardinality(said \ Held(c))
  BY <1>3, FS_Subset, FS_CardinalityType
<1>5. Cardinality(said \ Held(d)) + Owed(d) <= failed
  BY <1>1, <1>2, <1>4
<1> QED
  BY <1>5 DEF LogSafe, Kept

\* The files a reopening, a renaming and a pruning leave.
LEMMA ReopenedKept ==
  ASSUME NEW c, NEW d, Kept(c, d), NEW ok \in BOOLEAN, NEW r, r = Audit!Reopened(d, ok)
  PROVE  Kept(c, r) /\ (ok => ~Unended(r.current))
<1> PICK cur, rot, pru, h : d = [current |-> cur, rotated |-> rot, pruned |-> pru, handle |-> h]
  BY Zenon DEF Kept
<1>1. /\ cur \in Seq(LogLine)
      /\ cur = c.current \/ ~Unended(cur)
      /\ Held(c) \subseteq Held(d)
      /\ d.current = cur /\ d.rotated = rot /\ d.pruned = pru
  BY DEF Kept
<1>2. CASE ok
  <2> PICK healed : healed = Audit!Healed(cur)
    OBVIOUS
  <2>1. r = [current |-> healed, rotated |-> rot, pruned |-> pru, handle |-> "open"]
    BY <1>2 DEF Audit!Reopened
  <2>2. r.current = healed /\ r.rotated = rot /\ r.pruned = pru /\ r.handle = "open"
    BY <2>1
  <2>3. healed \in Seq(LogLine) /\ ~Unended(healed)
        /\ Audit!Entries(cur) \subseteq Audit!Entries(healed)
    BY <1>1, HealedLines
  <2>4. Held(d) \subseteq Held(r)
    BY <1>1, <2>2, <2>3 DEF Held
  <2> QED
    BY <1>1, <2>1, <2>2, <2>3, <2>4 DEF Kept
<1>3. CASE ~ok
  <2>1. r = [current |-> cur, rotated |-> rot, pruned |-> pru, handle |-> "none"]
    BY <1>3 DEF Audit!Reopened
  <2>2. r.current = cur /\ r.rotated = rot /\ r.pruned = pru /\ r.handle = "none"
    BY <2>1
  <2>3. Held(d) = Held(r)
    BY <1>1, <2>2 DEF Held
  <2> QED
    BY <1>1, <1>3, <2>1, <2>2, <2>3 DEF Kept
<1> QED
  BY <1>2, <1>3

LEMMA RenamedKept ==
  ASSUME NEW c, NEW d, Kept(c, d), NEW r, r = Audit!Renamed(d)
  PROVE  Kept(c, r)
<1> PICK cur, rot, pru, h : d = [current |-> cur, rotated |-> rot, pruned |-> pru, handle |-> h]
  BY Zenon DEF Kept
<1>1. /\ Held(c) \subseteq Held(d)
      /\ d.current = cur /\ d.rotated = rot /\ d.pruned = pru
  BY DEF Kept
<1> PICK stamp : stamp = Audit!Again(rot, clock)
  OBVIOUS
<1> PICK f : f = [stamp |-> clock, again |-> stamp, lines |-> cur]
  OBVIOUS
<1> PICK more : more = rot \cup {f}
  OBVIOUS
<1>2. r = [current |-> << >>, rotated |-> more, pruned |-> pru, handle |-> h]
  BY DEF Audit!Renamed
<1>3. r.current = << >> /\ r.rotated = more /\ r.pruned = pru /\ r.handle = h
  BY <1>2
<1>4. f.lines = cur
  OBVIOUS
<1>5. Held(d) \subseteq Held(r)
  BY <1>1, <1>3, <1>4 DEF Held
<1>6. << >> \in Seq(LogLine) /\ ~Unended(<< >>)
  BY DEF Unended
<1> QED
  BY <1>1, <1>2, <1>3, <1>5, <1>6 DEF Kept

LEMMA PrunedKept ==
  ASSUME NEW c, NEW d, Kept(c, d), NEW r, r = Audit!Pruned(d)
  PROVE  Kept(c, r)
<1> PICK cur, rot, pru, h : d = [current |-> cur, rotated |-> rot, pruned |-> pru, handle |-> h]
  BY Zenon DEF Kept
<1>1. /\ cur \in Seq(LogLine)
      /\ cur = c.current \/ ~Unended(cur)
      /\ Held(c) \subseteq Held(d)
      /\ d.current = cur /\ d.rotated = rot /\ d.pruned = pru
  BY DEF Kept
<1> PICK gone : gone = Audit!Excess(rot)
  OBVIOUS
<1> PICK lost : lost = UNION {Audit!Entries(f.lines) : f \in gone}
  OBVIOUS
<1>2. r = [current |-> cur, rotated |-> rot \ gone, pruned |-> pru \cup lost, handle |-> h]
  BY <1>1 DEF Audit!Pruned
<1>3. r.current = cur /\ r.rotated = rot \ gone /\ r.pruned = pru \cup lost /\ r.handle = h
  BY <1>2
<1>4. Held(d) \subseteq Held(r)
  BY <1>1, <1>3 DEF Held
<1> QED
  BY <1>1, <1>2, <1>3, <1>4 DEF Kept

LEMMA RotationKept ==
  ASSUME NEW c, Kept(c, c), NEW r \in Audit!Rotations(c)
  PROVE  Kept(c, r[1])
<1> PICK renamed : renamed = Audit!Renamed(c)
  OBVIOUS
<1>1. Kept(c, renamed)
  BY RenamedKept
<1>2. Kept(c, Audit!Reopened(c, TRUE)) /\ Kept(c, Audit!Reopened(c, FALSE))
  BY ReopenedKept
<1>3. Kept(c, Audit!Reopened(renamed, TRUE)) /\ Kept(c, Audit!Reopened(renamed, FALSE))
  BY <1>1, ReopenedKept
<1>4. Kept(c, Audit!Pruned(Audit!Reopened(renamed, TRUE)))
  BY <1>3, PrunedKept
<1> PICK stale : stale = [c EXCEPT !.handle = "stale"]
  OBVIOUS
<1>5. Kept(c, stale)
  <2> PICK cur, rot, pru, h : c = [current |-> cur, rotated |-> rot, pruned |-> pru, handle |-> h]
    BY Zenon DEF Kept
  <2>1. stale = [current |-> cur, rotated |-> rot, pruned |-> pru, handle |-> "stale"]
    OBVIOUS
  <2>2. stale.current = c.current /\ stale.rotated = c.rotated /\ stale.pruned = c.pruned
        /\ stale.handle = "stale" /\ c.current = cur /\ c.rotated = rot /\ c.pruned = pru
    BY <2>1
  <2>3. Held(stale) = Held(c)
    BY <2>2 DEF Held
  <2> QED
    BY <2>1, <2>2, <2>3 DEF Kept
<1>6. r \in {<<c, 0>>, <<stale, 1>>, <<Audit!Reopened(c, TRUE), 1>>,
            <<Audit!Reopened(c, FALSE), 2>>, <<Audit!Reopened(renamed, FALSE), 1>>,
            <<Audit!Pruned(Audit!Reopened(renamed, TRUE)), 0>>}
  BY Zenon DEF Audit!Rotations
<1> PICK d, k : r = <<d, k>> /\ Kept(c, d)
  BY <1>2, <1>3, <1>4, <1>5, <1>6, Zenon
<1> QED
  OBVIOUS

\* One more entry is written at the end, whole or in part, and Append says so or fails.
EntryPut(d, said, n, failed, how, e, r, now, fails) ==
  /\ how \in {"whole", "body", "part"} /\ e = n + 1
  /\ r = [d EXCEPT !.current = Audit!Written(@, e, how)]
  /\ now = said \cup (IF how = "whole" THEN {e} ELSE {})
  /\ fails = failed + (IF how = "whole" THEN 0 ELSE 1)

LEMMA EntrySafe ==
  ASSUME NEW d, NEW said, NEW n, NEW failed, LogSafe(d, said, n, failed),
         NEW how, NEW e, NEW r, NEW now, NEW fails,
         EntryPut(d, said, n, failed, how, e, r, now, fails)
  PROVE  /\ LogSafe(r, now, e, fails)
         /\ how # "whole" => Unended(r.current)
<1> USE DEF EntryPut
<1> PICK cur, rot, pru, h : d = [current |-> cur, rotated |-> rot, pruned |-> pru, handle |-> h]
  BY Zenon DEF LogSafe
<1>1. /\ d.current = cur /\ d.rotated = rot /\ d.pruned = pru
      /\ cur \in Seq(LogLine) /\ n \in Nat /\ failed \in Nat /\ said \subseteq 1 .. n
      /\ Unended(cur) => Audit!Last(cur).entry \in (0 .. n) \ said
      /\ Cardinality(said \ Held(d)) + Owed(d) <= failed
  BY DEF LogSafe
<1> PICK q : q = Audit!Written(cur, e, how)
  OBVIOUS
<1>2. r = [current |-> q, rotated |-> rot, pruned |-> pru, handle |-> h]
  BY <1>1
<1>3. r.current = q /\ r.rotated = rot /\ r.pruned = pru /\ r.handle = h
  BY <1>2
<1>4. e \in Nat \ {0} /\ e \notin said
  BY <1>1
<1>5. /\ q \in Seq(LogLine) /\ q # << >>
      /\ Audit!Last(q).ended <=> how = "whole"
      /\ Audit!Last(q).entry \in {0, e}
      /\ Unended(cur) =>
           Audit!Entries(cur) \ {Audit!Last(cur).entry} \subseteq Audit!Entries(q)
      /\ ~Unended(cur) =>
           Audit!Entries(cur) \cup (IF how = "part" THEN {} ELSE {e}) \subseteq Audit!Entries(q)
  <2>1. cur \in Seq(LogLine)
    BY <1>1
  <2>2. EntryWritten(cur, e, how, q)
    BY <1>4, <2>1, WrittenLines, Zenon
  <2> QED
    BY <2>2, Zenon DEF EntryWritten
<1>6. Unended(q) <=> how # "whole"
  BY <1>5 DEF Unended
<1>7. Unended(q) => Audit!Last(q).entry \in (0 .. e) \ now
  BY <1>1, <1>4, <1>5, <1>6
<1>8. now \subseteq 1 .. e
  BY <1>1, <1>4
<1>9. IsFiniteSet(said \ Held(d)) /\ Cardinality(said \ Held(d)) \in Nat
  <2>1. IsFiniteSet(1 .. n)
    <3>1. 1 \in Int /\ n \in Int
      BY <1>1
    <3> QED
      BY <3>1, FS_Interval, Zenon
  <2>2. said \ Held(d) \in SUBSET (1 .. n)
    BY <1>1
  <2>3. IsFiniteSet(said \ Held(d))
    BY <2>1, <2>2, FS_Subset
  <2> QED
    BY <2>3, FS_CardinalityType
<1>10. Owed(d) = (IF Unended(cur) THEN 1 ELSE 0) /\ Owed(r) = (IF how = "whole" THEN 0 ELSE 1)
  BY <1>1, <1>3, <1>6 DEF Owed
<1>11. said \ Held(r) \subseteq said \ Held(d)
  <2>1. CASE Unended(cur)
    BY <1>1, <1>3, <1>5, <2>1 DEF Held
  <2>2. CASE ~Unended(cur)
    BY <1>1, <1>3, <1>5, <2>2 DEF Held
  <2> QED
    BY <2>1, <2>2
<1>12. Cardinality(now \ Held(r)) + Owed(r) <= failed + (IF how = "whole" THEN 0 ELSE 1)
  <2> PICK was : was = said \ Held(d)
    OBVIOUS
  <2>1. IsFiniteSet(was) /\ Cardinality(was) \in Nat
    BY <1>9
  <2>2. CASE how = "whole" /\ Unended(cur)
    <3>1. now \ Held(r) \subseteq was \cup {e}
      BY <1>11, <2>2
    <3>2. e \notin was
      BY <1>4
    <3>3. IsFiniteSet(was \cup {e}) /\ Cardinality(was \cup {e}) = Cardinality(was) + 1
      BY <2>1, <3>2, FS_AddElement
    <3>4. Cardinality(now \ Held(r)) <= Cardinality(was \cup {e})
          /\ Cardinality(now \ Held(r)) \in Nat
      BY <3>1, <3>3, FS_Subset, FS_CardinalityType
    <3> QED
      BY <1>1, <1>10, <2>1, <2>2, <3>3, <3>4
  <2>3. CASE ~(how = "whole" /\ Unended(cur))
    <3>1. now \ Held(r) \subseteq was
      <4>1. how = "whole" => e \in Held(r)
        BY <1>3, <1>5, <2>3 DEF Held
      <4> QED
        BY <1>11, <4>1
    <3>2. Cardinality(now \ Held(r)) <= Cardinality(was) /\ Cardinality(now \ Held(r)) \in Nat
      BY <2>1, <3>1, FS_Subset, FS_CardinalityType
    <3> QED
      BY <1>1, <1>10, <2>1, <2>3, <3>2
  <2> QED
    BY <2>2, <2>3
<1> QED
  BY <1>1, <1>2, <1>3, <1>4, <1>5, <1>6, <1>7, <1>8, <1>12 DEF LogSafe

\* An entry for which nothing is written costs nothing.
LEMMA Unwritten ==
  ASSUME NEW d, NEW said, NEW n, NEW failed, LogSafe(d, said, n, failed)
  PROVE  LogSafe(d, said, n + 1, failed) /\ Kept(d, d)
BY DEF LogSafe, Kept

\* Reopening forgives the write a crash cut short: nothing will join its line.
LEMMA HealedSafe ==
  ASSUME NEW d, NEW said, NEW n, NEW failed \in Nat, LogSafe(d, said, n, failed + 1),
         Unended(d.current)
  PROVE  LogSafe(Audit!Reopened(d, TRUE), said, n, failed)
<1> PICK r : r = Audit!Reopened(d, TRUE)
  OBVIOUS
<1>1. Kept(d, d)
  BY DEF LogSafe, Kept
<1>2. Kept(d, r) /\ ~Unended(r.current)
  BY <1>1, ReopenedKept
<1>3. LogSafe(r, said, n, failed + 1)
  BY <1>2, KeptSafe
<1>4. /\ n \in Nat /\ said \subseteq 1 .. n /\ Held(d) \subseteq Held(r)
      /\ Cardinality(said \ Held(d)) + 1 <= failed + 1
  BY <1>2 DEF LogSafe, Kept, Owed
<1>5. /\ Cardinality(said \ Held(d)) \in Nat /\ Cardinality(said \ Held(r)) \in Nat
      /\ Cardinality(said \ Held(r)) <= Cardinality(said \ Held(d))
  <2>1. IsFiniteSet(1 .. n)
    BY <1>4, FS_Interval
  <2>2. said \ Held(d) \in SUBSET (1 .. n)
    BY <1>4
  <2>3. IsFiniteSet(said \ Held(d))
    BY <2>1, <2>2, FS_Subset
  <2>4. said \ Held(r) \in SUBSET (said \ Held(d))
    BY <1>4
  <2> QED
    BY <2>3, <2>4, FS_Subset, FS_CardinalityType
<1>6. Cardinality(said \ Held(r)) + Owed(r) <= failed
  BY <1>2, <1>4, <1>5 DEF Owed
<1> QED
  BY <1>2, <1>3, <1>6 DEF LogSafe

LEMMA AuditInit == Audit!Init => AuditSafe
<1> SUFFICES ASSUME Audit!Init PROVE AuditSafe
  OBVIOUS
<1>1. /\ disk = [current |-> << >>, rotated |-> {}, pruned |-> {}, handle |-> "open"]
      /\ entries = 0 /\ accepted_audit = {} /\ torn = 0
  BY DEF Audit!Init
<1>2. disk.current = << >> /\ disk.rotated = {} /\ disk.pruned = {} /\ disk.handle = "open"
  BY <1>1
<1>3. << >> \in Seq(LogLine) /\ ~Unended(<< >>)
  BY DEF Unended
<1>4. accepted_audit \ Held(disk) = {} /\ Owed(disk) = 0
  BY <1>1, <1>2, <1>3 DEF Owed
<1>5. Cardinality(accepted_audit \ Held(disk)) + Owed(disk) <= torn
  BY <1>1, <1>4, FS_EmptySet
<1> QED
  BY <1>1, <1>2, <1>3, <1>5 DEF AuditSafe, LogSafe

LEMMA AuditNext ==
  ASSUME AuditSafe, [Audit!Next]_(Audit!vars)
  PROVE  AuditSafe'
<1>1. entries \in Nat /\ torn \in Nat /\ Kept(disk, disk)
  BY DEF AuditSafe, LogSafe, Kept
<1>2. CASE Audit!Put
  <2>1. entries' = entries + 1
    BY <1>2 DEF Audit!Put
  <2> PICK r \in IF disk.handle = "none" \/ Len(disk.current) < MaxLines THEN {<<disk, 0>>}
                 ELSE Audit!Rotations(disk) :
         IF r[1].handle # "open"
         THEN disk' = r[1] /\ UNCHANGED <<accepted_audit, torn>>
         ELSE \E how \in {"whole", "body", "part", "none"} :
                /\ disk' = (IF how = "none" THEN r[1]
                            ELSE [r[1] EXCEPT !.current = Audit!Written(@, entries', how)])
                /\ accepted_audit' = accepted_audit \cup (IF how = "whole" THEN {entries'} ELSE {})
                /\ torn' = torn + (IF how \in {"body", "part"} THEN 1 ELSE 0)
    BY <1>2 DEF Audit!Put
  <2> PICK d : d = r[1]
    OBVIOUS
  <2>2. Kept(disk, d)
    BY <1>1, RotationKept
  <2>3. LogSafe(d, accepted_audit, entries, torn)
    BY <2>2, KeptSafe DEF AuditSafe
  <2>4. CASE d.handle # "open"
    BY <2>1, <2>3, <2>4, Unwritten DEF AuditSafe
  <2>5. CASE d.handle = "open"
    <3> PICK how \in {"whole", "body", "part", "none"} :
           /\ disk' = (IF how = "none" THEN d
                       ELSE [d EXCEPT !.current = Audit!Written(@, entries', how)])
           /\ accepted_audit' = accepted_audit \cup (IF how = "whole" THEN {entries'} ELSE {})
           /\ torn' = torn + (IF how \in {"body", "part"} THEN 1 ELSE 0)
      BY <2>5
    <3>1. CASE how = "none"
      BY <1>1, <2>1, <2>3, <3>1, Unwritten DEF AuditSafe
    <3>2. CASE how # "none"
      <4> PICK e : e = entries + 1
        OBVIOUS
      <4> PICK q : q = [d EXCEPT !.current = Audit!Written(@, e, how)]
        OBVIOUS
      <4> PICK now : now = accepted_audit \cup (IF how = "whole" THEN {e} ELSE {})
        OBVIOUS
      <4> PICK fails : fails = torn + (IF how = "whole" THEN 0 ELSE 1)
        OBVIOUS
      <4>1. LogSafe(q, now, e, fails)
        <5>1. EntryPut(d, accepted_audit, entries, torn, how, e, q, now, fails)
          BY <3>2 DEF EntryPut
        <5> QED
          BY <2>3, <5>1, EntrySafe, Zenon
      <4>2. disk' = q /\ entries' = e /\ accepted_audit' = now /\ torn' = fails
        BY <2>1, <3>2
      <4> QED
        BY <4>1, <4>2 DEF AuditSafe
    <3> QED
      BY <3>1, <3>2
  <2> QED
    BY <2>4, <2>5
<1>3. CASE Audit!Crash
  <2>1. UNCHANGED <<accepted_audit, torn>>
    BY <1>3 DEF Audit!Crash
  <2>2. CASE disk' = Audit!Reopened(disk, TRUE) /\ UNCHANGED entries
    <3>1. Kept(disk, Audit!Reopened(disk, TRUE))
      BY <1>1, ReopenedKept
    <3>2. LogSafe(Audit!Reopened(disk, TRUE), accepted_audit, entries, torn)
      BY <3>1, KeptSafe DEF AuditSafe
    <3> QED
      BY <2>1, <2>2, <3>2 DEF AuditSafe
  <2>3. CASE entries' = entries + 1 /\ \E how \in {"body", "part"} :
               disk' = Audit!Reopened([disk EXCEPT !.current = Audit!Written(@, entries', how)], TRUE)
    <3> PICK how \in {"body", "part"} :
           disk' = Audit!Reopened([disk EXCEPT !.current = Audit!Written(@, entries', how)], TRUE)
      BY <2>3
    <3> PICK e : e = entries + 1
      OBVIOUS
    <3> PICK q : q = [disk EXCEPT !.current = Audit!Written(@, e, how)]
      OBVIOUS
    <3> PICK now : now = accepted_audit \cup (IF how = "whole" THEN {e} ELSE {})
      OBVIOUS
    <3> PICK fails : fails = torn + (IF how = "whole" THEN 0 ELSE 1)
      OBVIOUS
    <3>0. LogSafe(q, now, e, fails) /\ Unended(q.current)
      <4>1. LogSafe(disk, accepted_audit, entries, torn)
        BY DEF AuditSafe
      <4> QED
        <5>1. EntryPut(disk, accepted_audit, entries, torn, how, e, q, now, fails)
          BY DEF EntryPut
        <5>2. how # "whole"
          OBVIOUS
        <5> QED
          BY <4>1, <5>1, <5>2, EntrySafe, Zenon
    <3>1. LogSafe(q, accepted_audit, e, torn + 1) /\ Unended(q.current)
      <4>1. now = accepted_audit /\ fails = torn + 1
        OBVIOUS
      <4> QED
        BY <3>0, <4>1
    <3>2. LogSafe(Audit!Reopened(q, TRUE), accepted_audit, e, torn)
      BY <1>1, <3>1, HealedSafe
    <3>3. disk' = Audit!Reopened(q, TRUE) /\ entries' = e
      BY <2>3
    <3> QED
      BY <2>1, <3>2, <3>3 DEF AuditSafe
  <2>4. CASE entries' = entries + 1 /\ disk' = Audit!Reopened(Audit!Renamed(disk), TRUE)
    <3> PICK q : q = Audit!Reopened(Audit!Renamed(disk), TRUE)
      OBVIOUS
    <3>1. Kept(disk, q)
      BY <1>1, RenamedKept, ReopenedKept
    <3>2. LogSafe(q, accepted_audit, entries + 1, torn)
      BY ZenonT(60), <3>1, KeptSafe, Unwritten DEF AuditSafe
    <3> QED
      BY <2>1, <2>4, <3>2 DEF AuditSafe
  <2> QED
    BY <1>3, <2>2, <2>3, <2>4 DEF Audit!Crash
<1>4. CASE UNCHANGED <<disk, accepted_audit, entries, torn>>
  BY <1>4 DEF AuditSafe
<1>5. ASSUME Audit!Elapse \/ Audit!List \/ Audit!ReadNext \/ Audit!Answer \/ UNCHANGED Audit!vars
      PROVE  UNCHANGED <<disk, accepted_audit, entries, torn>>
  BY ZenonT(60), <1>5 DEF Audit!Elapse, Audit!List, Audit!ReadNext, Audit!Answer, Audit!vars
<1> QED
  BY <1>2, <1>3, <1>4, <1>5 DEF Audit!Next

\* Of the entries Append said were written, no more are unreadable than writes failed
\* part of the way, whatever rotations, refusals and crashes come between; an entry
\* leaves only with the file it was pruned with.
THEOREM DamageIsContainedSafe == Spec => []DamageIsContained
<1> DEFINE Safe == subject = "audit" => AuditSafe
<1>1. Init => Safe
  BY AuditInit DEF Init
<1>2. Safe /\ [Next]_vars => Safe'
  BY StepsOfSubject, AuditNext
<1>3. Safe => DamageIsContained
  <2> SUFFICES ASSUME AuditSafe PROVE Audit!DamageIsContained
    BY DEF DamageIsContained
  <2>1. (accepted_audit \ disk.pruned) \ Audit!Readable = accepted_audit \ Held(disk)
    BY DEF Audit!Readable, Held
  <2>2. Audit!Cardinality(accepted_audit \ Held(disk)) = Cardinality(accepted_audit \ Held(disk))
    BY DEF Audit!Cardinality, Cardinality
  <2>3. Cardinality(accepted_audit \ Held(disk)) <= torn
    <3>1. IsFiniteSet(1 .. entries)
      <4>1. 1 \in Int /\ entries \in Int
        BY DEF AuditSafe, LogSafe
      <4> QED
        BY <4>1, FS_Interval, Zenon
    <3>2. Cardinality(accepted_audit \ Held(disk)) \in Nat
      <4>1. accepted_audit \ Held(disk) \in SUBSET (1 .. entries)
        BY DEF AuditSafe, LogSafe
      <4> QED
        BY <3>1, <4>1, FS_Subset, FS_CardinalityType
    <3> QED
      BY <3>2 DEF AuditSafe, LogSafe, Owed
  <2> QED
    BY <2>1, <2>2, <2>3 DEF Audit!DamageIsContained
<1> QED
  BY <1>1, <1>2, <1>3, PTL DEF Spec

-----------------------------------------------------------------------------
(* What is typical of a slot (SiteBaseline).                                *)

\* A set of numbers that is not empty has a least one.
LEMMA NatLeast ==
  ASSUME NEW T \in SUBSET Nat, T # {}
  PROVE  \E n \in T : \A m \in T : n <= m
<1> DEFINE R == {ss \in Nat \X Nat : ss[1] < ss[2]}
<1>1. OpToRel(<, Nat) = R
  BY DEF OpToRel
<1>2. IsWellFoundedOn(R, Nat)
  BY <1>1, NatLessThanWellFounded, Zenon
<1>3. \E n \in T : \A m \in T : ~ (<<m, n>> \in R)
  <2>1. T \subseteq Nat /\ T # {}
    OBVIOUS
  <2>2. ASSUME NEW RR, IsWellFoundedOn(RR, Nat)
        PROVE  \E n \in T : \A m \in T : ~ (<<m, n>> \in RR)
    BY <2>1, <2>2, WFMin
  <2> HIDE DEF R
  <2> QED BY <1>2, <2>2
<1>4. \A m, n \in T : <<m, n>> \notin R => n <= m
  <2> SUFFICES ASSUME NEW m \in T, NEW n \in T, ~(n <= m) PROVE <<m, n>> \in R
    OBVIOUS
  <2>1. m \in Nat /\ n \in Nat
    OBVIOUS
  <2>2. <<m, n>> \in Nat \X Nat /\ <<m, n>>[1] < <<m, n>>[2]
    BY <2>1
  <2> QED
    BY <2>2
<1> QED
  <2> HIDE DEF R
  <2> QED
    BY <1>3, <1>4

LEMMA SubsetBound ==
  ASSUME NEW S, IsFiniteSet(S), NEW T, T \subseteq S
  PROVE  /\ IsFiniteSet(T) /\ Cardinality(T) \in Nat /\ Cardinality(S) \in Nat
         /\ Cardinality(T) <= Cardinality(S)
         /\ T # S => Cardinality(T) < Cardinality(S)
BY FS_Subset, FS_CardinalityType

\* A finite set has an element where a number is largest.
LEMMA Maximum ==
  ASSUME NEW K, IsFiniteSet(K), K # {}, NEW f, \A i \in K : f[i] \in Nat
  PROVE  \E m \in K : \A i \in K : f[i] <= f[m]
<1> DEFINE Above(m) == {i \in K : f[i] > f[m]}
           T == {Cardinality(Above(m)) : m \in K}
<1>1. \A m \in K : IsFiniteSet(Above(m)) /\ Cardinality(Above(m)) \in Nat
  BY SubsetBound
<1>2. T \in SUBSET Nat /\ T # {}
  BY <1>1
<1>3. PICK n \in T : \A m \in T : n <= m
  BY <1>2, NatLeast
<1>4. PICK m \in K : n = Cardinality(Above(m))
  BY <1>3
<1>5. ASSUME NEW i \in K, f[i] > f[m]
      PROVE  FALSE
  <2>1. Above(i) \subseteq Above(m) /\ i \in Above(m) /\ i \notin Above(i)
    BY <1>5
  <2> HIDE DEF Above
  <2>2. Cardinality(Above(i)) < Cardinality(Above(m))
    BY <1>1, <2>1, SubsetBound
  <2>3. Cardinality(Above(i)) \in T
    BY <1>5
  <2> HIDE DEF T
  <2>4. n <= Cardinality(Above(i))
    BY <1>3, <2>3
  <2> QED
    BY <1>1, <1>4, <1>5, <2>2, <2>4
<1>6. \A i \in K : f[i] <= f[m]
  BY <1>5
<1> QED
  BY <1>6

LEMMA SameCardinality == \A S : Baseline!Cardinality(S) = Cardinality(S)
BY DEF Baseline!Cardinality, Cardinality

\* There is a value of each rank.
LEMMA RankedIs ==
  ASSUME NEW K, IsFiniteSet(K), NEW f, DOMAIN f = K, \A i \in K : f[i] \in Nat,
         NEW rank \in 1 .. Cardinality(K), NEW value, value = Baseline!Ranked(f, rank)
  PROVE  /\ value \in Nat
         /\ \A S : S = {i \in K : f[i] < value} => Cardinality(S) < rank
         /\ \A S : S = {i \in K : f[i] <= value} => rank <= Cardinality(S)
<1> DEFINE Below(v) == {i \in K : f[i] < v}
           UpTo(v) == {i \in K : f[i] <= v}
           V == {v \in {f[i] : i \in K} : rank <= Cardinality(UpTo(v))}
<1>1. \A v : /\ IsFiniteSet(Below(v)) /\ Cardinality(Below(v)) \in Nat
             /\ IsFiniteSet(UpTo(v)) /\ Cardinality(UpTo(v)) \in Nat
  <2> TAKE v
  <2>1. Below(v) \subseteq K /\ UpTo(v) \subseteq K
    OBVIOUS
  <2> HIDE DEF Below, UpTo
  <2> QED
    BY <2>1, SubsetBound
<1>2. K # {}
  BY FS_EmptySet
<1>3. V # {}
  <2>1. PICK m \in K : \A i \in K : f[i] <= f[m]
    BY <1>2, Maximum
  <2>2. UpTo(f[m]) = K
    BY <2>1
  <2>3. rank <= Cardinality(UpTo(f[m]))
    BY <2>2
  <2> QED
    BY <2>3
<1>4. PICK v \in V : \A w \in V : v <= w
  <2>1. V \in SUBSET Nat
    OBVIOUS
  <2> HIDE DEF V
  <2> QED
    BY <1>3, <2>1, NatLeast
<1>5. v \in Nat /\ rank <= Cardinality(UpTo(v)) /\ v \in {f[i] : i \in K}
  OBVIOUS
<1>6. Cardinality(Below(v)) < rank
  <2>0. Cardinality(Below(v)) \in Nat /\ rank \in Int
    BY SMTT(30), <1>1
  <2> SUFFICES ASSUME rank <= Cardinality(Below(v)) PROVE FALSE
    <3> HIDE DEF Below
    <3> QED
      BY <2>0
  <2>1. Below(v) # {}
    BY FS_EmptySet
  <2>2. PICK m \in Below(v) : \A i \in Below(v) : f[i] <= f[m]
    BY ZenonT(60), <1>1, <2>1, Maximum
  <2>3. UpTo(f[m]) = Below(v)
    BY <1>5, <2>2
  <2>4. f[m] \in V /\ f[m] < v /\ f[m] \in Nat
    BY <2>2, <2>3
  <2> HIDE DEF V
  <2> QED
    BY <1>4, <1>5, <2>4
<1>7. \E u \in {f[i] : i \in K} : Cardinality(Below(u)) < rank /\ rank <= Cardinality(UpTo(u))
  BY <1>5, <1>6
<1>8. value =
        CHOOSE u \in {f[i] : i \in K} : Cardinality(Below(u)) < rank /\ rank <= Cardinality(UpTo(u))
  BY SameCardinality DEF Baseline!Ranked
<1>9. value \in {f[i] : i \in K} /\ Cardinality(Below(value)) < rank /\ rank <= Cardinality(UpTo(value))
  <2> HIDE DEF Below, UpTo
  <2> QED
    BY <1>7, <1>8
<1> QED
  BY <1>9

\* A value that more than a quarter of a sample has is no more than nine of ten have,
\* and no less than one of ten.
LEMMA QuarterWithin ==
  ASSUME NEW K, IsFiniteSet(K), NEW f, DOMAIN f = K, \A i \in K : f[i] \in Nat,
         NEW R, R \subseteq K, NEW x \in Nat, \A i \in R : f[i] = x,
         4 * Cardinality(R) > Cardinality(K)
  PROVE  /\ Baseline!Quantile(f, 9) \in Nat /\ x <= Baseline!Quantile(f, 9)
         /\ Baseline!Quantile(f, 1) \in Nat /\ Baseline!Quantile(f, 1) <= x
<1>1. IsFiniteSet(R) /\ Cardinality(R) \in Nat /\ Cardinality(K) \in Nat
      /\ Cardinality(R) <= Cardinality(K)
  BY SubsetBound
<1>2. PICK n \in Nat : n = Cardinality(K)
  BY <1>1
<1>3. PICK r \in Nat : r = Cardinality(R)
  BY <1>1
<1>4. 4 * r > n /\ r <= n /\ n > 0
  BY <1>1, <1>2, <1>3
<1>5. K # {} /\ Baseline!Cardinality(K) = n
  BY <1>2, <1>4, FS_EmptySet, SameCardinality
<1> DEFINE rank(t) == (n * t + 9) \div 10
<1>6. rank(9) \in 1 .. n /\ 10 * rank(9) >= 9 * n
  BY <1>4
<1>7. rank(1) \in 1 .. n /\ 10 * rank(1) <= n + 9
  BY <1>4
<1>8. Baseline!Quantile(f, 9) = Baseline!Ranked(f, rank(9))
  BY <1>5, <1>6 DEF Baseline!Quantile
<1>9. Baseline!Quantile(f, 1) = Baseline!Ranked(f, rank(1))
  BY <1>5, <1>7 DEF Baseline!Quantile
<1> HIDE DEF rank
<1>10. Baseline!Quantile(f, 9) \in Nat /\ x <= Baseline!Quantile(f, 9)
  <2> PICK v : v = Baseline!Quantile(f, 9)
    OBVIOUS
  <2>0. rank(9) \in 1 .. Cardinality(K) /\ v = Baseline!Ranked(f, rank(9))
    BY <1>2, <1>6, <1>8
  <2>1. v \in Nat /\ \A S : S = {i \in K : f[i] <= v} => rank(9) <= Cardinality(S)
    BY <2>0, RankedIs
  <2> SUFFICES ASSUME v < x PROVE FALSE
    BY <2>1
  <2>2. PICK S : S = {i \in K : f[i] <= v}
    OBVIOUS
  <2>3. S \subseteq K /\ S \cap R = {} /\ S \cup R \subseteq K
    BY <2>1, <2>2
  <2>4. IsFiniteSet(S) /\ Cardinality(S) \in Nat
    BY <2>3, SubsetBound
  <2>5. Cardinality(S \cup R) = Cardinality(S) + Cardinality(R)
    <3>1. Cardinality(S \cup R) = Cardinality(S) + Cardinality(R) - Cardinality(S \cap R)
      BY <1>1, <2>4, FS_Union
    <3>2. Cardinality(S \cap R) = 0
      BY <2>3, FS_EmptySet
    <3> QED
      BY <1>1, <2>4, <3>1, <3>2
  <2>6. Cardinality(S \cup R) <= n
    BY <1>2, <2>3, SubsetBound
  <2>7. rank(9) <= Cardinality(S)
    BY <2>1, <2>2
  <2> QED
    BY <1>3, <1>4, <1>6, <2>4, <2>5, <2>6, <2>7
<1>11. Baseline!Quantile(f, 1) \in Nat /\ Baseline!Quantile(f, 1) <= x
  <2> PICK v : v = Baseline!Quantile(f, 1)
    OBVIOUS
  <2>0. rank(1) \in 1 .. Cardinality(K) /\ v = Baseline!Ranked(f, rank(1))
    BY <1>2, <1>7, <1>9
  <2>1. v \in Nat /\ \A S : S = {i \in K : f[i] < v} => Cardinality(S) < rank(1)
    BY <2>0, RankedIs
  <2> SUFFICES ASSUME x < v PROVE FALSE
    BY <2>1
  <2>2. PICK S : S = {i \in K : f[i] < v}
    OBVIOUS
  <2>3. S \subseteq K /\ R \subseteq S
    BY <2>2
  <2>4. Cardinality(R) <= Cardinality(S) /\ Cardinality(S) \in Nat
    BY <2>3, SubsetBound
  <2>5. Cardinality(S) < rank(1)
    BY <2>1, <2>2
  <2> QED
    BY <1>3, <1>4, <1>7, <2>4, <2>5
<1> QED
  BY <1>10, <1>11

\* The last k rows, and the flagged among them.
Run(rs, k) == {i \in DOMAIN rs : i > Len(rs) - k}
Marked(rs, k) == {i \in Run(rs, k) : rs[i].flagged # Baseline!Ordinary}

\* The last k rows are of one stretch, of which n were flagged: those are still among
\* them unless the stretch is longer than what is kept.
RunOK(rs, k, n) ==
  /\ \A i \in Run(rs, k) : rs[i].level = rs[Len(rs)].level /\ ~rs[i].degraded
  /\ k <= Len(rs) => n <= Cardinality(Marked(rs, k))

BaselineSafe ==
  /\ rows \in Seq(Baseline!Row) /\ Len(rows) <= Retention_baseline
  /\ same \in Nat /\ flags \in Nat /\ flags <= (Retention_baseline \div 4) + 1
  /\ RunOK(rows, same, flags)

LEMMA MarkedFinite ==
  ASSUME NEW rs \in Seq(Baseline!Row), NEW k \in Nat
  PROVE  /\ IsFiniteSet(DOMAIN rs) /\ Cardinality(DOMAIN rs) = Len(rs) /\ Len(rs) \in Nat
         /\ IsFiniteSet(Marked(rs, k)) /\ Cardinality(Marked(rs, k)) \in Nat
<1>1. Len(rs) \in Nat /\ DOMAIN rs = 1 .. Len(rs)
  BY LenProperties
<1>2. IsFiniteSet(DOMAIN rs) /\ Cardinality(DOMAIN rs) = Len(rs)
  BY SMTT(30), <1>1, FS_Interval
<1>3. Marked(rs, k) \subseteq DOMAIN rs
  BY DEF Marked, Run
<1> QED
  BY <1>1, <1>2, <1>3, SubsetBound

\* A stretch that goes on.
LEMMA RunGoesOn ==
  ASSUME NEW rs \in Seq(Baseline!Row), rs # << >>, NEW row \in Baseline!Row,
         NEW k \in Nat, NEW n \in Nat, RunOK(rs, k, n),
         row.level = rs[Len(rs)].level, ~row.degraded, NEW all, all = Append(rs, row)
  PROVE  RunOK(all, k + 1, n + IF row.flagged # Baseline!Ordinary THEN 1 ELSE 0)
<1>1. /\ Len(rs) \in Nat /\ DOMAIN rs = 1 .. Len(rs)
      /\ Len(all) = Len(rs) + 1 /\ DOMAIN all = 1 .. (Len(rs) + 1)
      /\ all[Len(rs) + 1] = row
      /\ \A i \in 1 .. Len(rs) : all[i] = rs[i]
  BY LenProperties, AppendProperties
<1>2. Run(all, k + 1) = Run(rs, k) \cup {Len(rs) + 1}
  BY <1>1 DEF Run
<1>3. Run(rs, k) \subseteq 1 .. Len(rs)
  BY <1>1 DEF Run
<1>4. \A i \in Run(all, k + 1) : all[i].level = all[Len(all)].level /\ ~all[i].degraded
  BY <1>1, <1>2, <1>3 DEF RunOK
<1>5. ASSUME k + 1 <= Len(all)
      PROVE  n + (IF row.flagged # Baseline!Ordinary THEN 1 ELSE 0) <= Cardinality(Marked(all, k + 1))
  <2>1. n <= Cardinality(Marked(rs, k))
    BY <1>1, <1>5 DEF RunOK
  <2>2. IsFiniteSet(Marked(rs, k)) /\ Cardinality(Marked(rs, k)) \in Nat
    BY MarkedFinite
  <2>3. CASE row.flagged # Baseline!Ordinary
    <3>1. Marked(all, k + 1) = Marked(rs, k) \cup {Len(rs) + 1} /\ Len(rs) + 1 \notin Marked(rs, k)
      BY <1>1, <1>2, <1>3, <2>3 DEF Marked
    <3>2. Cardinality(Marked(all, k + 1)) = Cardinality(Marked(rs, k)) + 1
      BY <2>2, <3>1, FS_AddElement
    <3> QED
      BY <2>1, <2>2, <2>3, <3>2
  <2>4. CASE row.flagged = Baseline!Ordinary
    <3>1. Marked(all, k + 1) = Marked(rs, k)
      BY <1>1, <1>2, <1>3, <2>4 DEF Marked
    <3> QED
      BY <2>1, <2>4, <3>1
  <2> QED
    BY <2>3, <2>4
<1> QED
  BY <1>4, <1>5 DEF RunOK

\* A stretch that begins, and a row that is of none.
LEMMA RunBegins ==
  ASSUME NEW rs \in Seq(Baseline!Row), NEW row \in Baseline!Row, NEW all, all = Append(rs, row)
  PROVE  /\ RunOK(all, 0, 0)
         /\ ~row.degraded => RunOK(all, 1, IF row.flagged # Baseline!Ordinary THEN 1 ELSE 0)
<1>1. /\ Len(rs) \in Nat /\ Len(all) = Len(rs) + 1 /\ DOMAIN all = 1 .. (Len(rs) + 1)
      /\ all[Len(rs) + 1] = row /\ all \in Seq(Baseline!Row)
  BY LenProperties, AppendProperties
<1>2. Run(all, 0) = {} /\ Run(all, 1) = {Len(rs) + 1}
  BY <1>1 DEF Run
<1>3. Cardinality(Marked(all, 0)) \in Nat /\ Cardinality(Marked(all, 1)) \in Nat
  BY <1>1, MarkedFinite
<1>4. row.flagged # Baseline!Ordinary => Marked(all, 1) = {Len(rs) + 1}
  BY <1>1, <1>2 DEF Marked
<1>5. row.flagged # Baseline!Ordinary => Cardinality(Marked(all, 1)) = 1
  BY <1>4, FS_Singleton
<1>6. RunOK(all, 0, 0)
  BY <1>2, <1>3 DEF RunOK
<1>7. ASSUME ~row.degraded
      PROVE  RunOK(all, 1, IF row.flagged # Baseline!Ordinary THEN 1 ELSE 0)
  <2>1. \A i \in Run(all, 1) : all[i].level = all[Len(all)].level /\ ~all[i].degraded
    BY <1>1, <1>2, <1>7
  <2>2. (IF row.flagged # Baseline!Ordinary THEN 1 ELSE 0) <= Cardinality(Marked(all, 1))
    <3>1. CASE row.flagged # Baseline!Ordinary
      BY <1>5, <3>1
    <3>2. CASE row.flagged = Baseline!Ordinary
      BY <1>3, <3>2
    <3> QED
      BY <3>1, <3>2
  <2> QED
    BY <2>1, <2>2 DEF RunOK
<1> QED
  BY <1>6, <1>7

\* The oldest row is thrown away.
LEMMA RunTrimmed ==
  ASSUME NEW rs \in Seq(Baseline!Row), rs # << >>, NEW k \in Nat, NEW n \in Nat, RunOK(rs, k, n),
         NEW t, t = Tail(rs)
  PROVE  RunOK(t, k, n)
<1>1. /\ Len(rs) \in Nat \ {0} /\ DOMAIN rs = 1 .. Len(rs)
      /\ t \in Seq(Baseline!Row) /\ Len(t) = Len(rs) - 1 /\ DOMAIN t = 1 .. (Len(rs) - 1)
      /\ \A i \in 1 .. (Len(rs) - 1) : t[i] = rs[i + 1]
  BY LenProperties, HeadTailProperties, EmptySeq
<1>2. \A i \in Run(t, k) : i \in 1 .. (Len(rs) - 1) /\ i + 1 \in Run(rs, k)
  BY <1>1 DEF Run
<1>3. \A i \in Run(t, k) : t[i].level = t[Len(t)].level /\ ~t[i].degraded
  <2> TAKE i \in Run(t, k)
  <2>1. t[i] = rs[i + 1] /\ t[Len(t)] = rs[Len(rs)]
    BY <1>1, <1>2
  <2> QED
    BY <1>2, <2>1 DEF RunOK
<1>4. ASSUME k <= Len(t)
      PROVE  n <= Cardinality(Marked(t, k))
  <2> DEFINE M == Marked(rs, k)
             N == Marked(t, k)
             f == [i \in M |-> i - 1]
  <2>1. n <= Cardinality(M) /\ IsFiniteSet(M) /\ Cardinality(M) \in Nat
    BY SMTT(30), <1>1, <1>4, MarkedFinite DEF RunOK
  <2>2. \A i \in M : i \in Int /\ i - 1 \in N
    BY <1>1, <1>4 DEF Marked, Run
  <2>3. IsFiniteSet(N) /\ Cardinality(N) \in Nat
    BY <1>1, MarkedFinite
  <2> HIDE DEF M, N
  <2>4. f \in Injection(M, N)
    BY <2>2 DEF Injection, IsInjective
  <2>5. Cardinality(M) <= Cardinality(N)
    BY <2>3, <2>4, FS_Injection
  <2>6. n <= Cardinality(N)
    BY <2>1, <2>3, <2>5
  <2> QED
    BY <2>6 DEF N
<1> QED
  BY <1>3, <1>4 DEF RunOK

\* Of a stretch longer than what is kept, how long it is does not matter.
LEMMA RunCapped ==
  ASSUME NEW rs \in Seq(Baseline!Row), NEW k \in Nat, NEW m \in Nat, NEW n \in Nat,
         RunOK(rs, k, n), k > Len(rs), m > Len(rs)
  PROVE  RunOK(rs, m, n)
<1>1. Len(rs) \in Nat /\ DOMAIN rs = 1 .. Len(rs)
  BY LenProperties
<1>2. Run(rs, m) = DOMAIN rs /\ Run(rs, k) = DOMAIN rs
  BY <1>1 DEF Run
<1> QED
  BY <1>1, <1>2 DEF RunOK

\* What more than a quarter of the rows learned from saw is ordinary.
LEMMA QuarterIsOrdinary ==
  ASSUME NEW rs \in Seq(Baseline!Row), NEW place, NEW level \in Levels,
         NEW R, R \subseteq Baseline!Kept(rs), \A i \in R : rs[i].level = level,
         4 * Cardinality(R) > Cardinality(Baseline!Kept(rs))
  PROVE  Baseline!Judge(level, Baseline!Baseline(rs, place)) = Baseline!Ordinary
<1> DEFINE K == Baseline!Kept(rs)
           eventsOf == [i \in K |-> rs[i].level[1]]
           devicesOf == [i \in K |-> rs[i].level[2]]
           st == Baseline!Baseline(rs, place)
<1>1. K \subseteq DOMAIN rs /\ IsFiniteSet(K)
  <2>1. K \subseteq DOMAIN rs
    BY DEF Baseline!Kept, Baseline!Sound
  <2> QED
    BY <2>1, MarkedFinite, SubsetBound
<1>2. level[1] \in Nat /\ level[2] \in Nat
  BY BaselineAssumption
<1>3. \A i \in K : rs[i].level[1] \in Nat /\ rs[i].level[2] \in Nat
  <2> TAKE i \in K
  <2>1. rs[i] \in Baseline!Row
    BY <1>1, LenProperties, ElementOfSeq
  <2> QED
    BY <2>1, BaselineAssumption DEF Baseline!Row
<1>4. /\ st.p90Events = Baseline!Quantile(eventsOf, 9) /\ st.p90Devices = Baseline!Quantile(devicesOf, 9)
      /\ st.p10Devices = Baseline!Quantile(devicesOf, 1)
  BY DEF Baseline!Baseline
<1>5. st.p90Events \in Nat /\ level[1] <= st.p90Events
  <2>1. DOMAIN eventsOf = K /\ (\A i \in K : eventsOf[i] \in Nat) /\ \A i \in R : eventsOf[i] = level[1]
    BY <1>3
  <2> HIDE DEF K, eventsOf, st
  <2>2. 4 * Cardinality(R) > Cardinality(K) /\ R \subseteq K
    BY DEF K
  <2> QED
    BY SMTT(30), <1>1, <1>2, <1>4, <2>1, <2>2, QuarterWithin
<1>6. /\ st.p90Devices \in Nat /\ level[2] <= st.p90Devices
      /\ st.p10Devices \in Nat /\ st.p10Devices <= level[2]
  <2>1. DOMAIN devicesOf = K /\ (\A i \in K : devicesOf[i] \in Nat) /\ \A i \in R : devicesOf[i] = level[2]
    BY <1>3
  <2> HIDE DEF K, devicesOf, st
  <2>2. 4 * Cardinality(R) > Cardinality(K) /\ R \subseteq K
    BY DEF K
  <2> QED
    BY <1>1, <1>2, <1>4, <2>1, <2>2, QuarterWithin
<1> HIDE DEF st, eventsOf, devicesOf, K
<1>7. ~Baseline!Spread(level[2], st) /\ ~Baseline!Volume(level[1], level[2], st)
      /\ ~Baseline!Fewer(level[1], level[2], st)
  BY <1>2, <1>5, <1>6 DEF Baseline!Spread, Baseline!Volume, Baseline!Fewer
<1>8. Baseline!Judge(level, st) = Baseline!Ordinary
  BY <1>7 DEF Baseline!Judge
<1> QED
  BY <1>8 DEF st

\* A stretch that goes on is flagged once more only while few of it were.
LEMMA FlaggedOnceMore ==
  ASSUME BaselineSafe, rows # << >>, NEW place, NEW level \in Levels, level = rows[Len(rows)].level,
         Baseline!Judge(level, Baseline!Baseline(rows, place)) # Baseline!Ordinary
  PROVE  flags <= Retention_baseline \div 4
<1> DEFINE K == Baseline!Kept(rows)
           sound == Baseline!Sound(rows)
           unusual == Baseline!Unusual(rows)
           M == Marked(rows, same)
<1>1. /\ rows \in Seq(Baseline!Row) /\ Len(rows) <= Retention_baseline /\ Len(rows) \in Nat
      /\ same \in Nat /\ flags \in Nat /\ RunOK(rows, same, flags) /\ Retention_baseline \in Nat
      /\ DOMAIN rows = 1 .. Len(rows)
      /\ IsFiniteSet(DOMAIN rows) /\ Cardinality(DOMAIN rows) = Len(rows)
      /\ IsFiniteSet(M) /\ Cardinality(M) \in Nat
  BY BaselineAssumption, MarkedFinite, LenProperties DEF BaselineSafe
<1>2. sound \subseteq DOMAIN rows /\ K \subseteq sound /\ unusual \subseteq sound
  BY DEF Baseline!Kept, Baseline!Sound, Baseline!Unusual
<1>3. /\ IsFiniteSet(sound) /\ Cardinality(sound) \in Nat /\ Cardinality(sound) <= Len(rows)
      /\ IsFiniteSet(K) /\ Cardinality(K) \in Nat
      /\ IsFiniteSet(unusual) /\ Cardinality(unusual) \in Nat
  <2> HIDE DEF sound, K, unusual, M
  <2>1. /\ IsFiniteSet(sound) /\ Cardinality(sound) \in Nat
        /\ Cardinality(sound) <= Cardinality(DOMAIN rows)
    BY <1>1, <1>2, SubsetBound
  <2> QED
    BY <1>1, <1>2, <2>1, SubsetBound
<1>4. K # {}
  <2> SUFFICES ASSUME K = {} PROVE FALSE
    OBVIOUS
  <2>1. Baseline!Baseline(rows, place).earned = FALSE
    BY DEF Baseline!Baseline
  <2> QED
    BY <2>1 DEF Baseline!Judge
<1>5. \A R : R \subseteq K /\ (\A i \in R : rows[i].level = level)
               => ~(4 * Cardinality(R) > Cardinality(K))
  BY <1>1, QuarterIsOrdinary
<1>6. CASE same > Len(rows)
  <2>1. \A i \in K : rows[i].level = level
    BY <1>1, <1>2, <1>6 DEF RunOK, Run
  <2>2. Cardinality(K) # 0
    BY <1>3, <1>4, FS_EmptySet
  <2> HIDE DEF K
  <2>3. ~(4 * Cardinality(K) > Cardinality(K))
    BY <1>5, <2>1
  <2> QED
    BY <1>3, <2>2, <2>3
<1>7. CASE same <= Len(rows)
  <2>1. flags <= Cardinality(M)
    BY <1>1, <1>7 DEF RunOK
  <2>2. M \subseteq unusual /\ \A i \in M : rows[i].level = level
    BY <1>1 DEF RunOK, Marked, Run, Baseline!Unusual, Baseline!Sound
  <2>3. Cardinality(M) <= Cardinality(unusual)
    <3> HIDE DEF M, unusual
    <3> QED
      BY <1>3, <2>2, SubsetBound
  <2>4. CASE 4 * Cardinality(unusual) <= Cardinality(sound)
    <3> HIDE DEF M, unusual, sound, K
    <3> QED
      BY <1>1, <1>3, <2>1, <2>3, <2>4
  <2>5. CASE ~(4 * Cardinality(unusual) <= Cardinality(sound))
    <3>1. K = sound
      BY <2>5, SameCardinality DEF Baseline!Kept
    <3>2. ~(4 * Cardinality(M) > Cardinality(sound))
      <4> HIDE DEF M, unusual, sound, K
      <4> QED
        BY <1>2, <1>5, <2>2, <3>1
    <3> HIDE DEF M, unusual, sound, K
    <3> QED
      BY <1>1, <1>3, <2>1, <3>2
  <2> QED
    BY <2>4, <2>5
<1> QED
  BY <1>1, <1>6, <1>7

LEMMA BaselineInit == Baseline!Init => BaselineSafe
<1> SUFFICES ASSUME Baseline!Init PROVE BaselineSafe
  OBVIOUS
<1>1. rows = << >> /\ same = 0 /\ flags = 0 /\ rows \in Seq(Baseline!Row) /\ Len(rows) = 0
  BY EmptySeq DEF Baseline!Init
<1>2. Run(rows, 0) = {}
  BY <1>1 DEF Run
<1>3. Cardinality(Marked(rows, 0)) \in Nat
  BY <1>1, MarkedFinite
<1> QED
  BY <1>1, <1>2, <1>3, BaselineAssumption DEF BaselineSafe, RunOK

LEMMA BaselineNext == BaselineSafe /\ [Baseline!Next]_(Baseline!vars) => BaselineSafe'
<1> SUFFICES ASSUME BaselineSafe, [Baseline!Next]_(Baseline!vars) PROVE BaselineSafe'
  OBVIOUS
<1>1. ASSUME NEW level \in Levels, NEW degraded \in BOOLEAN, NEW judged \in BOOLEAN,
             Baseline!Close(level, degraded, judged)
      PROVE  BaselineSafe'
  <2> PICK fresh : fresh = [level |-> level, degraded |-> degraded, flagged |-> Baseline!Ordinary]
    OBVIOUS
  <2> PICK flag : flag = IF judged THEN Baseline!JudgeClosed(fresh) ELSE Baseline!Ordinary
    OBVIOUS
  <2> PICK row : row = Baseline!Flagged(fresh, flag)
    OBVIOUS
  <2> PICK all : all = Append(rows, row)
    OBVIOUS
  <2> PICK goesOn \in BOOLEAN :
             goesOn = (rows # << >> /\ rows[Len(rows)].level = level /\ ~degraded)
    OBVIOUS
  <2> PICK one \in {0, 1} : one = IF flag # Baseline!Ordinary THEN 1 ELSE 0
    OBVIOUS
  <2>1. /\ rows' = (IF Len(all) > Retention_baseline THEN Tail(all) ELSE all)
        /\ same' = (IF ~goesOn THEN (IF degraded THEN 0 ELSE 1)
                    ELSE IF same < 2 * Retention_baseline THEN same + 1 ELSE same)
        /\ flags' = (IF goesOn THEN flags ELSE 0) + one
    BY <1>1 DEF Baseline!Close, Baseline!Last
  <2>2. /\ rows \in Seq(Baseline!Row) /\ Len(rows) \in Nat /\ Len(rows) <= Retention_baseline
        /\ Retention_baseline \in Nat /\ same \in Nat /\ flags \in Nat
        /\ flags <= (Retention_baseline \div 4) + 1
        /\ RunOK(rows, same, flags)
    BY BaselineAssumption, LenProperties DEF BaselineSafe
  <2>3. flag \in {Baseline!Ordinary, Baseline!Busy, Baseline!Quiet}
        /\ (degraded => flag = Baseline!Ordinary)
    BY DEF Baseline!JudgeClosed, Baseline!Judge
  <2>4. row \in Baseline!Row /\ row.level = level /\ row.degraded = degraded /\ row.flagged = flag
    BY <2>3 DEF Baseline!Row, Baseline!Flagged
  <2>5. /\ all \in Seq(Baseline!Row) /\ all # << >> /\ Len(all) = Len(rows) + 1
    BY <2>2, <2>4, AppendProperties
  <2>6. flags' \in Nat /\ flags' <= (Retention_baseline \div 4) + 1
    <3>1. CASE goesOn /\ one = 1
      <4>1. judged /\ ~degraded /\ Baseline!Judge(level, Baseline!Stats) # Baseline!Ordinary
        BY <3>1 DEF Baseline!JudgeClosed
      <4>2. flags <= Retention_baseline \div 4
        BY <3>1, <4>1, FlaggedOnceMore DEF Baseline!Stats
      <4> QED
        BY <2>1, <2>2, <3>1, <4>2
    <3>2. CASE ~goesOn \/ one = 0
      BY <2>1, <2>2, <3>2
    <3> QED
      BY <3>1, <3>2
  <2>7. \E k \in Nat : RunOK(all, k, flags')
          /\ (same' = k \/ (same' > Retention_baseline /\ k > Retention_baseline + 1))
    <3>1. CASE goesOn
      <4>1. RunOK(all, same + 1, flags + one)
        BY <2>2, <2>4, <3>1, RunGoesOn
      <4>2. flags' = flags + one
        BY <2>1, <3>1
      <4>3. Retention_baseline > 0
        <5>1. rows # << >>
          BY <3>1
        <5>2. Len(rows) \in Nat \ {0}
          BY <2>2, <5>1, EmptySeq
        <5> QED
          BY <2>2, <5>2
      <4>4. same' = same + 1 \/ (same' = same /\ same >= 2 * Retention_baseline)
        BY <2>1, <2>2, <3>1
      <4>5. same' = same + 1 \/ (same' > Retention_baseline /\ same + 1 > Retention_baseline + 1)
        BY <2>2, <4>3, <4>4
      <4>6. same + 1 \in Nat
        BY <2>2
      <4> QED
        BY <4>1, <4>2, <4>5, <4>6
    <3>2. CASE ~goesOn /\ degraded
      <4>1. same' = 0 /\ flags' = 0
        BY <2>1, <2>3, <3>2
      <4> QED
        BY <2>2, <2>4, <4>1, RunBegins
    <3>3. CASE ~goesOn /\ ~degraded
      <4>1. same' = 1 /\ flags' = one
        BY <2>1, <3>3
      <4>2. RunOK(all, 1, one)
        BY ZenonT(60), <2>2, <2>4, <3>3, RunBegins
      <4> QED
        BY <4>1, <4>2
    <3> QED
      BY <3>1, <3>2, <3>3
  <2>8. same' \in Nat
    BY <2>1, <2>2
  <2>9. /\ rows' \in Seq(Baseline!Row) /\ Len(rows') <= Retention_baseline /\ Len(rows') \in Nat
        /\ \A k \in Nat : RunOK(all, k, flags') => RunOK(rows', k, flags')
    <3>1. CASE Len(all) > Retention_baseline
      <4>1. rows' = Tail(all)
        BY <2>1, <3>1
      <4>2. rows' \in Seq(Baseline!Row) /\ Len(rows') = Len(all) - 1
        BY <2>5, <4>1, HeadTailProperties
      <4>3. \A k \in Nat : RunOK(all, k, flags') => RunOK(rows', k, flags')
        BY <2>5, <2>6, <4>1, RunTrimmed
      <4> QED
        BY <2>2, <2>5, <4>2, <4>3
    <3>2. CASE ~(Len(all) > Retention_baseline)
      BY <2>1, <2>2, <2>5, <3>2
    <3> QED
      BY <3>1, <3>2
  <2>10. RunOK(rows', same', flags')
    <3>1. PICK k \in Nat : /\ RunOK(all, k, flags')
                           /\ same' = k \/ (same' > Retention_baseline /\ k > Retention_baseline + 1)
      BY <2>7
    <3>2. RunOK(rows', k, flags')
      BY <2>9, <3>1
    <3>3. CASE same' = k
      BY <3>2, <3>3
    <3>4. CASE same' > Retention_baseline /\ k > Retention_baseline + 1
      <4>1. same' > Len(rows') /\ k > Len(rows')
        BY <2>2, <2>8, <2>9, <3>4
      <4> QED
        BY <2>6, <2>8, <2>9, <3>2, <4>1, RunCapped
    <3> QED
      BY <3>1, <3>3, <3>4
  <2>11. RunOK(rows, same, flags)'
    BY <2>10 DEF RunOK, Run, Marked
  <2> QED
    BY <2>6, <2>8, <2>9, <2>11 DEF BaselineSafe
<1>2. CASE UNCHANGED Baseline!vars
  BY <1>2 DEF Baseline!vars, BaselineSafe, RunOK, Run, Marked
<1> QED
  BY <1>1, <1>2 DEF Baseline!Next

\* However much a site changes, one stretch at one level is flagged in no more of its
\* intervals than a quarter of the rows kept, and one.
THEOREM ChangeIsLearnedSafe == Spec => []ChangeIsLearned
<1> DEFINE Safe == subject = "baseline" => BaselineSafe
<1>1. Init => Safe
  BY BaselineInit DEF Init
<1>2. Safe /\ [Next]_vars => Safe'
  BY StepsOfSubject, BaselineNext
<1>3. Safe => ChangeIsLearned
  BY DEF BaselineSafe, ChangeIsLearned, Baseline!ChangeIsLearned
<1> QED
  BY <1>1, <1>2, <1>3, PTL DEF Spec

-----------------------------------------------------------------------------
(* Types, part by part.                                                    *)

\* The watcher's stamps are of versions the file has had.
ConfigTypes ==
  /\ ConfigSafe
  /\ file_config.stamp \in Nat
  /\ applied \in 0 .. file_config.stamp /\ pending \in 0 .. file_config.stamp

LEMMA ConfigTyped == ConfigTypes => Config!TypeOK
<1> SUFFICES ASSUME ConfigTypes PROVE Config!TypeOK
  OBVIOUS
<1>1. /\ current_config.settings \in Config!Prefix .. MaxChanges
      /\ current_config.peer \in 0 .. MaxChanges + 1
      /\ current_config.over \in 0 .. Len(maps)
  BY DEF ConfigTypes, ConfigSafe, ForceOK, InUse, Configuration
<1>2. watcher.at \in {"free", "load", "current", "apply"}
  BY DEF ConfigTypes, ConfigSafe, WatcherOK, Config!Free
<1>3. maps \in Seq({"undecided", "decided"})
  BY DEF ConfigTypes, ConfigSafe, HeapOK, Said
<1> QED
  BY <1>1, <1>2, <1>3 DEF ConfigTypes, Config!TypeOK

LEMMA ConfigTypesInit == Config!Init => ConfigTypes
<1> SUFFICES ASSUME Config!Init PROVE ConfigTypes
  OBVIOUS
<1>1. file_config.stamp = 1 /\ applied = 1 /\ pending = 0
  BY DEF Config!Init, Config!None
<1> QED
  BY <1>1, ConfigInit DEF ConfigTypes

\* A step that leaves the file, or that writes it once more, and does not look at it.
LEMMA ConfigStampKept ==
  ASSUME ConfigTypes, ConfigSafe', file_config'.stamp \in {file_config.stamp, file_config.stamp + 1},
         UNCHANGED <<applied, pending>>
  PROVE  ConfigTypes'
BY DEF ConfigTypes

LEMMA ConfigRequestTypes ==
  ASSUME ConfigTypes, ConfigSafe', NEW r \in Requests,
         \/ \E op \in Config!Ops : Config!Read(r, op)
         \/ Config!Handle(r) \/ Config!SaveFails(r) \/ Config!ApplyFails(r)
  PROVE  ConfigTypes'
<1>1. CASE Config!Save(r)
  <2>1. file_config'.stamp = file_config.stamp + 1 /\ UNCHANGED <<applied, pending>>
    BY <1>1 DEF Config!Save, Config!Write, Config!watch
  <2> QED
    BY <2>1, ConfigStampKept
<1>2. CASE Config!Written(r)
  <2>1. applied' = file_config.stamp /\ pending' = 0 /\ file_config' = file_config
    BY <1>2 DEF Config!Written, Config!None
  <2> QED
    BY <2>1 DEF ConfigTypes
<1>3. CASE \/ \E op \in Config!Ops : Config!Read(r, op)
           \/ Config!Publish(r) \/ Config!ApplyPart(r) \/ Config!SaveFails(r) \/ Config!ApplyFails(r)
  <2>1. UNCHANGED <<file_config, applied, pending>>
    BY <1>3 DEF Config!Read, Config!Publish, Config!ApplyPart, Config!SaveFails, Config!ApplyFails,
       Config!watch
  <2> QED
    BY <2>1, ConfigStampKept
<1> QED
  BY <1>1, <1>2, <1>3 DEF Config!Handle

LEMMA EditorTypes ==
  ASSUME ConfigTypes, ConfigSafe', Config!EditBegins \/ Config!EditEnds
  PROVE  ConfigTypes'
<1>1. file_config'.stamp = file_config.stamp + 1 /\ UNCHANGED <<applied, pending>>
  <2>1. \E content : \E half :
         file_config' = [content |-> content, stamp |-> file_config.stamp + 1, torn |-> half]
    <3>1. CASE Config!EditBegins
      BY <3>1 DEF Config!EditBegins
    <3>2. CASE Config!EditEnds
      <4>1. \E content : Config!Write(content)
        BY <3>2 DEF Config!EditEnds
      <4> QED
        BY <4>1, <3>2 DEF Config!Write
    <3> QED
      BY <3>1, <3>2
  <2>2. UNCHANGED <<applied, pending>>
    BY DEF Config!EditBegins, Config!EditEnds, Config!watch
  <2> QED
    BY <2>1, <2>2
<1> QED
  BY <1>1, ConfigStampKept

LEMMA ConfigTypesNext ==
  ASSUME ConfigTypes, [Config!Next]_(Config!vars)
  PROVE  ConfigTypes'
<1>1. ConfigSafe'
  BY ConfigNext DEF ConfigTypes
<1>2. CASE Config!Watch \/ Config!FilePartFails
  <2>1. file_config' = file_config
    BY <1>2 DEF Config!Watch, Config!FilePartFails, Config!Notice, Config!Look, Config!Load,
       Config!FromFile, Config!FilePart
  <2>2. /\ applied' \in {applied, file_config.stamp}
        /\ pending' \in {pending, 0, file_config.stamp}
    BY <1>2 DEF Config!Watch, Config!FilePartFails, Config!Notice, Config!Look, Config!Load,
       Config!FromFile, Config!FilePart, Config!watch, Config!None
  <2> QED
    BY <1>1, <2>1, <2>2 DEF ConfigTypes
<1>3. CASE Config!Start
  <2>1. applied' = file_config.stamp /\ pending' = 0 /\ file_config' = file_config
    BY <1>3 DEF Config!Start, Config!None
  <2> QED
    BY <1>1, <2>1 DEF ConfigTypes
<1>4. CASE Config!Crash \/ UNCHANGED Config!vars
  <2>1. UNCHANGED <<file_config, applied, pending>>
    BY <1>4 DEF Config!Crash, Config!vars, Config!watch
  <2> QED
    BY <1>1, <2>1, ConfigStampKept DEF ConfigTypes
<1> QED
  BY <1>1, <1>2, <1>3, <1>4, ConfigRequestTypes, EditorTypes DEF Config!Next

\* What cannot be built is switched on.
LEMMA BrokenIsEnabled ==
  ASSUME NEW c
  PROVE  {b \in Routing!Builtins : c.channel[b] \in Routing!CannotBuild[b]}
           \cup {Routing!HookName(c.hooks[i]) : i \in {i \in DOMAIN c.hooks : c.hooks[i].state \in Routing!CannotBuild.webhook}}
         \subseteq Routing!EnabledChannelNames(c)
<1>1. ASSUME NEW b \in Routing!Builtins, NEW state \in Routing!CannotBuild[b]
      PROVE  Routing!On(state)
  <2>1. /\ Routing!CannotBuild["ntfy"] = Routing!NtfyCannot /\ Routing!CannotBuild["email"] = Routing!EmailCannot
        /\ Routing!CannotBuild["pushover"] = Routing!PushoverCannot
        /\ Routing!CannotBuild["voice"] = Routing!VoiceCannot
    BY DEF Routing!CannotBuild
  <2>2. state \in Routing!NtfyCannot \cup Routing!EmailCannot \cup Routing!PushoverCannot \cup Routing!VoiceCannot
    BY <2>1 DEF Routing!Builtins
  <2> QED
    BY <2>2 DEF Routing!NtfyCannot, Routing!EmailCannot, Routing!PushoverCannot, Routing!VoiceCannot,
       Routing!Refuses, Routing!On
<1>2. ASSUME NEW state \in Routing!CannotBuild.webhook
      PROVE  Routing!On(state)
  BY <1>2 DEF Routing!CannotBuild, Routing!WebhookCannot, Routing!Refuses, Routing!On
<1> QED
  BY <1>1, <1>2 DEF Routing!EnabledChannelNames, Routing!HookNames

\* Channels are of the configuration, and ladders of a severity or the operator's.
RoutingTypes ==
  /\ phase_routing \in {"file", "accepted", "built", "running", "refused", "stopped"}
  /\ queues \subseteq Routing!EnabledChannelNames(config)
  /\ broken_routing \subseteq Routing!EnabledChannelNames(config)
  /\ DOMAIN ladders \subseteq Routing!Severities \cup {config.policy.severity}

LEMMA NoLadders == DOMAIN << >> = {}
OBVIOUS

LEMMA RoutingTypesInit == Routing!Init => RoutingTypes
BY NoLadders DEF Routing!Init, RoutingTypes

LEMMA RoutingTypesNext ==
  ASSUME RoutingTypes, [Routing!Next]_(Routing!vars)
  PROVE  RoutingTypes'
<1> USE DEF RoutingTypes
<1>1. CASE Routing!Read
  <2>1. UNCHANGED <<config, queues, broken_routing, ladders>> /\ phase_routing' \in {"accepted", "refused"}
    BY <1>1 DEF Routing!Read
  <2>2. Routing!EnabledChannelNames(config)' = Routing!EnabledChannelNames(config)
    BY <2>1
  <2> QED
    BY <2>1, <2>2
<1>2. CASE Routing!BuildDelivery
  <2>1. UNCHANGED <<config, ladders>> /\ phase_routing' = "built"
    BY <1>2 DEF Routing!BuildDelivery
  <2>2. /\ broken_routing' \subseteq Routing!EnabledChannelNames(config)
        /\ queues' \subseteq Routing!EnabledChannelNames(config)
    BY <1>2, BrokenIsEnabled DEF Routing!BuildDelivery
  <2> QED
    BY <2>1, <2>2
<1>3. CASE Routing!BuildLadders
  <2>1. UNCHANGED <<config, queues, broken_routing>> /\ phase_routing' \in {"running", "stopped"}
    BY <1>3 DEF Routing!BuildLadders
  <2>2. DOMAIN Routing!BuildPolicies(config, queues) \subseteq Routing!Severities \cup {config.policy.severity}
    BY DEF Routing!BuildPolicies
  <2>3. ladders' \in {ladders, Routing!BuildPolicies(config, queues)}
    BY <1>3 DEF Routing!BuildLadders
  <2> QED
    BY <2>1, <2>2, <2>3
<1>4. CASE Routing!Restart
  BY <1>4, NoLadders DEF Routing!Restart
<1>5. CASE \E sev \in Routing!Severities, n \in 1 .. 2 : Routing!Deliver(sev, n)
  <2>1. UNCHANGED <<config, phase_routing, queues, broken_routing, ladders>>
    BY <1>5 DEF Routing!Deliver
  <2> QED
    BY <2>1
<1>6. CASE UNCHANGED Routing!vars
  <2>1. UNCHANGED <<config, phase_routing, queues, broken_routing, ladders>>
    BY <1>6 DEF Routing!vars
  <2> QED
    BY <2>1
<1> QED
  BY <1>1, <1>2, <1>3, <1>4, <1>5, <1>6 DEF Routing!Next

\* A delivery waits only where the ladder has a step left and the deadline is not
\* reached by it.
SendTypes ==
  /\ kind \in Kinds /\ Sending!TypeOK /\ rung \in [Sending!Recipients(kind) -> Nat]
  /\ elapsed \in Nat /\ (at # "done" => elapsed <= Sending!Deadline)
  /\ at = "wait" => /\ attempt < Len(Sending!Ladder[kind])
                    /\ wait \in Nat /\ elapsed + wait < Sending!Deadline

LEMMA LadderSteps ==
  \A k \in Kinds : /\ Len(Sending!Ladder[k]) \in Nat
                   /\ \A i \in 1 .. Len(Sending!Ladder[k]) : Sending!Ladder[k][i] \in Nat
<1> SUFFICES ASSUME NEW k \in Kinds
             PROVE  /\ Len(Sending!Ladder[k]) \in Nat
                    /\ \A i \in 1 .. Len(Sending!Ladder[k]) : Sending!Ladder[k][i] \in Nat
  OBVIOUS
<1>1. k \in {"ntfy", "pushover", "webhook", "voice", "email"}
  BY SendAssumption DEF SendAssumption
<1>2. Sending!Ladder[k] \in {<<2, 8, 20>>, <<1, 4, 10>>, <<2, 6>>, << >>}
  BY <1>1 DEF Sending!Ladder
<1>3. /\ <<2, 8, 20>> \in Seq(Nat) /\ <<1, 4, 10>> \in Seq(Nat)
      /\ <<2, 6>> \in Seq(Nat) /\ << >> \in Seq(Nat)
  OBVIOUS
<1>4. Sending!Ladder[k] \in Seq(Nat)
  BY <1>2, <1>3
<1> QED
  BY <1>4, LenProperties, ElementOfSeq

LEMMA SendTypesInit == Sending!Init => SendTypes
BY LadderSteps, SendAssumption
   DEF SendAssumption, Sending!Init, SendTypes, Sending!TypeOK, Sending!Recipients, Sending!Deadline,
       Sending!Probe

LEMMA SendRequestTypes ==
  ASSUME SendTypes, Sending!Request
  PROVE  SendTypes'
<1>1. PICK t \in Times, outcome \in Sending!Outcomes, advised \in Advised :
        LET over == elapsed + t >= Sending!Deadline \/ t >= Sending!ClientTimeout
            o    == IF over THEN "lost" ELSE outcome
            now  == (IF elapsed + t > Sending!Deadline THEN Sending!Deadline ELSE elapsed + t)
                    + (IF kind = "ntfy" /\ o = "lost" THEN Sending!Probe ELSE 0)
        IN  /\ elapsed' = now
            /\ \E landed \in {(o \in Sending!MustLand), (o \in Sending!MayLand)} :
                 rung' = [rung EXCEPT ![to] = @ + (IF landed THEN 1 ELSE 0)]
            /\ Sending!Conclude(o, now, Sending!Delay(kind, o, advised))
  BY DEF Sending!Request
<1> DEFINE over == elapsed + t >= Sending!Deadline \/ t >= Sending!ClientTimeout
           o    == IF over THEN "lost" ELSE outcome
           now  == (IF elapsed + t > Sending!Deadline THEN Sending!Deadline ELSE elapsed + t)
                   + (IF kind = "ntfy" /\ o = "lost" THEN Sending!Probe ELSE 0)
           d    == Sending!Delay(kind, o, advised)
<1>2. kind' = kind /\ elapsed' = now /\ rung' \in [Sending!Recipients(kind) -> Nat] /\ Sending!Conclude(o, now, d)
  <2>1. kind' = kind /\ elapsed' = now /\ Sending!Conclude(o, now, d)
    BY <1>1 DEF Sending!Request
  <2>2. PICK n \in {0, 1} : rung' = [rung EXCEPT ![to] = @ + n]
    <3>1. PICK landed \in {(o \in Sending!MustLand), (o \in Sending!MayLand)} :
            rung' = [rung EXCEPT ![to] = @ + (IF landed THEN 1 ELSE 0)]
      BY <1>1
    <3> WITNESS (IF landed THEN 1 ELSE 0) \in {0, 1}
    <3> QED
      BY <3>1
  <2>3. rung[to] + n \in Nat
    BY DEF SendTypes, Sending!TypeOK
  <2> QED
    BY <2>1, <2>2, <2>3 DEF SendTypes
<1>3. /\ now \in Nat /\ now <= Sending!Deadline + Sending!Probe
      /\ o # "lost" => now <= Sending!Deadline
  BY SendAssumption DEF SendTypes, SendAssumption, Sending!Deadline, Sending!Probe
<1> HIDE DEF o, now
<1>4. /\ to \in Sending!Recipients(kind) /\ kind \in Kinds /\ attempt \in 0 .. Len(Sending!Ladder[kind])
      /\ Len(Sending!Ladder[kind]) \in Nat
  BY LadderSteps DEF SendTypes, Sending!TypeOK
<1>5. attempt < Len(Sending!Ladder[kind]) => d \in Nat
  BY <1>4, LadderSteps, SendAssumption DEF Sending!Delay, SendAssumption
<1> HIDE DEF d
<1>6. ASSUME Sending!NextRecipient(now)
      PROVE  /\ at' \in {"request", "done"} /\ to' \in Sending!Recipients(kind)
             /\ attempt' \in 0 .. Len(Sending!Ladder[kind])
             /\ at' = "request" => now <= Sending!Deadline
  <2>1. Len(rung) = IF kind = "voice" THEN Numbers ELSE 1
    BY SendAssumption DEF SendTypes, Sending!Recipients, SendAssumption
  <2>2. to \in 1 .. Len(rung) /\ Len(rung) \in Nat /\ Sending!Recipients(kind) = 1 .. Len(rung)
    BY <1>4, <2>1, SendAssumption DEF Sending!Recipients, SendAssumption
  <2>3. CASE at' = "done" /\ UNCHANGED <<to, attempt>>
    BY <1>4, <2>3
  <2>4. CASE to # Len(rung) /\ now < Sending!Deadline /\ at' = "request" /\ to' = to + 1 /\ attempt' = 0
    <3>1. to' \in 1 .. Len(rung)
      BY <2>2, <2>4
    <3> QED
      BY <1>3, <1>4, <2>2, <2>4, <3>1 DEF Sending!Deadline
  <2> QED
    BY <1>3, <1>6, <2>3, <2>4 DEF Sending!NextRecipient, Sending!FitsInBudget
<1>7. Sending!Verdict("lost") # "retry"
  BY <1>4, SendAssumption DEF SendAssumption, Sending!Verdict, Sending!Ntfy, Sending!Webhook, Sending!Pushover, Sending!Email, Sending!Voice
<1>8. \/ Sending!NextRecipient(now)
      \/ /\ attempt < Len(Sending!Ladder[kind]) /\ now + d < Sending!Deadline /\ o # "lost"
         /\ at' = "wait" /\ wait' = d /\ UNCHANGED <<to, attempt>>
  BY <1>2, <1>7 DEF Sending!Conclude, Sending!GivesUp, Sending!FitsInBudget
<1> QED
  BY <1>2, <1>3, <1>4, <1>5, <1>6, <1>8 DEF SendTypes, Sending!TypeOK

LEMMA SendTypesNext == SendTypes /\ [Sending!Next]_(Sending!vars) => SendTypes'
<1> SUFFICES ASSUME SendTypes, [Sending!Next]_(Sending!vars)
             PROVE  SendTypes'
  OBVIOUS
<1>1. CASE Sending!Sleep
  <2>1. /\ at' = "request" /\ elapsed' = elapsed + wait /\ attempt' = attempt + 1
        /\ UNCHANGED <<kind, to, rung>>
    BY <1>1 DEF Sending!Sleep
  <2>2. /\ attempt \in Nat /\ attempt < Len(Sending!Ladder[kind]) /\ Len(Sending!Ladder[kind]) \in Nat
        /\ elapsed \in Nat /\ wait \in Nat /\ elapsed + wait < Sending!Deadline
    BY <1>1, LadderSteps DEF Sending!Sleep, SendTypes, Sending!TypeOK
  <2>3. /\ attempt + 1 \in 0 .. Len(Sending!Ladder[kind])
        /\ elapsed + wait \in 0 .. Sending!Deadline + Sending!Probe
        /\ elapsed + wait <= Sending!Deadline
    <3> HIDE DEF Sending!Ladder
    <3> QED
      BY <2>2 DEF Sending!Deadline, Sending!Probe
  <2> QED
    BY <2>1, <2>3 DEF SendTypes, Sending!TypeOK
<1>2. CASE UNCHANGED Sending!vars
  BY <1>2 DEF Sending!vars, SendTypes, Sending!TypeOK
<1> QED
  BY <1>1, <1>2, SendRequestTypes DEF Sending!Next, Sending!Done

LEMMA TextTypes == TextSafe => Text!TypeOK
BY DEF TextSafe, Alerts, Text!TypeOK, Text!PushoverPriority

\* Who listens at all listens at an address of the configuration.
ReachTypes ==
  /\ ReachSafe /\ Reach!TypeOK
  /\ phase_reach # "down" => bound.main.host # ""

LEMMA NoListener == Reach!Nothing.main.host = ""
<1>1. Reach!Nothing.main = Reach!Unset /\ Reach!Unset.host = ""
  BY DEF Reach!Nothing, Reach!Unset
<1> QED
  BY <1>1

LEMMA ReachTypesInit == Reach!Init => ReachTypes
<1> SUFFICES ASSUME Reach!Init PROVE ReachTypes
  OBVIOUS
<1>1. ReachSafe
  BY ReachInit
<1>2. held \subseteq Int
  BY <1>1 DEF Reach!Init, ReachSafe, ValidWeb, PageAddress
<1> QED
  BY <1>1, <1>2 DEF Reach!Init, ReachTypes, Reach!TypeOK, ReachSafe, ValidWeb

LEMMA ReachTypesNext ==
  ASSUME ReachTypes, [Reach!Next]_(Reach!vars)
  PROVE  ReachTypes'
<1>1. ReachSafe /\ ReachSafe'
  BY ReachNext DEF ReachTypes
<1>2. Reach!WebProblems(file_reach)' = {}
  BY <1>1 DEF ReachSafe, ValidWeb
<1> SUFFICES /\ phase_reach' \in {"down", "binding", "picking", "saving", "up"}
             /\ taken' \subseteq Reach!Ephemeral /\ held' \subseteq Int
             /\ phase_reach' = "down" => bound' = Reach!Nothing
             /\ phase_reach' # "down" => bound'.main.host # ""
  <2>1. phase_reach' # "down" => bound' # Reach!Nothing
    BY NoListener
  <2> QED
    BY <1>1, <1>2, <2>1 DEF ReachTypes, Reach!TypeOK
<1>3. /\ phase_reach \in {"down", "binding", "picking", "saving", "up"}
      /\ taken \subseteq Reach!Ephemeral /\ held \subseteq Int
      /\ phase_reach = "down" => bound = Reach!Nothing
      /\ phase_reach # "down" => bound.main.host # ""
  BY DEF ReachTypes, Reach!TypeOK
<1>4. CASE \E w \in Reach!Settings : Reach!Edit(w)
  <2> PICK w \in Reach!Settings : Reach!Edit(w)
    BY <1>4
  <2>1. w.ack.port \in Int
    BY AddressAssumption DEF AddressAssumption, Reach!Settings
  <2> QED
    BY <1>3, <2>1 DEF Reach!Edit
<1>5. CASE Reach!Start
  <2>1. file_reach.main.host # ""
    BY <1>1, AddressAssumption DEF AddressAssumption, ReachSafe, ValidWeb
  <2>2. bound' = [Reach!Nothing EXCEPT !.main = file_reach.main] => bound'.main = file_reach.main
    BY DEF Reach!Nothing
  <2> QED
    BY <1>3, <1>5, <2>1, <2>2 DEF Reach!Start
<1>6. CASE Reach!ResolveAckListen
  <2>1. draft.ack.port \in Int
    BY <1>1 DEF ReachSafe, ValidWeb, PageAddress
  <2>2. UNCHANGED taken /\ phase_reach = "binding"
    BY <1>6 DEF Reach!ResolveAckListen
  <2>3. \/ phase_reach' = "up" /\ UNCHANGED <<bound, held>>
        \/ Reach!AsWritten(draft.ack)
        \/ Reach!PickOne(draft.ack)
    BY <1>6 DEF Reach!ResolveAckListen
  <2>4. \A a : [bound EXCEPT !.ack = a].main = bound.main
    BY <1>1 DEF ReachSafe
  <2>5. CASE Reach!AsWritten(draft.ack)
    <3>1. \/ phase_reach' = "up" /\ bound' = [bound EXCEPT !.ack = draft.ack]
             /\ held' = held \cup {draft.ack.port}
          \/ phase_reach' = "down" /\ bound' = Reach!Nothing /\ UNCHANGED held
      BY <2>5 DEF Reach!AsWritten
    <3>2. CASE phase_reach' = "up" /\ bound' = [bound EXCEPT !.ack = draft.ack]
               /\ held' = held \cup {draft.ack.port}
      <4>1. bound'.main = bound.main
        BY <2>4, <3>2
      <4>2. held' \subseteq Int
        BY <1>3, <2>1, <3>2
      <4> QED
        BY <1>3, <2>2, <3>2, <4>1, <4>2
    <3> QED
      BY <1>3, <2>2, <3>1, <3>2
  <2>6. CASE Reach!PickOne(draft.ack)
    <3>1. CASE phase_reach' = "down" /\ bound' = Reach!Nothing /\ UNCHANGED held
      BY <1>3, <2>2, <3>1
    <3>2. CASE \E p \in Reach!Ephemeral :
                 /\ phase_reach' = "picking" /\ held' = held \cup {p}
                 /\ bound' = [bound EXCEPT !.ack = picked']
      <4> PICK p \in Reach!Ephemeral :
                 /\ phase_reach' = "picking" /\ held' = held \cup {p}
                 /\ bound' = [bound EXCEPT !.ack = picked']
        BY <3>2
      <4>1. bound'.main = bound.main
        BY <2>4
      <4>2. p \in Int
        BY DEF Reach!Ephemeral
      <4> QED
        BY <1>3, <2>2, <4>1, <4>2
    <3> QED
      BY <2>6, <3>1, <3>2 DEF Reach!PickOne
  <2> QED
    BY <1>3, <2>2, <2>3, <2>5, <2>6
<1>7. CASE Reach!CopyCurrent \/ Reach!Pin \/ Reach!Crash
  BY <1>3, <1>7 DEF Reach!CopyCurrent, Reach!Pin, Reach!Crash
<1>8. CASE \E p \in Reach!Ephemeral : Reach!Others(p)
  BY <1>3, <1>8 DEF Reach!Others
<1>9. CASE UNCHANGED Reach!vars
  BY <1>3, <1>9 DEF Reach!vars
<1> QED
  BY <1>4, <1>5, <1>6, <1>7, <1>8, <1>9 DEF Reach!Next

RotatedFile == [stamp : 1 .. MaxClock, again : Nat, lines : Seq(Audit!Line)]

\* The files are lines of entries, and no two rotated files share a name.
FilesOK(d) ==
  /\ d = [current |-> d.current, rotated |-> d.rotated, pruned |-> d.pruned, handle |-> d.handle]
  /\ d.current \in Seq(Audit!Line) /\ d.handle \in {"open", "stale", "none"}
  /\ d.pruned \subseteq 1 .. MaxEntries
  /\ IsFiniteSet(d.rotated) /\ d.rotated \subseteq RotatedFile
  /\ \A f, g \in d.rotated : f.stamp = g.stamp /\ f.again = g.again => f = g

AuditTypes ==
  /\ FilesOK(disk) /\ Audit!TypeOK
  /\ torn <= faults

\* A name is free among as many as there are files and one more.
LEMMA FirstFree ==
  ASSUME NEW fs, IsFiniteSet(fs), NEW s, NEW i, i = Audit!Again(fs, s)
  PROVE  i \in Nat /\ ~\E f \in fs : f.stamp = s /\ f.again = i
<1> PICK c : c = Cardinality(fs)
  OBVIOUS
<1>1. c \in Nat /\ Audit!Cardinality(fs) = c
  BY FS_CardinalityType DEF Audit!Cardinality, Cardinality
<1> DEFINE Used(k) == \E f \in fs : f.stamp = s /\ f.again = k
           free == {k \in 0 .. c : ~Used(k)}
<1>2. free # {}
  <2> SUFFICES ASSUME \A k \in 0 .. c : Used(k)
               PROVE  FALSE
    OBVIOUS
  <2> DEFINE h == [k \in 0 .. c |-> CHOOSE f \in fs : f.stamp = s /\ f.again = k]
  <2>1. \A k \in 0 .. c : h[k] \in fs /\ h[k].again = k
    OBVIOUS
  <2>2. h \in [0 .. c -> fs]
    BY <2>1
  <2>3. IsFiniteSet(0 .. c) /\ Cardinality(0 .. c) = c + 1
    BY <1>1, FS_Interval
  <2> HIDE DEF h
  <2>4. \E j, k \in 0 .. c : j # k /\ h[j] = h[k]
    BY <1>1, <2>2, <2>3, FS_PigeonHole
  <2> QED
    BY <2>1, <2>4
<1>3. free \in SUBSET Nat
  BY <1>1
<1> HIDE DEF free
<1>4. PICK n \in free : \A m \in free : n <= m
  BY <1>2, <1>3, NatLeast
<1>5. n \in 0 .. c /\ ~Used(n)
  BY DEF free
<1>6. \A j \in 0 .. (n - 1) : Used(j)
  BY <1>1, <1>4, <1>5 DEF free
<1>7. i \in 0 .. c /\ ~Used(i)
  BY <1>1, <1>5, <1>6 DEF Audit!Again
<1> QED
  BY <1>1, <1>7

LEMMA LinesType ==
  ASSUME NEW lines \in Seq(Audit!Line)
  PROVE  /\ Audit!Entries(lines) \subseteq 1 .. MaxEntries
         /\ lines # << >> => Audit!Last(lines) \in Audit!Line
         /\ \A l \in Audit!Line :
              lines # << >> => Audit!Front(lines) \o <<l>> \in Seq(Audit!Line)
<1>1. \A i \in DOMAIN lines : lines[i] \in Audit!Line
  OBVIOUS
<1>2. Audit!Entries(lines) \subseteq 1 .. MaxEntries
  BY <1>1, AuditAssumption DEF Audit!Line, Audit!Entries, AuditAssumption
<1>3. lines # << >> => Len(lines) \in DOMAIN lines /\ Len(lines) \in Nat \ {0}
  OBVIOUS
<1>4. lines # << >> => Audit!Last(lines) \in Audit!Line
  BY <1>1, <1>3 DEF Audit!Last
<1>5. ASSUME lines # << >>, NEW l \in Audit!Line
      PROVE  Audit!Front(lines) \o <<l>> \in Seq(Audit!Line)
  <2>1. SubSeq(lines, 1, Len(lines) - 1) \in Seq(Audit!Line)
    BY <1>3, <1>5
  <2>2. <<l>> \in Seq(Audit!Line)
    OBVIOUS
  <2> QED
    BY <2>1, <2>2 DEF Audit!Front
<1> QED
  BY <1>2, <1>4, <1>5

LEMMA HealedType ==
  ASSUME NEW lines \in Seq(Audit!Line)
  PROVE  Audit!Healed(lines) \in Seq(Audit!Line)
<1>1. CASE lines = << >>
  BY <1>1 DEF Audit!Healed
<1>2. CASE lines # << >>
  <2> PICK last : last = Audit!Last(lines)
    OBVIOUS
  <2>1. last \in Audit!Line
    BY <1>2, LinesType
  <2>2. [last EXCEPT !.ended = TRUE] \in Audit!Line
    BY <2>1 DEF Audit!Line
  <2> QED
    BY <1>2, <2>2, LinesType DEF Audit!Healed
<1> QED
  BY <1>1, <1>2

LEMMA WrittenType ==
  ASSUME NEW lines \in Seq(Audit!Line), NEW e \in 0 .. MaxEntries, NEW how
  PROVE  Audit!Written(lines, e, how) \in Seq(Audit!Line)
<1> PICK whole : whole = (how = "whole")
  OBVIOUS
<1>1. whole \in BOOLEAN
  OBVIOUS
<1>2. 0 \in 0 .. MaxEntries
  BY AuditAssumption DEF AuditAssumption
<1>3. \A n \in 0 .. MaxEntries : [entry |-> n, ended |-> whole] \in Audit!Line
  BY <1>1 DEF Audit!Line
<1>4. CASE lines # << >> /\ ~Audit!Last(lines).ended
  BY <1>2, <1>3, <1>4, LinesType DEF Audit!Written
<1>5. CASE ~(lines # << >> /\ ~Audit!Last(lines).ended)
  <2> PICK n : n = (IF how = "part" THEN 0 ELSE e)
    OBVIOUS
  <2>1. [entry |-> n, ended |-> whole] \in Audit!Line
    BY <1>2, <1>3
  <2>2. Audit!Written(lines, e, how) = Append(lines, [entry |-> n, ended |-> whole])
    BY <1>5 DEF Audit!Written
  <2> QED
    BY <2>1, <2>2
<1> QED
  BY <1>4, <1>5

LEMMA ReopenedType ==
  ASSUME NEW d, FilesOK(d), NEW ok \in BOOLEAN
  PROVE  FilesOK(Audit!Reopened(d, ok))
<1> PICK cur, rot, pru, h : d = [current |-> cur, rotated |-> rot, pruned |-> pru, handle |-> h]
  BY Zenon DEF FilesOK
<1>1. d.current = cur /\ d.rotated = rot /\ d.pruned = pru /\ d.handle = h
  OBVIOUS
<1> PICK r : r = Audit!Reopened(d, ok)
  OBVIOUS
<1> PICK healed : healed = Audit!Healed(cur)
  OBVIOUS
<1>2. healed \in Seq(Audit!Line)
  BY <1>1, HealedType DEF FilesOK
<1>3. CASE ok
  <2>1. r = [current |-> healed, rotated |-> rot, pruned |-> pru, handle |-> "open"]
    BY <1>3 DEF Audit!Reopened
  <2>2. r.current = healed /\ r.rotated = rot /\ r.pruned = pru /\ r.handle = "open"
    BY <2>1
  <2> QED
    BY <1>1, <1>2, <2>1, <2>2 DEF FilesOK
<1>4. CASE ~ok
  <2>1. r = [current |-> cur, rotated |-> rot, pruned |-> pru, handle |-> "none"]
    BY <1>4 DEF Audit!Reopened
  <2>2. r.current = cur /\ r.rotated = rot /\ r.pruned = pru /\ r.handle = "none"
    BY <2>1
  <2> QED
    BY <1>1, <2>1, <2>2 DEF FilesOK
<1> QED
  BY <1>3, <1>4

\* Files put together of parts that are in order are in order.
LEMMA FilesOf ==
  ASSUME NEW cur \in Seq(Audit!Line), NEW rot, NEW pru, NEW h,
         h \in {"open", "stale", "none"}, pru \subseteq 1 .. MaxEntries,
         IsFiniteSet(rot), rot \subseteq RotatedFile,
         \A f, g \in rot : f.stamp = g.stamp /\ f.again = g.again => f = g
  PROVE  FilesOK([current |-> cur, rotated |-> rot, pruned |-> pru, handle |-> h])
<1> PICK d : d = [current |-> cur, rotated |-> rot, pruned |-> pru, handle |-> h]
  OBVIOUS
<1>1. d.current = cur /\ d.rotated = rot /\ d.pruned = pru /\ d.handle = h
  OBVIOUS
<1>2. d = [current |-> d.current, rotated |-> d.rotated, pruned |-> d.pruned, handle |-> d.handle]
  BY <1>1
<1>3. FilesOK(d)
  BY <1>1, <1>2, Zenon DEF FilesOK
<1> QED
  BY <1>3

\* A rotation takes a name that no file has.
LEMMA RenamedType ==
  ASSUME NEW d, FilesOK(d), clock \in 1 .. MaxClock
  PROVE  FilesOK(Audit!Renamed(d))
<1> PICK cur, rot, pru, h : d = [current |-> cur, rotated |-> rot, pruned |-> pru, handle |-> h]
  BY Zenon DEF FilesOK
<1>1. d.current = cur /\ d.rotated = rot /\ d.pruned = pru /\ d.handle = h
  OBVIOUS
<1> PICK r : r = Audit!Renamed(d)
  OBVIOUS
<1> PICK i : i = Audit!Again(rot, clock)
  OBVIOUS
<1> PICK f : f = [stamp |-> clock, again |-> i, lines |-> cur]
  OBVIOUS
<1> PICK more : more = rot \cup {f}
  OBVIOUS
<1>2. r = [current |-> << >>, rotated |-> more, pruned |-> pru, handle |-> h]
  BY DEF Audit!Renamed
<1>3. r.current = << >> /\ r.rotated = more /\ r.pruned = pru /\ r.handle = h
  BY <1>2
<1>4. i \in Nat /\ ~\E g \in rot : g.stamp = clock /\ g.again = i
  BY <1>1, FirstFree DEF FilesOK
<1>5. f \in RotatedFile /\ f.stamp = clock /\ f.again = i
  BY <1>1, <1>4 DEF FilesOK, RotatedFile
<1>6. IsFiniteSet(more)
  BY <1>1, FS_AddElement DEF FilesOK
<1>7. \A g, k \in more : g.stamp = k.stamp /\ g.again = k.again => g = k
  BY <1>1, <1>4, <1>5 DEF FilesOK
<1>8. << >> \in Seq(Audit!Line)
  OBVIOUS
<1>9. /\ h \in {"open", "stale", "none"} /\ pru \subseteq 1 .. MaxEntries
      /\ more \subseteq RotatedFile
  BY <1>1, <1>5 DEF FilesOK
<1>10. FilesOK([current |-> << >>, rotated |-> more, pruned |-> pru, handle |-> h])
  BY <1>6, <1>7, <1>8, <1>9, FilesOf
<1> QED
  BY <1>2, <1>10

LEMMA PrunedType ==
  ASSUME NEW d, FilesOK(d)
  PROVE  FilesOK(Audit!Pruned(d))
<1> PICK cur, rot, pru, h : d = [current |-> cur, rotated |-> rot, pruned |-> pru, handle |-> h]
  BY Zenon DEF FilesOK
<1>1. d.current = cur /\ d.rotated = rot /\ d.pruned = pru /\ d.handle = h
  OBVIOUS
<1> PICK gone : gone = Audit!Excess(rot)
  OBVIOUS
<1> PICK lost : lost = UNION {Audit!Entries(f.lines) : f \in gone}
  OBVIOUS
<1> PICK r : r = Audit!Pruned(d)
  OBVIOUS
<1>2. r = [current |-> cur, rotated |-> rot \ gone, pruned |-> pru \cup lost, handle |-> h]
  BY <1>1 DEF Audit!Pruned
<1>3. r.current = cur /\ r.rotated = rot \ gone /\ r.pruned = pru \cup lost /\ r.handle = h
  BY <1>2
<1>4. gone \subseteq rot
  BY DEF Audit!Excess
<1>5. \A f \in gone : Audit!Entries(f.lines) \subseteq 1 .. MaxEntries
  BY <1>1, <1>4, LinesType DEF FilesOK, RotatedFile
<1>6. lost \subseteq 1 .. MaxEntries
  BY <1>5
<1>7. IsFiniteSet(rot \ gone)
  BY <1>1, FS_Difference DEF FilesOK
<1>8. /\ cur \in Seq(Audit!Line) /\ h \in {"open", "stale", "none"}
      /\ pru \cup lost \subseteq 1 .. MaxEntries
      /\ rot \ gone \subseteq RotatedFile
  BY <1>1, <1>6 DEF FilesOK
<1>9. \A f, g \in rot \ gone : f.stamp = g.stamp /\ f.again = g.again => f = g
  BY <1>1 DEF FilesOK
<1> PICK lo : lo = pru \cup lost
  OBVIOUS
<1> PICK left : left = rot \ gone
  OBVIOUS
<1>10. FilesOK([current |-> cur, rotated |-> left, pruned |-> lo, handle |-> h])
  BY <1>7, <1>8, <1>9, FilesOf
<1> QED
  BY <1>2, <1>10

LEMMA EndOfRotation ==
  ASSUME NEW a, NEW b, NEW c, NEW e, NEW f,
         NEW r \in {<<a, 1>>, <<b, 1>>, <<c, 2>>, <<e, 1>>, <<f, 0>>}
  PROVE  r[1] \in {a, b, c, e, f} /\ r[2] \in Nat
OBVIOUS

LEMMA RotationType ==
  ASSUME FilesOK(disk), clock \in 1 .. MaxClock,
         NEW r \in IF disk.handle = "none" \/ Len(disk.current) < MaxLines THEN {<<disk, 0>>}
                   ELSE Audit!Rotations(disk)
  PROVE  FilesOK(r[1]) /\ r[2] \in Nat
<1>1. CASE r = <<disk, 0>>
  BY <1>1
<1>2. CASE r \in {<<[disk EXCEPT !.handle = "stale"], 1>>,
        <<Audit!Reopened(disk, TRUE), 1>>, <<Audit!Reopened(disk, FALSE), 2>>,
        <<Audit!Reopened(Audit!Renamed(disk), FALSE), 1>>,
        <<Audit!Pruned(Audit!Reopened(Audit!Renamed(disk), TRUE)), 0>>}
  <2> PICK a : a = [disk EXCEPT !.handle = "stale"]
    OBVIOUS
  <2> PICK b : b = Audit!Reopened(disk, TRUE)
    OBVIOUS
  <2> PICK c : c = Audit!Reopened(disk, FALSE)
    OBVIOUS
  <2> PICK e : e = Audit!Reopened(Audit!Renamed(disk), FALSE)
    OBVIOUS
  <2> PICK f : f = Audit!Pruned(Audit!Reopened(Audit!Renamed(disk), TRUE))
    OBVIOUS
  <2>0. r \in {<<a, 1>>, <<b, 1>>, <<c, 2>>, <<e, 1>>, <<f, 0>>}
    BY <1>2
  <2>1. r[1] \in {a, b, c, e, f} /\ r[2] \in Nat
    BY ZenonT(60), <2>0, EndOfRotation
  <2>2. FilesOK(a)
    <3> PICK cur, rot, pru, h : disk = [current |-> cur, rotated |-> rot, pruned |-> pru, handle |-> h]
      BY Zenon DEF FilesOK
    <3>1. a = [current |-> cur, rotated |-> rot, pruned |-> pru, handle |-> "stale"]
      OBVIOUS
    <3> QED
      BY <3>1 DEF FilesOK
  <2>3. FilesOK(b) /\ FilesOK(c) /\ FilesOK(e)
    BY RenamedType, ReopenedType
  <2>4. FilesOK(f)
    BY RenamedType, ReopenedType, PrunedType
  <2> QED
    BY <2>1, <2>2, <2>3, <2>4
<1> QED
  BY <1>1, <1>2 DEF Audit!Rotations

\* The file after a write.
LEMMA FileWritten ==
  ASSUME NEW d, FilesOK(d), NEW e \in 0 .. MaxEntries, NEW how
  PROVE  FilesOK([d EXCEPT !.current = Audit!Written(@, e, how)])
<1> PICK cur, rot, pru, h : d = [current |-> cur, rotated |-> rot, pruned |-> pru, handle |-> h]
  BY Zenon DEF FilesOK
<1>1. d.current = cur /\ d.rotated = rot /\ d.pruned = pru /\ d.handle = h
  OBVIOUS
<1> PICK q : q = Audit!Written(cur, e, how)
  OBVIOUS
<1>2. q \in Seq(Audit!Line)
  BY <1>1, WrittenType DEF FilesOK
<1> PICK r : r = [current |-> q, rotated |-> rot, pruned |-> pru, handle |-> h]
  OBVIOUS
<1>3. r = [d EXCEPT !.current = Audit!Written(@, e, how)]
  BY <1>1
<1>4. r.current = q /\ r.rotated = rot /\ r.pruned = pru /\ r.handle = h
  OBVIOUS
<1>5. FilesOK(r)
  BY <1>1, <1>2, <1>4 DEF FilesOK
<1> QED
  BY <1>3, <1>5

\* What the types of the files do not say.
AuditCounters ==
  /\ clock \in 1 .. MaxClock /\ entries \in 0 .. MaxEntries
  /\ accepted_audit \cup dropped \subseteq 1 .. entries
  /\ reader.at \in {"idle", "reading", "done"}
  /\ reads \in 0 .. MaxReads /\ faults \in 0 .. MaxFaults /\ crashes_audit \in 0 .. MaxCrashes_audit
  /\ torn \in Nat /\ torn <= faults

LEMMA AuditTyped == AuditTypes <=> FilesOK(disk) /\ AuditCounters
<1>1. FilesOK(disk) =>
        /\ disk.current \in Seq(Audit!Line) /\ disk.handle \in {"open", "stale", "none"}
        /\ disk.pruned \subseteq 1 .. MaxEntries
        /\ \A f \in disk.rotated : f.lines \in Seq(Audit!Line) /\ f.stamp \in 1 .. MaxClock
        /\ \A f, g \in disk.rotated : f.stamp = g.stamp /\ f.again = g.again => f = g
  BY DEF FilesOK, RotatedFile
<1> QED
  BY SMTT(30), <1>1, AuditAssumption DEF AuditAssumption, AuditTypes, AuditCounters, Audit!TypeOK

LEMMA AuditTypesInit == Audit!Init => AuditTypes
<1> SUFFICES ASSUME Audit!Init PROVE FilesOK(disk) /\ AuditCounters
  BY AuditTyped
<1>1. AuditCounters
  BY AuditAssumption DEF AuditAssumption, Audit!Init, AuditCounters
<1>2. disk = [current |-> << >>, rotated |-> {}, pruned |-> {}, handle |-> "open"]
  BY DEF Audit!Init
<1>3. disk.current = << >> /\ disk.rotated = {} /\ disk.pruned = {} /\ disk.handle = "open"
  BY <1>2
<1> QED
  BY <1>1, <1>2, <1>3, FS_EmptySet DEF FilesOK

LEMMA PutTypes ==
  ASSUME FilesOK(disk), AuditCounters, Audit!Put
  PROVE  FilesOK(disk)' /\ AuditCounters'
<1>1. /\ entries < MaxEntries /\ entries' = entries + 1
      /\ UNCHANGED <<clock, reader, reads, crashes_audit>>
  BY DEF Audit!Put
<1>2. entries' \in 0 .. MaxEntries /\ 1 .. entries \subseteq 1 .. entries' /\ entries' \in 1 .. entries'
  BY <1>1, AuditAssumption DEF AuditAssumption, AuditCounters
<1> PICK r \in IF disk.handle = "none" \/ Len(disk.current) < MaxLines THEN {<<disk, 0>>}
               ELSE Audit!Rotations(disk) :
       IF r[1].handle # "open"
       THEN /\ faults + r[2] <= MaxFaults /\ faults' = faults + r[2]
            /\ disk' = r[1] /\ dropped' = dropped \cup {entries'}
            /\ UNCHANGED <<accepted_audit, torn>>
       ELSE \E how \in {"whole", "body", "part", "none"} :
              LET failed == r[2] + (IF how = "whole" THEN 0 ELSE 1)
              IN  /\ faults + failed <= MaxFaults /\ faults' = faults + failed
                  /\ disk' = (IF how = "none" THEN r[1]
                              ELSE [r[1] EXCEPT !.current = Audit!Written(@, entries', how)])
                  /\ accepted_audit' = accepted_audit \cup (IF how = "whole" THEN {entries'} ELSE {})
                  /\ torn' = torn + (IF how \in {"body", "part"} THEN 1 ELSE 0)
                  /\ UNCHANGED dropped
  BY DEF Audit!Put
<1> PICK d : d = r[1]
  OBVIOUS
<1> PICK n : n = r[2]
  OBVIOUS
<1>3. FilesOK(d) /\ n \in Nat
  BY RotationType DEF AuditCounters
<1>4. CASE d.handle # "open"
  <2>1. /\ faults + n <= MaxFaults /\ faults' = faults + n
        /\ disk' = d /\ dropped' = dropped \cup {entries'}
        /\ UNCHANGED <<accepted_audit, torn>>
    BY <1>4
  <2>2. faults' \in 0 .. MaxFaults /\ torn' <= faults' /\ torn' \in Nat
    BY SMTT(30), <1>3, <2>1, AuditAssumption DEF AuditAssumption, AuditCounters
  <2>3. accepted_audit' \cup dropped' \subseteq 1 .. entries'
    BY <1>2, <2>1 DEF AuditCounters
  <2> QED
    BY <1>1, <1>2, <1>3, <2>1, <2>2, <2>3 DEF AuditCounters
<1>5. CASE d.handle = "open"
  <2> PICK how \in {"whole", "body", "part", "none"} :
         LET failed == n + (IF how = "whole" THEN 0 ELSE 1)
         IN  /\ faults + failed <= MaxFaults /\ faults' = faults + failed
             /\ disk' = (IF how = "none" THEN d
                         ELSE [d EXCEPT !.current = Audit!Written(@, entries', how)])
             /\ accepted_audit' = accepted_audit \cup (IF how = "whole" THEN {entries'} ELSE {})
             /\ torn' = torn + (IF how \in {"body", "part"} THEN 1 ELSE 0)
             /\ UNCHANGED dropped
    BY <1>5
  <2>1. FilesOK(disk')
    BY <1>2, <1>3, FileWritten
  <2>2. faults' \in 0 .. MaxFaults /\ torn' <= faults' /\ torn' \in Nat
    <3>1. PICK failed \in {n, n + 1}, part \in {0, 1} :
            /\ faults + failed <= MaxFaults /\ faults' = faults + failed
            /\ torn' = torn + part /\ (part = 1 => failed = n + 1)
      <4>1. CASE how = "whole"
        <5>1. faults + (n + 0) <= MaxFaults /\ faults' = faults + (n + 0) /\ torn' = torn + 0
          BY <4>1
        <5> QED
          BY <1>3, <5>1
      <4>2. CASE how # "whole"
        <5>1. faults + (n + 1) <= MaxFaults /\ faults' = faults + (n + 1) /\ torn' \in {torn, torn + 1, torn + 0}
          BY <4>2
        <5> QED
          BY <1>3, <5>1 DEF AuditCounters
      <4> QED
        BY <4>1, <4>2
    <3>2. torn \in Nat /\ faults \in Nat /\ torn <= faults /\ MaxFaults \in Nat /\ n \in Nat
      BY <1>3, AuditAssumption DEF AuditAssumption, AuditCounters
    <3>3. faults' \in Nat /\ faults' <= MaxFaults /\ torn' \in Nat
      BY <3>1, <3>2
    <3>4. torn' <= faults'
      BY <3>1, <3>2
    <3> QED
      BY <3>2, <3>3, <3>4
  <2>3. accepted_audit' \cup dropped' \subseteq 1 .. entries'
    BY <1>2 DEF AuditCounters
  <2> QED
    BY <1>1, <1>2, <2>1, <2>2, <2>3 DEF AuditCounters
<1> QED
  BY <1>4, <1>5

LEMMA CrashTypes ==
  ASSUME FilesOK(disk), AuditCounters, Audit!Crash
  PROVE  FilesOK(disk)' /\ AuditCounters'
<1>1. /\ crashes_audit < MaxCrashes_audit /\ crashes_audit' = crashes_audit + 1
      /\ reader' = [at |-> "idle"]
      /\ UNCHANGED <<clock, accepted_audit, dropped, torn, reads, faults>>
      /\ \/ entries' = entries
         \/ entries < MaxEntries /\ entries' = entries + 1
  BY DEF Audit!Crash
<1>2. /\ entries' \in 0 .. MaxEntries /\ 1 .. entries \subseteq 1 .. entries'
      /\ crashes_audit' \in 0 .. MaxCrashes_audit
  BY <1>1, AuditAssumption DEF AuditAssumption, AuditCounters
<1>3. AuditCounters'
  BY <1>1, <1>2 DEF AuditCounters
<1>4. \/ disk' = Audit!Reopened(disk, TRUE)
      \/ \E how : disk' = Audit!Reopened([disk EXCEPT !.current = Audit!Written(@, entries', how)], TRUE)
      \/ disk' = Audit!Reopened(Audit!Renamed(disk), TRUE)
  BY DEF Audit!Crash
<1>5. FilesOK(Audit!Reopened(disk, TRUE)) /\ FilesOK(Audit!Reopened(Audit!Renamed(disk), TRUE))
  BY ReopenedType, RenamedType DEF AuditCounters
<1>6. \A how : FilesOK(Audit!Reopened([disk EXCEPT !.current = Audit!Written(@, entries', how)], TRUE))
  BY <1>2, FileWritten, ReopenedType
<1>7. FilesOK(disk')
  BY <1>4, <1>5, <1>6
<1> QED
  BY <1>3, <1>7

LEMMA AuditTypesNext ==
  ASSUME AuditTypes, [Audit!Next]_(Audit!vars)
  PROVE  AuditTypes'
<1>0. FilesOK(disk) /\ AuditCounters
  BY AuditTyped
<1> SUFFICES FilesOK(disk)' /\ AuditCounters'
  BY AuditTyped, PTL
<1>1. CASE Audit!Elapse
  <2>1. clock' \in 1 .. MaxClock
    BY <1>0, <1>1, AuditAssumption DEF AuditAssumption, Audit!Elapse, AuditCounters
  <2>2. UNCHANGED <<disk, entries, accepted_audit, dropped, torn, reader, reads, faults, crashes_audit>>
    BY <1>1 DEF Audit!Elapse
  <2>3. AuditCounters'
    BY <1>0, <2>1, <2>2 DEF AuditCounters
  <2> QED
    BY <1>0, <2>2, <2>3
<1>2. CASE Audit!List
  <2>1. reads' \in 0 .. MaxReads
    <3>1. reads < MaxReads /\ reads' = reads + 1
      BY <1>2, Zenon DEF Audit!List
    <3> QED
      BY <1>0, <3>1, AuditAssumption DEF AuditAssumption, AuditCounters
  <2>2. UNCHANGED <<disk, clock, entries, accepted_audit, dropped, torn, faults, crashes_audit>>
        /\ reader'.at = "reading"
    BY <1>2 DEF Audit!List
  <2>3. AuditCounters'
    BY SMTT(30), <1>0, <2>1, <2>2 DEF AuditCounters
  <2> QED
    BY <1>0, <2>2, <2>3
<1>3. CASE Audit!ReadNext
  BY <1>0, <1>3 DEF Audit!ReadNext, AuditCounters
<1>4. CASE Audit!Answer
  BY <1>0, <1>4 DEF Audit!Answer, AuditCounters
<1>5. CASE UNCHANGED Audit!vars
  BY <1>0, <1>5 DEF Audit!vars, AuditCounters
<1> QED
  BY <1>0, <1>1, <1>2, <1>3, <1>4, <1>5, PutTypes, CrashTypes DEF Audit!Next

\* An interval under way counts no more things than events.
IntervalType(r) ==
  /\ r = [watching |-> TRUE, start |-> r.start, openedAt |-> r.openedAt, events |-> r.events,
          keys |-> r.keys, wasBlind |-> r.wasBlind, partial |-> r.partial]
  /\ r.start \in Int /\ r.start % Width = 0
  /\ r.events \in Nat /\ IsFiniteSet(r.keys) /\ Cardinality(r.keys) <= r.events
  /\ r.wasBlind \in BOOLEAN

RowsType(rs) == \A t \in DOMAIN rs : t % Width = 0 /\ rs[t] \in Activity!Row

ActivityCounters ==
  /\ wall \in 0 .. Horizon /\ mono \in Nat /\ blind \in BOOLEAN
  /\ events \in 0 .. MaxEvents /\ jumps \in 0 .. MaxJumps /\ turns \in 0 .. MaxBlind
  /\ crashes_activity \in 0 .. MaxCrashes_activity

ActivityTypes ==
  /\ ActivityCounters /\ failures_activity \in 0 .. MaxFailures_activity
  /\ RowsType(stored)
  /\ rec = Activity!Asleep \/ IntervalType(rec)

LEMMA CardinalityOfActivity == \A S : Activity!Cardinality(S) = Cardinality(S)
BY DEF Activity!Cardinality, Cardinality

LEMMA ActivityTyped == ActivityTypes => Activity!TypeOK
BY CardinalityOfActivity
   DEF ActivityTypes, ActivityCounters, RowsType, IntervalType, Activity!TypeOK, Activity!Asleep

LEMMA ActivityTypesInit == Activity!Init => ActivityTypes
BY ActivityAssumption
   DEF ActivityAssumption, Activity!Init, ActivityTypes, ActivityCounters, RowsType

LEMMA OpenType ==
  ASSUME ActivityCounters, NEW s \in Int, s % Width = 0, NEW late, NEW r, r = Activity!Open(s, late)
  PROVE  IntervalType(r) /\ r.start = s
<1>1. r = [watching |-> TRUE, start |-> s, openedAt |-> <<wall, mono>>, events |-> 0,
           keys |-> {}, wasBlind |-> blind, partial |-> late]
  BY DEF Activity!Open
<1>2. r.start = s /\ r.openedAt = <<wall, mono>> /\ r.partial = late
  BY <1>1
<1>3. r.events = 0 /\ r.keys = {} /\ r.wasBlind = blind
  BY <1>1
<1>4. IsFiniteSet(r.keys) /\ Cardinality(r.keys) = 0
  BY <1>3, FS_EmptySet
<1>5. r = [watching |-> TRUE, start |-> r.start, openedAt |-> r.openedAt, events |-> r.events,
           keys |-> r.keys, wasBlind |-> r.wasBlind, partial |-> r.partial]
  BY <1>1, <1>2, <1>3
<1> QED
  BY <1>2, <1>3, <1>4, <1>5 DEF IntervalType, ActivityCounters

\* An interval that counts an event more, of a thing it knew or did not.
LEMMA CountType ==
  ASSUME NEW r, IntervalType(r), NEW n, NEW ks, NEW b \in BOOLEAN,
         \/ n = r.events /\ ks = r.keys
         \/ n = r.events + 1 /\ \E k : ks = r.keys \cup {k},
         NEW q, q = [r EXCEPT !.events = n, !.keys = ks, !.wasBlind = b]
  PROVE  IntervalType(q)
<1> PICK st, op, n0, k0, b0, late :
       r = [watching |-> TRUE, start |-> st, openedAt |-> op, events |-> n0, keys |-> k0,
            wasBlind |-> b0, partial |-> late]
  BY Zenon DEF IntervalType
<1>1. q = [watching |-> TRUE, start |-> st, openedAt |-> op, events |-> n, keys |-> ks,
           wasBlind |-> b, partial |-> late]
  OBVIOUS
<1>2. r.start = st /\ r.events = n0 /\ r.keys = k0
  OBVIOUS
<1>3. q.start = st /\ q.openedAt = op /\ q.events = n /\ q.keys = ks /\ q.wasBlind = b /\ q.partial = late
  BY <1>1
<1>4. n0 \in Nat /\ IsFiniteSet(k0) /\ Cardinality(k0) <= n0 /\ Cardinality(k0) \in Nat
  BY <1>2, FS_CardinalityType DEF IntervalType
<1>5. n \in Nat /\ IsFiniteSet(ks) /\ Cardinality(ks) <= n
  <2>1. CASE n = r.events /\ ks = r.keys
    BY <1>2, <1>4, <2>1
  <2>2. CASE n = r.events + 1 /\ \E k : ks = r.keys \cup {k}
    <3> PICK k : ks = k0 \cup {k}
      BY <1>2, <2>2
    <3>1. IsFiniteSet(ks) /\ Cardinality(ks) <= Cardinality(k0) + 1 /\ Cardinality(ks) \in Nat
      <4>1. /\ IsFiniteSet(k0 \cup {k})
            /\ Cardinality(k0 \cup {k}) = IF k \in k0 THEN Cardinality(k0) ELSE Cardinality(k0) + 1
        BY <1>4, FS_AddElement, Zenon
      <4> QED
        BY <1>4, <4>1
    <3> QED
      BY <1>2, <1>4, <2>2, <3>1
  <2> QED
    BY <2>1, <2>2
<1> QED
  BY <1>1, <1>2, <1>3, <1>5 DEF IntervalType

\* An interval in which something went silent.
LEMMA BlindType ==
  ASSUME NEW r, IntervalType(r), NEW b \in BOOLEAN, NEW q, q = [r EXCEPT !.wasBlind = b]
  PROVE  IntervalType(q)
<1> PICK st, op, n, ks, b0, late :
       r = [watching |-> TRUE, start |-> st, openedAt |-> op, events |-> n, keys |-> ks,
            wasBlind |-> b0, partial |-> late]
  BY Zenon DEF IntervalType
<1>1. q = [watching |-> TRUE, start |-> st, openedAt |-> op, events |-> n, keys |-> ks,
           wasBlind |-> b, partial |-> late]
  OBVIOUS
<1>2. r.start = st /\ r.events = n /\ r.keys = ks
  OBVIOUS
<1>3. q.start = st /\ q.openedAt = op /\ q.events = n /\ q.keys = ks /\ q.wasBlind = b /\ q.partial = late
  BY <1>1
<1> QED
  BY <1>1, <1>2, <1>3 DEF IntervalType

\* What a roll writes, and what it leaves open.
LEMMA RowsWritten ==
  ASSUME NEW r, IntervalType(r), NEW s \in Int
  PROVE  RowsType(Activity!Written(r, s)) /\ IsFiniteSet(DOMAIN Activity!Written(r, s))
<1> PICK rs : rs = Activity!Written(r, s)
  OBVIOUS
<1>1. CASE ~(s > r.start)
  <2>1. rs = << >>
    BY <1>1 DEF Activity!Written
  <2>2. DOMAIN rs = {}
    BY <2>1
  <2> QED
    BY <2>2, FS_EmptySet DEF RowsType
<1>2. CASE s > r.start
  <2>1. rs = Activity!Rows(r, s)
    BY <1>2 DEF Activity!Written
  <2>2. DOMAIN rs \subseteq r.start .. s
    BY <1>2, <2>1 DEF Activity!Rows, IntervalType
  <2>3. IsFiniteSet(DOMAIN rs)
    <3>1. IsFiniteSet(r.start .. s)
      BY FS_Interval DEF IntervalType
    <3> QED
      BY <2>2, <3>1, FS_Subset
  <2>4. ASSUME NEW t \in DOMAIN rs
        PROVE  t % Width = 0 /\ rs[t] \in Activity!Row
    <3>1. t % Width = 0
      BY <2>1 DEF Activity!Rows, IntervalType
    <3>2. Cardinality(r.keys) \in Nat /\ r.events \in Nat /\ r.wasBlind \in BOOLEAN
      BY FS_CardinalityType DEF IntervalType
    <3>3. \/ rs[t] = [events |-> r.events, devices |-> Activity!Cardinality(r.keys), degraded |-> r.wasBlind]
          \/ rs[t] = [events |-> 0, devices |-> 0, degraded |-> r.wasBlind]
      BY <2>1 DEF Activity!Rows
    <3> QED
      BY <3>1, <3>2, <3>3, CardinalityOfActivity DEF Activity!Row
  <2> QED
    BY <2>3, <2>4 DEF RowsType
<1> QED
  BY <1>1, <1>2

LEMMA StoreType ==
  ASSUME NEW rs, RowsType(rs), IsFiniteSet(DOMAIN rs), RowsType(stored), Activity!Store(rs),
         failures_activity \in 0 .. MaxFailures_activity
  PROVE  RowsType(stored') /\ failures_activity' \in 0 .. MaxFailures_activity
<1>1. PICK lost \in SUBSET DOMAIN rs :
        /\ failures_activity + Activity!Cardinality(lost) <= MaxFailures_activity
        /\ failures_activity' = failures_activity + Activity!Cardinality(lost)
        /\ Activity!Put([t \in DOMAIN rs \ lost |-> rs[t]])
  BY DEF Activity!Store
<1> PICK put : put = [t \in DOMAIN rs \ lost |-> rs[t]]
  OBVIOUS
<1>2. RowsType(put)
  BY DEF RowsType
<1>3. Cardinality(lost) \in Nat
  BY FS_Subset, FS_CardinalityType
<1>4. failures_activity' \in 0 .. MaxFailures_activity
  BY <1>1, <1>3, CardinalityOfActivity, ActivityAssumption DEF ActivityAssumption
<1>5. \A t \in DOMAIN stored' : \/ t \in DOMAIN put /\ stored'[t] = put[t]
                                \/ t \in DOMAIN stored /\ stored'[t] = stored[t]
  BY <1>1 DEF Activity!Put
<1> QED
  BY <1>2, <1>4, <1>5 DEF RowsType

\* The interval that is open when something comes, opened then if none was.
LEMMA WatchingType ==
  ASSUME ActivityTypes, NEW s \in Int, s % Width = 0
  PROVE  IntervalType(Activity!Watching(s))
BY OpenType DEF Activity!Watching, ActivityTypes, Activity!Asleep

LEMMA RolledType ==
  ASSUME ActivityTypes, NEW r, IntervalType(r), NEW s \in Int, s % Width = 0
  PROVE  /\ IntervalType(Activity!Rolled(r, s))
         /\ Activity!Store(Activity!Written(r, s)) =>
              RowsType(stored') /\ failures_activity' \in 0 .. MaxFailures_activity
BY OpenType, RowsWritten, StoreType DEF Activity!Rolled, ActivityTypes

LEMMA FloorType ==
  ASSUME NEW t \in Int
  PROVE  Activity!Floor(t) \in Int /\ Activity!Floor(t) % Width = 0
BY InInterval

LEMMA TickType ==
  ASSUME ActivityTypes, Activity!Tick
  PROVE  ActivityTypes'
<1>1. ActivityCounters'
  BY DEF Activity!Tick, ActivityTypes, ActivityCounters
<1>2. wall \in Int /\ blind \in BOOLEAN
  BY ActivityAssumption DEF ActivityAssumption, ActivityTypes, ActivityCounters
<1> PICK s : s = Activity!Floor(wall)
  OBVIOUS
<1>3. s \in Int /\ s % Width = 0
  BY <1>2, FloorType
<1>4. CASE ~rec.watching
  <2>1. IntervalType(rec')
    BY <1>3, <1>4, WatchingType DEF Activity!Tick
  <2> QED
    BY <1>1, <1>4, <2>1 DEF Activity!Tick, ActivityTypes
<1>5. CASE rec.watching
  <2>1. IntervalType(rec)
    BY <1>5 DEF ActivityTypes, Activity!Asleep
  <2> PICK b : b = (rec.wasBlind \/ blind)
    OBVIOUS
  <2> PICK r : r = [rec EXCEPT !.wasBlind = b]
    OBVIOUS
  <2>2. b \in BOOLEAN
    <3>1. (rec.wasBlind \/ blind) \in BOOLEAN
      OBVIOUS
    <3> QED
      BY <3>1
  <2>3. IntervalType(r)
    BY <2>1, <2>2, BlindType
  <2>4. rec' = Activity!Rolled(r, s) /\ Activity!Store(Activity!Written(r, s))
    BY <1>5 DEF Activity!Tick
  <2> QED
    BY <1>1, <1>3, <2>3, <2>4, RolledType DEF ActivityTypes
<1> QED
  BY <1>4, <1>5

LEMMA ObserveType ==
  ASSUME ActivityTypes, NEW k \in Keys, NEW at_ \in Int, Activity!Observe(k, at_)
  PROVE  ActivityTypes'
<1>1. events < MaxEvents /\ events' = events + 1
      /\ UNCHANGED <<wall, mono, blind, jumps, turns, crashes_activity>>
  BY DEF Activity!Observe
<1>2. ActivityCounters'
  BY <1>1, ActivityAssumption DEF ActivityAssumption, ActivityTypes, ActivityCounters
<1> PICK s : s = Activity!Floor(at_)
  OBVIOUS
<1>3. s \in Int /\ s % Width = 0
  BY FloorType
<1> PICK r : r = Activity!Watching(s)
  OBVIOUS
<1>4. IntervalType(r)
  BY <1>3, WatchingType
<1>5. CASE s < r.start
  BY <1>2, <1>4, <1>5 DEF Activity!Observe, ActivityTypes
<1>6. CASE ~(s < r.start)
  <2> PICK q : q = Activity!Rolled(r, s)
    OBVIOUS
  <2>1. /\ rec' = [q EXCEPT !.events = @ + 1, !.keys = @ \cup {k}, !.wasBlind = @ \/ blind]
        /\ Activity!Store(Activity!Written(r, s))
    BY <1>6 DEF Activity!Observe
  <2>2. IntervalType(q) /\ RowsType(stored') /\ failures_activity' \in 0 .. MaxFailures_activity
    BY <1>3, <1>4, <2>1, RolledType
  <2> PICK n : n = q.events + 1
    OBVIOUS
  <2> PICK ks : ks = q.keys \cup {k}
    OBVIOUS
  <2> PICK b : b = (q.wasBlind \/ blind)
    OBVIOUS
  <2>3. b \in BOOLEAN
    <3>1. (q.wasBlind \/ blind) \in BOOLEAN
      OBVIOUS
    <3> QED
      BY <3>1
  <2>4. rec' = [q EXCEPT !.events = n, !.keys = ks, !.wasBlind = b]
    BY <2>1
  <2>5. IntervalType(rec')
    BY ZenonT(60), <2>2, <2>3, <2>4, CountType
  <2> QED
    BY <1>2, <2>2, <2>5 DEF ActivityTypes
<1> QED
  BY <1>5, <1>6

LEMMA ActivityTypesNext ==
  ASSUME ActivityTypes, [Activity!Next]_(Activity!vars)
  PROVE  ActivityTypes'
<1> USE ActivityAssumption DEF ActivityAssumption
<1>1. ASSUME ActivityCounters', UNCHANGED <<failures_activity, stored>>,
             rec' = rec \/ rec' = Activity!Asleep
      PROVE  ActivityTypes'
  BY <1>1 DEF ActivityTypes, RowsType, Activity!Asleep
<1>2. CASE Activity!Elapse
  <2>1. ActivityCounters'
    BY <1>2 DEF Activity!Elapse, ActivityTypes, ActivityCounters
  <2> QED
    BY <1>1, <1>2, <2>1 DEF Activity!Elapse
<1>3. CASE Activity!Turn
  <2>1. ActivityCounters'
    BY <1>3 DEF Activity!Turn, ActivityTypes, ActivityCounters
  <2> QED
    BY <1>1, <1>3, <2>1 DEF Activity!Turn
<1>4. CASE \E d \in Jumps : Activity!SetClock(d)
  <2>1. ActivityCounters'
    BY <1>4 DEF Activity!SetClock, ActivityTypes, ActivityCounters
  <2> QED
    BY <1>1, <1>4, <2>1 DEF Activity!SetClock
<1>5. CASE \E k \in Keys, o \in Offsets : wall + o >= 0 /\ Activity!Observe(k, wall + o)
  <2> PICK k \in Keys, o \in Offsets : Activity!Observe(k, wall + o)
    BY <1>5
  <2>1. wall + o \in Int
    BY DEF ActivityTypes, ActivityCounters
  <2> QED
    BY <2>1, ObserveType
<1>6. CASE \E d \in 0 .. Width : Activity!Restart(d)
  <2>1. ActivityCounters'
    BY <1>6 DEF Activity!Restart, ActivityTypes, ActivityCounters
  <2> QED
    BY <1>1, <1>6, <2>1 DEF Activity!Restart
<1>7. CASE UNCHANGED Activity!vars
  <2>1. ActivityCounters'
    BY <1>7 DEF Activity!vars, ActivityTypes, ActivityCounters
  <2> QED
    BY <1>1, <1>7, <2>1 DEF Activity!vars
<1> QED
  BY <1>2, <1>3, <1>4, <1>5, <1>6, <1>7, TickType DEF Activity!Next

\* A degraded row is not judged, and the counters stay within their bounds.
BaselineTypes ==
  /\ BaselineSafe
  /\ \A i \in DOMAIN rows : rows[i].degraded => rows[i].flagged = Baseline!Ordinary
  /\ phase_baseline \in 0 .. (PerDay - 1) /\ same \in 0 .. (2 * Retention_baseline)
  /\ missed \in 0 .. MaxMissed

LEMMA BaselineTyped == BaselineTypes => Baseline!TypeOK
BY DEF BaselineTypes, BaselineSafe, Baseline!TypeOK

LEMMA BaselineTypesInit == Baseline!Init => BaselineTypes
<1> SUFFICES ASSUME Baseline!Init PROVE BaselineTypes
  OBVIOUS
<1>1. rows = << >> /\ phase_baseline = 0 /\ same = 0 /\ missed = 0
  BY DEF Baseline!Init
<1>2. phase_baseline \in 0 .. (PerDay - 1) /\ same \in 0 .. (2 * Retention_baseline) /\ missed \in 0 .. MaxMissed
  BY <1>1, BaselineAssumption
<1> QED
  BY <1>1, <1>2, BaselineInit DEF BaselineTypes

LEMMA BaselineTypesNext ==
  ASSUME BaselineTypes, [Baseline!Next]_(Baseline!vars)
  PROVE  BaselineTypes'
<1>1. BaselineSafe'
  BY BaselineNext DEF BaselineTypes
<1>2. ASSUME NEW level \in Levels, NEW degraded \in BOOLEAN, NEW judged \in BOOLEAN,
             Baseline!Close(level, degraded, judged)
      PROVE  BaselineTypes'
  <2> PICK fresh : fresh = [level |-> level, degraded |-> degraded, flagged |-> Baseline!Ordinary]
    OBVIOUS
  <2> PICK flag : flag = IF judged THEN Baseline!JudgeClosed(fresh) ELSE Baseline!Ordinary
    OBVIOUS
  <2> PICK row : row = Baseline!Flagged(fresh, flag)
    OBVIOUS
  <2> PICK all : all = Append(rows, row)
    OBVIOUS
  <2>1. /\ rows' = (IF Len(all) > Retention_baseline THEN Tail(all) ELSE all)
        /\ same' \in {0, 1, same} \/ (same' = same + 1 /\ same < 2 * Retention_baseline)
        /\ missed' \in {0, missed + 1} /\ missed' <= MaxMissed
        /\ phase_baseline' = (phase_baseline + 1) % PerDay
    BY <1>2 DEF Baseline!Close
  <2>2. degraded => flag = Baseline!Ordinary
    BY DEF Baseline!JudgeClosed
  <2>3. row \in Baseline!Row /\ (row.degraded => row.flagged = Baseline!Ordinary)
    <3>1. flag \in {Baseline!Ordinary, Baseline!Busy, Baseline!Quiet}
      BY DEF Baseline!JudgeClosed, Baseline!Judge
    <3> QED
      BY <2>2, <3>1 DEF Baseline!Row, Baseline!Flagged
  <2>4. rows \in Seq(Baseline!Row) /\ Len(rows) \in Nat
    BY LenProperties DEF BaselineTypes, BaselineSafe
  <2>5. /\ all \in Seq(Baseline!Row) /\ Len(all) = Len(rows) + 1 /\ all # << >>
        /\ \A i \in 1 .. Len(rows) : all[i] = rows[i]
        /\ all[Len(rows) + 1] = row
    BY <2>3, <2>4, AppendProperties
  <2>6. \A i \in 1 .. Len(all) : all[i].degraded => all[i].flagged = Baseline!Ordinary
    <3>1. \A i \in 1 .. Len(rows) : rows[i].degraded => rows[i].flagged = Baseline!Ordinary
      BY <2>4, LenProperties DEF BaselineTypes
    <3>2. \A i \in 1 .. Len(all) : i \in 1 .. Len(rows) \/ i = Len(rows) + 1
      BY <2>4, <2>5
    <3> QED
      BY <2>3, <2>5, <3>1, <3>2
  <2>7. \A i \in DOMAIN rows' : rows'[i].degraded => rows'[i].flagged = Baseline!Ordinary
    <3>1. CASE rows' = all
      BY <2>5, <2>6, <3>1, LenProperties
    <3>2. CASE rows' = Tail(all)
      <4>1. /\ Len(rows') = Len(all) - 1 /\ rows' \in Seq(Baseline!Row)
            /\ \A i \in 1 .. Len(rows') : rows'[i] = all[i + 1]
        BY <2>5, <3>2, HeadTailProperties
      <4>2. DOMAIN rows' = 1 .. Len(rows') /\ Len(all) \in Nat
        BY <2>5, <4>1, LenProperties
      <4>3. \A i \in 1 .. Len(rows') : i + 1 \in 1 .. Len(all)
        BY <4>1, <4>2
      <4>4. \A i \in 1 .. Len(rows') : rows'[i].degraded => rows'[i].flagged = Baseline!Ordinary
        <5> SUFFICES ASSUME NEW i \in 1 .. Len(rows') PROVE rows'[i].degraded => rows'[i].flagged = Baseline!Ordinary
          OBVIOUS
        <5>1. rows'[i] = all[i + 1] /\ i + 1 \in 1 .. Len(all)
          BY <4>1, <4>3
        <5> QED
          BY <2>6, <5>1
      <4> QED
        BY <4>2, <4>4
    <3> QED
      BY <2>1, <3>1, <3>2
  <2>8. same' \in 0 .. (2 * Retention_baseline)
    <3>1. 1 <= 2 * Retention_baseline \/ same' # 1
      BY <1>2, BaselineAssumption
    <3> QED
      BY <2>1, <3>1, BaselineAssumption DEF BaselineTypes
  <2>9. missed' \in 0 .. MaxMissed
    BY <2>1, BaselineAssumption DEF BaselineTypes
  <2>10. phase_baseline' \in 0 .. (PerDay - 1)
    BY <2>1, BaselineAssumption DEF BaselineTypes
  <2> QED
    BY <1>1, <2>7, <2>8, <2>9, <2>10 DEF BaselineTypes
<1>3. CASE UNCHANGED Baseline!vars
  BY <1>1, <1>3 DEF Baseline!vars, BaselineTypes
<1> QED
  BY <1>2, <1>3 DEF Baseline!Next

\* Every part keeps its types: the counters their bounds, the files and the rows
\* their form, and each record the fields that its place in a step gives it.
THEOREM TypeSafe == Spec => []TypeOK
<1> DEFINE Safe ==
      /\ subject = "config" => ConfigTypes
      /\ subject = "routing" => RoutingTypes
      /\ subject = "text" => TextSafe
      /\ subject = "send" => SendTypes
      /\ subject = "reach" => ReachTypes
      /\ subject = "audit" => AuditTypes
      /\ subject = "activity" => ActivityTypes
      /\ subject = "baseline" => BaselineTypes
<1>1. Init => Safe
  BY ConfigTypesInit, RoutingTypesInit, TextInit, SendTypesInit, ReachTypesInit,
     AuditTypesInit, ActivityTypesInit, BaselineTypesInit DEF Init
<1>2. Safe /\ [Next]_vars => Safe'
  BY StepsOfSubject, ConfigTypesNext, RoutingTypesNext, TextNext, SendTypesNext,
     ReachTypesNext, AuditTypesNext, ActivityTypesNext, BaselineTypesNext
<1>3. Safe => TypeOK
  <2>1. RoutingTypes => Routing!TypeOK
    BY DEF RoutingTypes, Routing!TypeOK
  <2>2. SendTypes => Sending!TypeOK
    BY DEF SendTypes
  <2>3. ReachTypes => Reach!TypeOK
    BY DEF ReachTypes
  <2>4. AuditTypes => Audit!TypeOK
    BY DEF AuditTypes
  <2> QED
    BY <2>1, <2>2, <2>3, <2>4, ConfigTyped, TextTypes, ActivityTyped, BaselineTyped DEF TypeOK
<1> QED
  BY <1>1, <1>2, <1>3, PTL DEF Spec
=============================================================================
