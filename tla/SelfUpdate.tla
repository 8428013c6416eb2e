------------------------------ MODULE SelfUpdate -----------------------------
(***************************************************************************)
(* The life of the process: the lock and the marker a run takes, the       *)
(* restart that is handed to a helper, and the update that replaces the    *)
(* program's file by two renames.  The service manager starts the program  *)
(* at boot and whenever it ends unasked.                                   *)
(***************************************************************************)
EXTENDS Integers

CONSTANTS
  Requests,     \* bound: requests under way at once
  MaxVersion,   \* bound: versions published
  MaxFailures,  \* bound: things that fail
  MaxCrashes,   \* bound: crashes and power cuts
  MaxAsked,     \* bound: requests made
  KillsHelper   \* whether the service manager ends the helper with the service

VARIABLES
  life,         \* "down", "starting", "up", "stopping", "closing"
  running,      \* the version of this process
  wanted,       \* whether the service manager is to have it running
  lock,         \* "free", "daemon", "tool"
  marker,       \* whether the run marker is there
  failed,       \* RunMarker.failed
  beat,         \* whether a heartbeat is about to be written
  target, backup, \* the program's file and what the last update left
  latest,       \* updater.latest
  seen,         \* the version the page shows
  request,      \* request -> [at, version]
  helper,       \* request -> "none", "stop", "wait", "start"
  published, failures, crashes, asked,
  agreed,       \* ghost: versions an operator asked to install
  ended,        \* ghost: how the run before this one ended
  reported      \* ghost: whether this run reported the one before

process == <<life, running, lock, marker, failed, beat, ended, reported>>
files == <<target, backup>>
page == <<latest, seen, published>>
counts == <<failures, crashes, asked>>
vars == <<process, wanted, files, page, request, helper, counts, agreed>>

None == 0
Idle == [at |-> "idle", version |-> None]

Init ==
  /\ life = "down" /\ running = None /\ wanted = TRUE /\ lock = "free"
  /\ marker = FALSE /\ failed = FALSE /\ beat = FALSE
  /\ target = 1 /\ backup = None /\ latest = None /\ seen = None
  /\ request = [r \in Requests |-> Idle] /\ helper = [r \in Requests |-> "none"]
  /\ published = 1 /\ failures = 0 /\ crashes = 0 /\ asked = 0
  /\ agreed = {1} /\ ended = "clean" /\ reported = FALSE

Fails == failures < MaxFailures /\ failures' = failures + 1

-----------------------------------------------------------------------------
\* The process.

\* Acquire and Begin: the lock is tested once, and the marker is read before it
\* is written.
Start ==
  /\ life = "down" /\ wanted /\ target # None /\ lock = "free"
  /\ life' = "starting" /\ running' = target /\ lock' = "daemon"
  /\ reported' = marker /\ marker' = TRUE /\ failed' = FALSE
  /\ UNCHANGED <<wanted, beat, files, page, request, helper, counts, agreed, ended>>

\* Up, with what the last update left behind removed.
Ready ==
  /\ life = "starting" /\ life' = "up" /\ backup' = None
  /\ UNCHANGED <<running, lock, marker, failed, beat, ended, reported,
                 wanted, target, page, request, helper, counts, agreed>>

Gone(how) ==
  /\ life' = "down" /\ lock' = "free" /\ beat' = FALSE /\ ended' = how
  /\ request' = [r \in Requests |-> Idle] /\ latest' = None
  /\ UNCHANGED <<running, reported, seen, published>>

\* Mutant: the marker goes in a clean-up that an error reaches as well.
StartFailsCleanly ==
  /\ life = "starting" /\ Fails /\ Gone("unclean")
  /\ marker' = FALSE /\ failed' = FALSE
  /\ UNCHANGED <<wanted, files, helper, crashes, asked, agreed>>

\* A run that returns an error leaves the marker, with the reason in it.
StartFails ==
  /\ life = "starting" /\ Fails /\ Gone("unclean")
  /\ marker' = TRUE /\ failed' = TRUE
  /\ UNCHANGED <<wanted, files, helper, crashes, asked, agreed>>

HeartbeatDue ==
  /\ life \in {"up", "stopping"} /\ ~beat /\ beat' = TRUE
  /\ UNCHANGED <<life, running, lock, marker, failed, ended, reported,
                 wanted, files, page, request, helper, counts, agreed>>

\* Heartbeat: written as long as the process is there.
Heartbeat ==
  /\ beat /\ beat' = FALSE /\ marker' = (marker \/ ~failed)
  /\ UNCHANGED <<life, running, lock, failed, ended, reported,
                 wanted, files, page, request, helper, counts, agreed>>

\* The service manager's stop reaches the context.
Cancel ==
  /\ life = "up" /\ ~wanted /\ life' = "stopping"
  /\ UNCHANGED <<running, lock, marker, failed, beat, ended, reported,
                 wanted, files, page, request, helper, counts, agreed>>

Finish ==
  /\ life = "stopping" /\ life' = "closing" /\ marker' = FALSE
  /\ UNCHANGED <<running, lock, failed, beat, ended, reported,
                 wanted, files, page, request, helper, counts, agreed>>

Exit ==
  /\ life = "closing" /\ Gone("clean")
  /\ UNCHANGED <<marker, failed, wanted, files, helper, counts, agreed>>

\* A crash leaves the helpers, a power cut does not; at boot the service is wanted.
Crash ==
  /\ life # "down" /\ crashes < MaxCrashes /\ crashes' = crashes + 1
  /\ Gone(IF life = "closing" THEN "clean" ELSE "unclean")
  /\ \/ UNCHANGED <<wanted, helper>>
     \/ wanted' = TRUE /\ helper' = [r \in Requests |-> "none"]
  /\ UNCHANGED <<marker, failed, files, failures, asked, agreed>>

\* IsHeld: a tool asks whether the daemon runs, by taking the lock and letting it go.
Held(from, to) ==
  /\ lock = from /\ lock' = to
  /\ UNCHANGED <<life, running, marker, failed, beat, ended, reported,
                 wanted, files, page, request, helper, counts, agreed>>

IsHeld == Held("free", "tool")
Release == Held("tool", "free")

-----------------------------------------------------------------------------
\* The update.

Publish ==
  /\ published < MaxVersion /\ published' = published + 1
  /\ UNCHANGED <<process, wanted, files, latest, seen, request, helper, counts, agreed>>

Check ==
  /\ life = "up" /\ latest' = (IF published > running THEN published ELSE None)
  /\ seen' = latest'
  /\ UNCHANGED <<process, wanted, files, published, request, helper, counts, agreed>>

\* The page of another browser is not told.
CheckFails ==
  /\ life = "up" /\ Fails /\ latest' = None
  /\ UNCHANGED <<process, wanted, files, seen, published, request, helper, crashes, asked, agreed>>

\* Somebody checks elsewhere: the version found is not the one on this page.
CheckElsewhere ==
  /\ life = "up" /\ published > running /\ latest' = published
  /\ UNCHANGED <<process, wanted, files, seen, published, request, helper, counts, agreed>>

\* Mutant: what is installed is what has been found, whatever was asked for.
ApplyFound(r) ==
  /\ life = "up" /\ request[r] = Idle /\ asked < MaxAsked /\ asked' = asked + 1
  /\ latest # None /\ seen # None /\ agreed' = agreed \cup {seen}
  /\ request' = [request EXCEPT ![r] = [at |-> "fetch", version |-> latest]]
  /\ UNCHANGED <<process, wanted, files, page, helper, failures, crashes>>

\* apply: only the version the operator saw, if it is still the one found.
Apply(r) ==
  /\ life = "up" /\ request[r] = Idle /\ asked < MaxAsked /\ asked' = asked + 1
  /\ latest # None /\ seen = latest /\ agreed' = agreed \cup {seen}
  /\ request' = [request EXCEPT ![r] = [at |-> "fetch", version |-> latest]]
  /\ UNCHANGED <<process, wanted, files, page, helper, failures, crashes>>

Refused(r) == request' = [request EXCEPT ![r] = Idle]
To(r, at) == request' = [request EXCEPT ![r].at = at]

\* Download: checksum, publisher, and that the file is the version of its release.
\* What the release publishes may be another.
Download(r) ==
  /\ life = "up" /\ request[r].at = "fetch"
  /\ \E content \in 1 .. published :
       IF content = request[r].version THEN To(r, "aside") /\ UNCHANGED failures
                                       ELSE Refused(r) /\ Fails
  /\ UNCHANGED <<process, wanted, files, page, helper, crashes, asked, agreed>>

\* Mutant: the installed file is deleted, and the new one copied.
DeleteOld(r) ==
  /\ life = "up" /\ request[r].at = "aside"
  /\ backup' = None /\ target' = None /\ To(r, "install")
  /\ UNCHANGED <<process, wanted, page, helper, counts, agreed>>

\* The old backup is dropped, and the program's file renamed.
MoveAside(r) ==
  /\ life = "up" /\ request[r].at = "aside"
  /\ IF target = None THEN backup' = None /\ Refused(r) /\ UNCHANGED target
                      ELSE backup' = target /\ target' = None /\ To(r, "install")
  /\ UNCHANGED <<process, wanted, page, helper, counts, agreed>>

Install(r) ==
  /\ life = "up" /\ request[r].at = "install"
  /\ target' = request[r].version /\ To(r, "restart")
  /\ UNCHANGED <<process, wanted, backup, page, helper, counts, agreed>>

InstallFails(r) ==
  /\ life = "up" /\ request[r].at = "install" /\ Fails /\ Refused(r)
  /\ target' = backup /\ backup' = None
  /\ UNCHANGED <<process, wanted, page, helper, crashes, asked, agreed>>

-----------------------------------------------------------------------------
\* Restarts.

AskRestart(r) ==
  /\ life = "up" /\ request[r] = Idle /\ asked < MaxAsked /\ asked' = asked + 1
  /\ To(r, "restart")
  /\ UNCHANGED <<process, wanted, files, page, helper, failures, crashes, agreed>>

\* restartSelf starts the helper and does not wait.
Restart(r) ==
  /\ life = "up" /\ request[r].at = "restart" /\ helper[r] = "none" /\ Refused(r)
  /\ helper' = [helper EXCEPT ![r] = "stop"]
  /\ UNCHANGED <<process, wanted, files, page, counts, agreed>>

HelperStops(r) ==
  /\ helper[r] = "stop" /\ wanted' = FALSE
  /\ helper' = IF KillsHelper THEN [q \in Requests |-> "none"]
                              ELSE [helper EXCEPT ![r] = "wait"]
  /\ UNCHANGED <<process, files, page, request, counts, agreed>>

\* Mutant: "not running", which a service that is still stopping is not.
NotRunning(r) ==
  /\ helper[r] = "wait" /\ life # "up" /\ helper' = [helper EXCEPT ![r] = "start"]
  /\ UNCHANGED <<process, wanted, files, page, request, counts, agreed>>

\* Stopped; or started again by somebody else, which outlasts the wait.  (That a
\* stop is over within the wait is assumed.)
HelperWaits(r) ==
  /\ helper[r] = "wait" /\ (life = "down" \/ wanted)
  /\ helper' = [helper EXCEPT ![r] = "start"]
  /\ UNCHANGED <<process, wanted, files, page, request, counts, agreed>>

\* A service that is there already refuses every attempt.
HelperStarts(r) ==
  /\ helper[r] = "start" /\ helper' = [helper EXCEPT ![r] = "none"]
  /\ wanted' = (wanted \/ life = "down")
  /\ UNCHANGED <<process, files, page, request, counts, agreed>>

Update(r) == Download(r) \/ MoveAside(r) \/ Install(r) \/ Restart(r)
Help(r) == HelperStops(r) \/ HelperWaits(r) \/ HelperStarts(r)
Process == Start \/ Ready \/ Cancel \/ Finish \/ Exit

Next ==
  \/ Process \/ StartFails \/ HeartbeatDue \/ Heartbeat \/ Crash \/ IsHeld \/ Release
  \/ Publish \/ Check \/ CheckFails \/ CheckElsewhere
  \/ \E r \in Requests : Apply(r) \/ AskRestart(r) \/ InstallFails(r) \/ Update(r) \/ Help(r)

Spec == Init /\ [][Next]_vars

\* The service manager starts what it is to have running, again if the lock was
\* taken by a tool; a process gets on with ending; and the helper runs.
Fairness ==
  /\ SF_vars(Start) /\ WF_vars(Ready) /\ WF_vars(Cancel) /\ WF_vars(Finish) /\ WF_vars(Exit)
  /\ WF_vars(Release)
  /\ \A r \in Requests : WF_vars(Help(r))

-----------------------------------------------------------------------------
\* Properties.

TypeOK ==
  /\ life \in {"down", "starting", "up", "stopping", "closing"}
  /\ (lock = "daemon") = (life # "down")
  /\ target \in 0 .. MaxVersion /\ backup \in 0 .. MaxVersion /\ latest \in 0 .. published

\* What an update puts in place is a version an operator saw and asked for, however
\* checks and releases fall between the look and the click.
InstalledWasAgreed == target = None \/ target \in agreed

\* At every instant of an update the machine holds a copy of the program.
CopyOnDisk == target # None \/ backup # None

\* A run that crashed or failed is reported by the next.
UncleanIsReported == life \in {"starting", "up"} /\ ended = "unclean" => reported

\* "non-nil exactly when the previous run ended uncleanly".
ReportedExactly == life \in {"starting", "up"} => (reported <=> ended = "unclean")

\* "at no point is there no binary at the target path".
NeverNoBinary == target # None

\* A restart that took the service down brings it back.
RestartReturns == ~wanted ~> (wanted /\ life = "up") \/ target = None
=============================================================================
