---------------------------- MODULE ProtectEvents ---------------------------
(***************************************************************************)
(* The events socket of protect.Source: what each type of event means, and *)
(* the table of events in progress that gives an end its meaning.  A frame *)
(* that only carries an end names neither type nor device; the table is    *)
(* bounded, and survives the connection.                                   *)
(***************************************************************************)
EXTENDS Integers, FiniteSets, SequencesExt

CONSTANTS Ids,       \* of the console's events, all of one device
          MaxOpen,   \* MaxOpenEvents
          MaxRepeats \* bound: frames beyond a start and an end of each event

\* baseMappings: types of one meaning are grouped.
Motion == {"motion", "lightMotion", "sensorMotion", "alarmHubMotion"}
Detection == {"smartDetectZone", "smartDetectLine"}
Tamper == {"sensorTamper", "alarmHubTamper", "alarmHubDeviceTamper"}
SmokeFault == {"sensorSmokeBatteryLow", "sensorSmokeNeedsCleaning", "sensorSmokeFault",
               "sensorSmokeEndOfLife"}
Scan == {"nfcCardScanned", "fingerprintIdentified"}
Input == {"relayInputChanged", "cameraDigitalInputChanged"}
Single == {"ring", "smartDetectLoiterZone", "smartAudioDetect", "sensorWaterLeak", "sensorAlarm",
           "sensorVape", "sensorExtremeValues", "sensorButtonPressed", "sensorSmokeTest",
           "sensorCoFault", "alarmHubSmoke", "alarmHubGlassBreak", "alarmHubButtonPress",
           "alarmHubRelaySwitched", "alarmHubBatteryConnected"}
Contact == {"sensorOpened", "sensorClosed"}
Entry == {"alarmHubEntryOpened", "alarmHubEntryClosed"}
Battery == {"sensorBatteryLow", "alarmHubBatteryLow"}
Unknown == "sensorArson"

Groups == {Motion, Detection, Tamper, SmokeFault, Scan, Input, Contact, Entry, Battery}
          \cup {{t} : t \in Single}
BaseTypes == UNION Groups
EndTypes == {"sensorClosed", "alarmHubEntryClosed"}
DurationTypes == Motion \cup Detection \cup {"smartDetectLoiterZone", "smartAudioDetect"}

AlarmTypes == {"smoke", "co", "glassbreak", "other"}

\* Types of one group share a condition; what sensorAlarm refines to does with
\* the hub's own alarms.
Condition(type, alarm) ==
  CASE type = "sensorAlarm" /\ alarm = "smoke" -> {"alarmHubSmoke"}
    [] type = "sensorAlarm" /\ alarm = "co" -> {"carbon-monoxide"}
    [] type = "sensorAlarm" /\ alarm = "glassbreak" -> {"alarmHubGlassBreak"}
    [] OTHER -> CHOOSE g \in Groups : type \in g

Critical == {Tamper, {"alarmHubSmoke"}, {"carbon-monoxide"}, {"alarmHubGlassBreak"}}

\* classify.
Classify(type, alarm) ==
  [condition |-> Condition(type, alarm), clears |-> type \in EndTypes,
   endClears |-> type \in DurationTypes]

VARIABLES
  event,    \* id -> [type, alarm], what the console reports
  phase,    \* id -> "none", "on" or "over"
  repeats,
  open,     \* the ids in the table, oldest first (openSeq, the keys of open)
  told,     \* the conditions reported and not cleared since
  alarmed,  \* ghost: the critical conditions ever reported
  strangers \* Health: frames of a type that is not in the table

vars == <<event, phase, repeats, open, told, alarmed, strangers>>

Init ==
  /\ event \in [Ids -> [type : BaseTypes \cup {Unknown}, alarm : {"other"}]
                         \cup [type : {"sensorAlarm"}, alarm : AlarmTypes]]
  /\ phase = [i \in Ids |-> "none"] /\ repeats = 0
  /\ open = << >> /\ told = {} /\ alarmed = {} /\ strangers = 0

InTable(i) == \E k \in 1 .. Len(open) : open[k] = i
Without(i) == RemoveAt(open, CHOOSE k \in 1 .. Len(open) : open[k] = i)

\* putOpen: the oldest makes room; an event that is there keeps its place.
PutOpen(i) ==
  LET longer == IF InTable(i) THEN open ELSE Append(open, i)
  IN  open' = IF Len(longer) > MaxOpen THEN Tail(longer) ELSE longer

\* Mutant: every event that ends is over.
MeaningEnds(i) == [Classify(event[i].type, event[i].alarm) EXCEPT !.endClears = TRUE]

Meaning(i) == Classify(event[i].type, event[i].alarm)

Report(m, clears) ==
  /\ told' = IF clears THEN told \ {m.condition} ELSE told \cup {m.condition}
  /\ alarmed' = IF ~clears /\ m.condition \in Critical
                  THEN alarmed \cup {m.condition} ELSE alarmed

\* handleEventFrame with a type: reported, and remembered if its end will mean
\* something; one that is over already is closed in one go.
Typed(i, ended) ==
  LET m == Meaning(i)
      duration == m.endClears /\ ~m.clears
  IN  IF event[i].type = Unknown
        THEN /\ strangers' = IF strangers = 0 THEN 1 ELSE strangers
             /\ UNCHANGED <<open, told, alarmed>>
        ELSE /\ Report(m, m.clears \/ (duration /\ ended))
             /\ IF duration /\ ~ended THEN PutOpen(i) ELSE UNCHANGED open
             /\ UNCHANGED strangers

\* handleEventFrame with only an end: inert for what is not in the table.
Untyped(i) ==
  /\ IF InTable(i) THEN Report(Meaning(i), TRUE) /\ open' = Without(i)
                   ELSE UNCHANGED <<open, told, alarmed>>
  /\ UNCHANGED strangers

Start(i) ==
  /\ phase[i] = "none" /\ phase' = [phase EXCEPT ![i] = "on"]
  /\ Typed(i, FALSE) /\ UNCHANGED <<event, repeats>>

End(i) ==
  /\ phase[i] = "on" /\ phase' = [phase EXCEPT ![i] = "over"]
  /\ Untyped(i) \/ Typed(i, TRUE)
  /\ UNCHANGED <<event, repeats>>

\* A frame that was lost with a connection, or one sent again.
Lose(i) ==
  /\ phase[i] # "over"
  /\ phase' = [phase EXCEPT ![i] = IF @ = "none" THEN "on" ELSE "over"]
  /\ UNCHANGED <<event, repeats, open, told, alarmed, strangers>>

Again(i) ==
  /\ phase[i] # "none" /\ repeats < MaxRepeats /\ repeats' = repeats + 1
  /\ IF phase[i] = "on" THEN Typed(i, FALSE) ELSE Untyped(i) \/ Typed(i, TRUE)
  /\ UNCHANGED <<event, phase>>

Next == \E i \in Ids : Start(i) \/ End(i) \/ Lose(i) \/ Again(i)

Spec == Init /\ [][Next]_vars

-----------------------------------------------------------------------------
TypeOK ==
  /\ Len(open) <= MaxOpen
  /\ \A k, l \in 1 .. Len(open) : open[k] = open[l] => k = l

\* What was reported as critical is not closed by the end of an event: that
\* the recording of smoke stopped does not say that the smoke did.
AlarmOutlastsItsEvent == alarmed \subseteq told
=============================================================================
