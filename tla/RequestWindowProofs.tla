------------------------- MODULE RequestWindowProofs -------------------------
(***************************************************************************)
(* RequestWindow for any number of requests, runs, lookups and loads: what *)
(* is shown, exported and named by the address belong together, and an     *)
(* edited id has no lookup.                                                *)
(*                                                                         *)
(* RecordIsWhatRan is not inductive as it stands: a run that is fetched    *)
(* must be stored as it was sent, a stored request must be normalised, and *)
(* what is shown must be stored or foreign, or a later run could take its  *)
(* id.  StoredAsSent adds these.  EditedIsFree is what an edit leaves.     *)
(***************************************************************************)
EXTENDS RequestWindow, TLAPS

(* What the backend holds, and where what the window holds comes from. *)
StoredAsSent ==
    /\ \A id \in DOMAIN records : Normalize[records[id]] = records[id]
    /\ simulation.stage = "fetching" =>
         records[simulation.id] = Normalize[simulation.request]
    /\ reading # None => reading.id \in Foreign
    /\ response \in DOMAIN records \cup Foreign \cup {None}
    /\ origin = "file" => response \in Foreign

EditedIsFree == typed => lookups = {}

WindowInv ==
    TypeOK /\ OpeningIffLookup /\ RecordIsWhatRan /\ UrlNamesShown
           /\ StoredAsSent /\ EditedIsFree

(* The first page that is opened satisfies the invariant. *)
LEMMA WindowInit == Init => WindowInv
<1> SUFFICES ASSUME Init PROVE WindowInv
  OBVIOUS
<1>1. TypeOK
  <2>1. PICK r \in Requests : records = [id \in Stored |-> Normalize[r]]
    BY DEF Init
  <2>2. Normalize[r] \in Requests
    BY WindowAssumption
  <2>3. DOMAIN records = Stored /\ \A id \in Stored : records[id] \in Requests
    BY <2>1, <2>2
  <2>4. loads \in 0 .. MaxLoads
    BY WindowAssumption DEF Init
  <2>. QED  BY <2>3, <2>4 DEF Init, TypeOK
<1>2. StoredAsSent
  BY WindowAssumption DEF Init, StoredAsSent, Idle
<1>3. OpeningIffLookup /\ RecordIsWhatRan /\ UrlNamesShown /\ EditedIsFree
  BY DEF Init, OpeningIffLookup, RecordIsWhatRan, UrlNamesShown, EditedIsFree
<1>. QED  BY <1>1, <1>2, <1>3 DEF WindowInv

(* Whoever shows a stored or foreign record with what was run for it keeps  *)
(* the export right.                                                        *)
LEMMA ShownRecord ==
  ASSUME NEW record, NEW from, WindowInv, Show(record, from), UNCHANGED records,
         record \in RecordSet, from \in {"backend", "file"},
         from = "backend" => record.id \in DOMAIN records
                             /\ Normalize[record.request] = records[record.id],
         from = "file" => record.id \in Foreign
  PROVE  /\ RecordIsWhatRan'
         /\ response' \in (DOMAIN records \cup Foreign \cup {None})'
         /\ requestLookupId' \in Ids /\ response' \in Ids
         /\ simulationRecord' = record /\ response' = record.id /\ origin' = from
  BY WindowAssumption DEF Show, WindowInv, RecordIsWhatRan, RecordSet, Ids

(* A lookup that ends leaves a free window. *)
LEMMA SettledLookup ==
  ASSUME NEW l \in lookups, TypeOK, OpeningIffLookup, SettleLookup(l)
  PROVE  /\ lookups' = {} /\ requestLookupAbortRef' = None /\ isOpeningRequest' = FALSE
         /\ OpeningIffLookup'
  BY WindowAssumption DEF TypeOK, OpeningIffLookup, SettleLookup

(* A lookup that is launched is the only one. *)
LEMMA LaunchedLookup ==
  ASSUME NEW controller \in Controllers, NEW id \in Ids, Launch(controller, id, {})
  PROVE  /\ OpeningIffLookup'
         /\ lookups' = {[controller |-> controller, id |-> id]}
         /\ requestLookupAbortRef' \in Controllers /\ isOpeningRequest' = TRUE
  BY WindowAssumption DEF OpeningIffLookup, Launch

(* What is known of a run in flight, from its stage. *)
LEMMA RunInFlight ==
  ASSUME TypeOK
  PROVE  /\ simulation.stage = "running" =>
              simulation \in [stage : {"running"}, id : {None}, request : Requests]
         /\ simulation.stage = "fetching" =>
              simulation \in [stage : {"fetching"}, id : DOMAIN records, request : Requests]
<1>1. simulation \in {Idle}
             \cup [stage : {"running"}, id : {None}, request : Requests]
             \cup [stage : {"fetching"}, id : DOMAIN records, request : Requests]
  BY DEF TypeOK
<1>2. Idle.stage = "idle"
  BY DEF Idle
<1>. QED  BY <1>1, <1>2

(* Every step keeps the invariant. *)
LEMMA WindowStep == WindowInv /\ [Next]_vars => WindowInv'
<1> SUFFICES ASSUME WindowInv, [Next]_vars PROVE WindowInv'
  OBVIOUS
<1> USE WindowAssumption
<1>. USE DEF WindowInv
<1>1. CASE UNCHANGED vars
  <2>1. TypeOK'
    BY <1>1 DEF vars, shownVars, lookupVars, historyVars, TypeOK
  <2>2. OpeningIffLookup' /\ RecordIsWhatRan' /\ UrlNamesShown'
    BY <1>1 DEF vars, shownVars, lookupVars, historyVars, OpeningIffLookup,
       RecordIsWhatRan, UrlNamesShown
  <2>3. StoredAsSent' /\ EditedIsFree'
    BY <1>1 DEF vars, shownVars, lookupVars, historyVars, StoredAsSent, EditedIsFree
  <2>. QED  BY <2>1, <2>2, <2>3
<1>2. ASSUME NEW request \in Requests, Edit(request) PROVE WindowInv'
  <2>1. TypeOK'
    BY <1>2 DEF Edit, shownVars, lookupVars, historyVars, TypeOK
  <2>2. OpeningIffLookup' /\ RecordIsWhatRan' /\ UrlNamesShown'
    BY <1>2 DEF Edit, shownVars, lookupVars, historyVars, OpeningIffLookup,
       RecordIsWhatRan, UrlNamesShown
  <2>3. StoredAsSent' /\ EditedIsFree'
    BY <1>2 DEF Edit, shownVars, lookupVars, historyVars, StoredAsSent, EditedIsFree
  <2>. QED  BY <2>1, <2>2, <2>3
<1>3. ASSUME NEW id \in Stored \cup Runs \cup {None}, ChangeRequestLookupId(id)
      PROVE  WindowInv'
  <2>1. lookups' = {} /\ requestLookupAbortRef' = None /\ isOpeningRequest' = FALSE
    BY <1>3 DEF ChangeRequestLookupId, AbortLookup, TypeOK, OpeningIffLookup, lookupVars
  <2>2. OpeningIffLookup' /\ EditedIsFree'
    BY <2>1 DEF OpeningIffLookup, EditedIsFree
  <2>3. TypeOK'
    BY <1>3, <2>1 DEF ChangeRequestLookupId, TypeOK, Ids
  <2>4. RecordIsWhatRan' /\ UrlNamesShown' /\ StoredAsSent'
    BY <1>3 DEF ChangeRequestLookupId, RecordIsWhatRan, UrlNamesShown, StoredAsSent
  <2>. QED  BY <2>2, <2>3, <2>4
<1>4. ASSUME NEW controller \in Controllers, OpenStoredRequest(controller)
      PROVE  WindowInv'
  <2>1. lookups = {}
    BY <1>4 DEF OpenStoredRequest, TypeOK, OpeningIffLookup
  <2>2. requestLookupId \in Ids /\ Launch(controller, requestLookupId, {})
    BY <1>4, <2>1 DEF OpenStoredRequest, TypeOK
  <2>3. /\ OpeningIffLookup'
        /\ lookups' = {[controller |-> controller, id |-> requestLookupId]}
        /\ requestLookupAbortRef' \in Controllers /\ isOpeningRequest' = TRUE
    BY <2>2, LaunchedLookup
  <2>4. TypeOK'
    <3>1. lookups' \subseteq [controller : Controllers, id : Stored \cup Runs \cup Foreign]
      BY <2>2, <2>3 DEF Ids
    <3>. QED  BY <1>4, <2>3, <3>1 DEF OpenStoredRequest, TypeOK, shownVars
  <2>5. RecordIsWhatRan' /\ UrlNamesShown' /\ StoredAsSent' /\ EditedIsFree'
    BY <1>4 DEF OpenStoredRequest, RecordIsWhatRan, UrlNamesShown, StoredAsSent,
       EditedIsFree, shownVars
  <2>. QED  BY <2>3, <2>4, <2>5
<1>5. ASSUME NEW l \in lookups, LookupAnswers(l) PROVE WindowInv'
  <2> DEFINE record == Record(l.id, records[l.id])
  <2>1. l.id \in DOMAIN records /\ Show(record, "backend") /\ SettleLookup(l)
        /\ UNCHANGED records
    BY <1>5 DEF LookupAnswers
  <2>2. l.id \in Ids /\ records[l.id] \in Requests
    BY <2>1 DEF TypeOK, Ids
  <2>3. record \in RecordSet /\ record.id = l.id /\ record.request = records[l.id]
    BY <2>2 DEF Record, RecordSet
  <2>4. Normalize[record.request] = records[record.id]
    BY <2>1, <2>3 DEF StoredAsSent
  <2> HIDE DEF record
  <2>5. /\ RecordIsWhatRan'
        /\ response' \in (DOMAIN records \cup Foreign \cup {None})'
        /\ requestLookupId' \in Ids /\ response' \in Ids
        /\ simulationRecord' = record /\ response' = record.id /\ origin' = "backend"
    BY <2>1, <2>3, <2>4, ShownRecord
  <2>6. /\ lookups' = {} /\ requestLookupAbortRef' = None /\ isOpeningRequest' = FALSE
        /\ OpeningIffLookup'
    BY <2>1, SettledLookup
  <2>7. TypeOK'
    BY <1>5, <2>2, <2>3, <2>5, <2>6 DEF LookupAnswers, TypeOK
  <2>8. UrlNamesShown' /\ StoredAsSent' /\ EditedIsFree'
    BY <1>5, <2>3, <2>5, <2>6 DEF LookupAnswers, UrlNamesShown, StoredAsSent, EditedIsFree
  <2>. QED  BY <2>5, <2>6, <2>7, <2>8
<1>6. ASSUME NEW l \in lookups, LookupFails(l) \/ LookupTimesOut(l) PROVE WindowInv'
  <2>1. /\ lookups' = {} /\ requestLookupAbortRef' = None /\ isOpeningRequest' = FALSE
        /\ OpeningIffLookup'
    BY <1>6, SettledLookup DEF LookupFails, LookupTimesOut
  <2>2. TypeOK'
    <3>1. /\ error' \in {"lookup failed", "lookup timed out"}
          /\ UNCHANGED <<records, form, shownVars, url, simulation, reading, loads, historyVars>>
      BY <1>6 DEF LookupFails, LookupTimesOut
    <3>. QED  BY <2>1, <3>1 DEF TypeOK, shownVars, historyVars
  <2>3. RecordIsWhatRan' /\ UrlNamesShown' /\ StoredAsSent' /\ EditedIsFree'
    BY <1>6, <2>1 DEF LookupFails, LookupTimesOut, RecordIsWhatRan, UrlNamesShown,
       StoredAsSent, EditedIsFree, shownVars, historyVars
  <2>. QED  BY <2>1, <2>2, <2>3
<1>7. ASSUME NEW valid \in BOOLEAN, Submit(valid) PROVE WindowInv'
  BY <1>7 DEF Submit, IsPending, shownVars, lookupVars, historyVars, TypeOK, OpeningIffLookup,
     RecordIsWhatRan, UrlNamesShown, StoredAsSent, EditedIsFree, Idle
<1>8. ASSUME NEW id \in Runs, RunAnswers(id) PROVE WindowInv'
  <2>1. /\ DOMAIN records' = DOMAIN records \cup {id}
        /\ records'[id] = Normalize[simulation.request]
        /\ \A i \in DOMAIN records : records'[i] = records[i]
        /\ id \notin DOMAIN records
    BY <1>8 DEF RunAnswers
  <2>. simulation \in [stage : {"running"}, id : {None}, request : Requests]
    BY <1>8, RunInFlight DEF RunAnswers
  <2>2. simulation.request \in Requests /\ Normalize[simulation.request] \in Requests
    OBVIOUS
  <2>3. /\ simulation' = [stage |-> "fetching", id |-> id, request |-> simulation.request]
        /\ simulation'.stage = "fetching" /\ simulation'.id = id
        /\ simulation'.request = simulation.request
    BY <1>8 DEF RunAnswers
  <2>4. TypeOK'
    <3>1. /\ Stored \subseteq DOMAIN records' /\ DOMAIN records' \subseteq Stored \cup Runs
          /\ \A i \in DOMAIN records' : records'[i] \in Requests
      BY <2>1, <2>2 DEF TypeOK
    <3>2. simulation' \in [stage : {"fetching"}, id : DOMAIN records', request : Requests]
      BY <2>1, <2>2, <2>3
    <3>. QED  BY <1>8, <3>1, <3>2 DEF RunAnswers, TypeOK, shownVars, lookupVars, historyVars
  <2>5. response # id
    BY <2>1 DEF StoredAsSent
  <2>6. RecordIsWhatRan' /\ UrlNamesShown' /\ OpeningIffLookup' /\ EditedIsFree'
    BY <1>8, <2>1, <2>5 DEF RunAnswers, RecordIsWhatRan, UrlNamesShown, OpeningIffLookup,
       EditedIsFree, shownVars, lookupVars, historyVars
  <2>7. StoredAsSent'
    <3>1. \A i \in DOMAIN records' : Normalize[records'[i]] = records'[i]
      BY <2>1, <2>2 DEF StoredAsSent
    <3>2. UNCHANGED <<reading, response, origin>>
      BY <1>8 DEF RunAnswers, shownVars, historyVars
    <3>3. DOMAIN records \subseteq DOMAIN records'
      BY <2>1
    <3>. QED  BY <2>1, <2>3, <3>1, <3>2, <3>3 DEF StoredAsSent
  <2>. QED  BY <2>4, <2>6, <2>7
<1>9. CASE RunFails
  BY <1>9 DEF RunFails, shownVars, lookupVars, historyVars, TypeOK, OpeningIffLookup,
     RecordIsWhatRan, UrlNamesShown, StoredAsSent, EditedIsFree, Idle
<1>10. ASSUME simulation.stage = "fetching",
              \/ Succeed(FallbackRecord)
              \/ Succeed(Record(simulation.id, records[simulation.id]))
       PROVE  WindowInv'
  <2>1. PICK record : /\ Succeed(record)
                      /\ record \in {FallbackRecord,
                                     Record(simulation.id, records[simulation.id])}
    BY <1>10
  <2>2. /\ simulation.id \in DOMAIN records /\ simulation.id \in Ids
        /\ simulation.request \in Requests /\ records[simulation.id] \in Requests
    BY <1>10, RunInFlight DEF TypeOK, Ids
  <2>3. record \in RecordSet /\ record.id = simulation.id
    BY <2>1, <2>2 DEF FallbackRecord, Record, RecordSet
  <2>4. Normalize[record.request] = records[record.id]
    BY <1>10, <2>1, <2>2, <2>3 DEF FallbackRecord, Record, StoredAsSent
  <2>5. /\ RecordIsWhatRan'
        /\ response' \in (DOMAIN records \cup Foreign \cup {None})'
        /\ requestLookupId' \in Ids /\ response' \in Ids
        /\ simulationRecord' = record /\ response' = record.id /\ origin' = "backend"
    BY <2>1, <2>2, <2>3, <2>4, ShownRecord DEF Succeed
  <2>6. TypeOK'
    BY <2>1, <2>3, <2>5 DEF Succeed, TypeOK, lookupVars, Idle
  <2>7. UrlNamesShown' /\ StoredAsSent' /\ EditedIsFree' /\ OpeningIffLookup'
    BY <2>1, <2>5 DEF Succeed, UrlNamesShown, StoredAsSent, EditedIsFree, OpeningIffLookup,
       lookupVars, Idle
  <2>. QED  BY <2>5, <2>6, <2>7
<1>11. CASE RecordFetched \/ RecordFetchFails
  BY <1>10, <1>11 DEF RecordFetched, RecordFetchFails
<1>12. CASE AbortSimulation
  <2>1. CASE simulation.stage = "fetching"
    BY <1>10, <1>12, <2>1 DEF AbortSimulation
  <2>2. CASE simulation.stage = "running"
    <3>1. TypeOK'
      <4>1. /\ error' = "aborted" /\ simulation' = Idle
            /\ UNCHANGED <<records, form, shownVars, url, lookupVars, reading, loads, historyVars>>
        BY <1>12, <2>2 DEF AbortSimulation
      <4>. QED  BY <4>1 DEF shownVars, lookupVars, historyVars, TypeOK
    <3>2. OpeningIffLookup' /\ RecordIsWhatRan' /\ UrlNamesShown'
      BY <1>12, <2>2 DEF AbortSimulation, shownVars, lookupVars, historyVars,
         OpeningIffLookup, RecordIsWhatRan, UrlNamesShown
    <3>3. StoredAsSent' /\ EditedIsFree'
      BY <1>12, <2>2 DEF AbortSimulation, shownVars, lookupVars, historyVars,
         StoredAsSent, EditedIsFree, Idle
    <3>. QED  BY <3>1, <3>2, <3>3
  <2>. QED  BY <1>12, <2>1, <2>2 DEF AbortSimulation
<1>13. ASSUME NEW record \in [id : Foreign, request : Requests],
              ApplySimulationImport(record), reading' \in {reading, None}
       PROVE  WindowInv'
  <2>1. record \in RecordSet /\ record.id \in Foreign
    BY DEF RecordSet, Ids
  <2>2. /\ RecordIsWhatRan'
        /\ response' \in (DOMAIN records \cup Foreign \cup {None})'
        /\ requestLookupId' \in Ids /\ response' \in Ids
        /\ simulationRecord' = record /\ response' = record.id /\ origin' = "file"
    BY <1>13, <2>1, ShownRecord DEF ApplySimulationImport
  <2>3. TypeOK'
    BY <1>13, <2>1, <2>2 DEF ApplySimulationImport, TypeOK, lookupVars
  <2>4. UrlNamesShown' /\ StoredAsSent' /\ EditedIsFree' /\ OpeningIffLookup'
    BY <1>13, <2>2 DEF ApplySimulationImport, UrlNamesShown, StoredAsSent, EditedIsFree,
       OpeningIffLookup, lookupVars
  <2>. QED  BY <2>2, <2>3, <2>4
<1>14. ASSUME NEW record \in [id : Foreign, request : Requests],
              PasteSimulationData(record) \/ ChooseImportFile(record)
       PROVE  WindowInv'
  <2>1. CASE PasteSimulationData(record)
    BY <1>13, <2>1 DEF PasteSimulationData
  <2>2. CASE ChooseImportFile(record)
    <3>1. record \in RecordSet /\ record.id \in Foreign
      BY DEF RecordSet, Ids
    <3>2. TypeOK'
      BY <2>2, <3>1 DEF ChooseImportFile, shownVars, lookupVars, historyVars, TypeOK
    <3>3. OpeningIffLookup' /\ RecordIsWhatRan' /\ UrlNamesShown'
      BY <2>2 DEF ChooseImportFile, shownVars, lookupVars, historyVars, OpeningIffLookup,
         RecordIsWhatRan, UrlNamesShown
    <3>4. StoredAsSent' /\ EditedIsFree'
      BY <2>2, <3>1 DEF ChooseImportFile, shownVars, lookupVars, historyVars, StoredAsSent,
         EditedIsFree
    <3>. QED  BY <3>2, <3>3, <3>4
  <2>. QED  BY <1>14, <2>1, <2>2
<1>15. CASE ImportFileRead
  <2>1. reading \in [id : Foreign, request : Requests] /\ reading' = None
    BY <1>15 DEF ImportFileRead, TypeOK, StoredAsSent, RecordSet
  <2>2. CASE ApplySimulationImport(reading)
    BY <1>13, <2>1, <2>2
  <2>3. CASE UNCHANGED <<records, form, shownVars, url, lookupVars, simulation, loads,
                         historyVars>> /\ error' = "import failed"
    BY <2>1, <2>3 DEF shownVars, lookupVars, historyVars, TypeOK, OpeningIffLookup,
       RecordIsWhatRan, UrlNamesShown, StoredAsSent, EditedIsFree
  <2>. QED  BY <1>15, <2>2, <2>3 DEF ImportFileRead
<1>16. ASSUME NEW id \in Stored \cup {url}, NEW keeps \in BOOLEAN,
              NEW controller \in Controllers, Load(id, keeps, controller)
       PROVE  WindowInv'
  <2>1. /\ OpeningIffLookup' /\ isOpeningRequest' \in BOOLEAN
        /\ lookups' \subseteq [controller : Controllers, id : Stored \cup Runs \cup Foreign]
        /\ requestLookupAbortRef' \in Controllers \cup {None}
    <3>1. CASE id = None
      BY <1>16, <3>1 DEF Load, OpeningIffLookup
    <3>2. CASE id # None
      <4>1. id \in Ids
        BY <3>2 DEF TypeOK, Ids
      <4>2. Launch(controller, id, {})
        BY <1>16, <3>2 DEF Load
      <4>3. /\ OpeningIffLookup'
            /\ lookups' = {[controller |-> controller, id |-> id]}
            /\ requestLookupAbortRef' \in Controllers /\ isOpeningRequest' = TRUE
        BY <4>1, <4>2, LaunchedLookup
      <4>. QED  BY <4>1, <4>3 DEF Ids
    <3>. QED  BY <3>1, <3>2
  <2>2. \/ response' = response /\ simulationRecord' = simulationRecord
        \/ response' = None /\ simulationRecord' = None
    BY <1>16 DEF Load, RestoreUIState
  <2>3. {requestLookupId, response, url}' \subseteq Ids \cup {None}
    <3>1. url' = id /\ id \in Ids \cup {None}
      BY <1>16 DEF Load, RestoreUIState, TypeOK, Ids
    <3>2. response' \in Ids \cup {None}
      BY <2>2 DEF TypeOK
    <3>3. requestLookupId' \in {id, response'}
      BY <1>16 DEF Load, RestoreUIState
    <3>. QED  BY <3>1, <3>2, <3>3
  <2>4. TypeOK'
    <3>1. /\ loads' \in 0 .. MaxLoads
          /\ origin' \in {"nothing", "backend", "file", "earlier"}
          /\ simulation' = Idle /\ error' = "none" /\ typed' = FALSE /\ reading' = None
          /\ UNCHANGED <<records, form>>
      <4>1. loads \in 0 .. MaxLoads /\ loads < MaxLoads /\ loads' = loads + 1
        BY <1>16 DEF Load, TypeOK
      <4>2. loads' \in 0 .. MaxLoads
        BY <4>1
      <4>3. origin' \in {"nothing", "earlier", origin}
        BY <1>16 DEF Load, RestoreUIState
      <4>4. origin' \in {"nothing", "backend", "file", "earlier"}
        BY <4>3 DEF TypeOK
      <4>. QED  BY <1>16, <4>2, <4>4 DEF Load, RestoreUIState
    <3>2. simulationRecord' \in RecordSet \cup {None}
      BY <2>2 DEF TypeOK
    <3>. QED  BY <2>1, <2>3, <3>1, <3>2 DEF TypeOK
  <2>5. RecordIsWhatRan'
    <3>1. CASE response' = None /\ simulationRecord' = None
      BY <3>1 DEF RecordIsWhatRan
    <3>2. CASE response' = response /\ simulationRecord' = simulationRecord
      <4>1. UNCHANGED records
        BY <1>16 DEF Load, RestoreUIState
      <4>2. origin = "file" => response' \notin DOMAIN records'
        BY <3>2, <4>1 DEF StoredAsSent, TypeOK
      <4>. QED  BY <3>2, <4>1, <4>2 DEF RecordIsWhatRan
    <3>. QED  BY <2>2, <3>1, <3>2
  <2>6. UrlNamesShown' /\ StoredAsSent' /\ EditedIsFree'
    BY <1>16 DEF Load, RestoreUIState, UrlNamesShown, StoredAsSent, EditedIsFree, Idle
  <2>. QED  BY <2>1, <2>4, <2>5, <2>6
<1>. QED
  BY <1>1, <1>2, <1>3, <1>4, <1>5, <1>6, <1>7, <1>8, <1>9, <1>11, <1>12, <1>14, <1>15, <1>16
  DEF Next, User, Network

(* The invariant holds in every reachable state. *)
LEMMA WindowAlways == Spec => []WindowInv
  BY WindowInit, WindowStep, PTL DEF Spec

(* Every variable has its type. *)
THEOREM WindowTypeCorrect == Spec => []TypeOK
  BY WindowAlways, PTL DEF WindowInv

(* A window says that it is opening a request exactly while the one lookup  *)
(* of it is in flight (openStoredRequestById, changeRequestLookupId).       *)
THEOREM OpeningExact == Spec => []OpeningIffLookup
  BY WindowAlways, PTL DEF WindowInv

(* An export writes the answer shown with the request that was run for it   *)
(* (runRequest, buildSimulationExportData).                                 *)
THEOREM ExportRight == Spec => []RecordIsWhatRan
  BY WindowAlways, PTL DEF WindowInv

(* The address names the answer shown (syncRequestIdToURL). *)
THEOREM AddressRight == Spec => []UrlNamesShown
  BY WindowAlways, PTL DEF WindowInv

(* Nothing of a lookup reaches the window after an edit of the id           *)
(* (changeRequestLookupId).                                                 *)
THEOREM EditIsFinal == Spec => EditEndsLookup
<1> DEFINE Quiet == \A l \in lookups :
              typed => ~ (LookupAnswers(l) \/ LookupFails(l) \/ LookupTimesOut(l))
<1>1. WindowInv => Quiet
  BY DEF WindowInv, EditedIsFree
<1>. QED  BY <1>1, WindowAlways, PTL DEF EditEndsLookup
=============================================================================
