---------------------------- MODULE RequestWindow ----------------------------
(***************************************************************************)
(* One window of the frontend (app/App.tsx, api/client.ts): a form, a      *)
(* request id, and the answer shown, which runs, lookups of stored         *)
(* requests, imports and reloads of the page all replace.                  *)
(*                                                                         *)
(* Handlers and continuations run to their end in the browser's event      *)
(* loop; an abort rejects its fetch in the microtasks of the same handler. *)
(* So the steps of this module are the user's events and the answers of    *)
(* the network.  Requests are abstract, the API URL is constant, and the   *)
(* health, chain and project queries, which only fill lists, are left out. *)
(***************************************************************************)
EXTENDS Naturals, FiniteSets

CONSTANTS
    Requests,      \* what the form may hold
    Normalize,     \* the request as the backend stores it (latest becomes a block number)
    Stored,        \* ids of the requests the backend had stored before
    Runs,          \* ids the backend gives to the runs of this window; bounds them
    Foreign,       \* ids of the records in files of other backends
    Controllers,   \* AbortControllers of lookups
    MaxLoads,      \* bound: loads of the page after the first
    None           \* no id, no record, no controller

ASSUME WindowAssumption ==
    /\ Normalize \in [Requests -> Requests]
    /\ \A r \in Requests : Normalize[Normalize[r]] = Normalize[r]
    /\ None \notin Stored \cup Runs \cup Foreign \cup Controllers \cup Requests
    /\ None \notin [id : Stored \cup Runs \cup Foreign, request : Requests]
    /\ Foreign \cap (Stored \cup Runs) = {} /\ Stored \cap Runs = {}
    /\ MaxLoads \in Nat

VARIABLES
    records,                 \* the backend: request of every stored id
    form,
    requestLookupId,
    response,                \* id of the answer shown
    simulationRecord,        \* the record an export would write
    url,                     \* requestId of the address of the page
    error,                   \* the kind of message shown
    isOpeningRequest,
    requestLookupAbortRef,
    lookups,                 \* lookups in flight
    simulation,              \* the run in flight
    reading,                 \* the record in the file that is being read
    loads,
    typed,                   \* history: the id was edited after the last lookup was opened
    origin                   \* history: where the answer shown came from

shownVars == <<response, simulationRecord, requestLookupId>>
lookupVars == <<isOpeningRequest, requestLookupAbortRef, lookups>>
historyVars == <<typed, origin>>
vars == <<records, form, shownVars, url, error, lookupVars, simulation, reading,
          loads, historyVars>>

Ids == Stored \cup Runs \cup Foreign
Record(id, request) == [id |-> id, request |-> request]
RecordSet == [id : Ids, request : Requests]
Idle == [stage |-> "idle", id |-> None, request |-> None]
IsPending == simulation.stage # "idle"

Init ==
    /\ \E r \in Requests : records = [id \in Stored |-> Normalize[r]]
    /\ form \in Requests
    /\ requestLookupId = None /\ response = None /\ simulationRecord = None
    /\ url = None
    /\ error = "none"
    /\ isOpeningRequest = FALSE /\ requestLookupAbortRef = None /\ lookups = {}
    /\ simulation = Idle
    /\ reading = None
    /\ loads = 0
    /\ typed = FALSE /\ origin = "nothing"

-----------------------------------------------------------------------------
(* The form and the request id. *)

Edit(request) ==
    /\ form' = request
    /\ UNCHANGED <<records, shownVars, url, error, lookupVars, simulation, reading,
                   loads, historyVars>>

(* Mistake: the lookup of the old id is left in flight. *)
DetachLookup ==
    /\ isOpeningRequest' = FALSE
    /\ requestLookupAbortRef' = None
    /\ UNCHANGED lookups

(* The lookup is aborted; its catch ignores an abort that is no timeout. *)
AbortLookup ==
    /\ isOpeningRequest' = FALSE
    /\ requestLookupAbortRef' = None
    /\ lookups' = {l \in lookups : l.controller # requestLookupAbortRef}

(* changeRequestLookupId: an edited id has no lookup. *)
ChangeRequestLookupId(id) ==
    /\ requestLookupId' = id
    /\ typed' = TRUE
    /\ IF isOpeningRequest THEN AbortLookup ELSE UNCHANGED lookupVars
    /\ UNCHANGED <<records, form, response, simulationRecord, url, error, simulation,
                   reading, loads, origin>>

-----------------------------------------------------------------------------
(* Lookups. *)

(* openStoredRequestById, from its guard on.  The answer, an error and the  *)
(* timer of ten seconds are the three ways a lookup ends.                   *)
Launch(controller, id, inFlight) ==
    /\ controller \notin {l.controller : l \in inFlight}
    /\ lookups' = inFlight \cup {[controller |-> controller, id |-> id]}
    /\ requestLookupAbortRef' = controller
    /\ isOpeningRequest' = TRUE

(* The Open button and the Enter key. *)
OpenStoredRequest(controller) ==
    /\ ~ IsPending /\ ~ isOpeningRequest /\ requestLookupId # None
    /\ Launch(controller, requestLookupId, lookups)
    /\ error' = "none"
    /\ typed' = FALSE
    /\ UNCHANGED <<records, form, shownVars, url, simulation, reading, loads, origin>>

(* finally: the timer is cleared, and the window is free again. *)
SettleLookup(l) ==
    /\ lookups' = lookups \ {l}
    /\ IF requestLookupAbortRef = l.controller
       THEN requestLookupAbortRef' = None /\ isOpeningRequest' = FALSE
       ELSE UNCHANGED <<requestLookupAbortRef, isOpeningRequest>>

Show(record, from) ==
    /\ response' = record.id
    /\ simulationRecord' = record
    /\ requestLookupId' = record.id
    /\ origin' = from

LookupAnswers(l) ==
    /\ l \in lookups /\ l.id \in DOMAIN records
    /\ Show(Record(l.id, records[l.id]), "backend")
    /\ form' = records[l.id]
    /\ url' = l.id
    /\ error' = "none"
    /\ SettleLookup(l)
    /\ UNCHANGED <<records, simulation, reading, loads, typed>>

(* Mistake: a lookup that fails skips finally. *)
FailWithoutFinally(l) ==
    /\ l \in lookups
    /\ error' = "lookup failed"
    /\ lookups' = lookups \ {l}
    /\ UNCHANGED <<records, form, shownVars, url, isOpeningRequest, requestLookupAbortRef,
                   simulation, reading, loads, historyVars>>

(* The id is not found, the backend or the network fails. *)
LookupFails(l) ==
    /\ l \in lookups
    /\ error' = "lookup failed"
    /\ SettleLookup(l)
    /\ UNCHANGED <<records, form, shownVars, url, simulation, reading, loads, historyVars>>

(* Mistake: the timer leaves the fetch alone. *)
TimeoutWithoutAbort(l) ==
    /\ l \in lookups
    /\ error' = "lookup timed out"
    /\ UNCHANGED <<records, form, shownVars, url, lookupVars, simulation, reading, loads,
                   historyVars>>

LookupTimesOut(l) ==
    /\ l \in lookups
    /\ error' = "lookup timed out"
    /\ SettleLookup(l)
    /\ UNCHANGED <<records, form, shownVars, url, simulation, reading, loads, historyVars>>

-----------------------------------------------------------------------------
(* Runs: the call of the backend, then the lookup of its record. *)

(* submit.  A form that buildRunRequest refuses is not sent.  A lookup in   *)
(* flight does not stop a submit.                                           *)
Submit(valid) ==
    /\ ~ IsPending
    /\ error' = IF valid THEN "none" ELSE "invalid"
    /\ simulation' = IF valid THEN [stage |-> "running", id |-> None, request |-> form]
                              ELSE simulation
    /\ UNCHANGED <<records, form, shownVars, url, lookupVars, reading, loads, historyVars>>

(* Mistake: the record is looked up without the id of the answer. *)
RunAnswersUnnamed(id) ==
    /\ simulation.stage = "running"
    /\ id \notin DOMAIN records
    /\ records' = [i \in DOMAIN records \cup {id} |->
                     IF i = id THEN Normalize[simulation.request] ELSE records[i]]
    /\ simulation' = [simulation EXCEPT !.stage = "fetching"]
    /\ UNCHANGED <<form, shownVars, url, error, lookupVars, reading, loads, historyVars>>

(* The backend has stored the run before it answers. *)
RunAnswers(id) ==
    /\ simulation.stage = "running"
    /\ id \notin DOMAIN records
    /\ records' = [i \in DOMAIN records \cup {id} |->
                     IF i = id THEN Normalize[simulation.request] ELSE records[i]]
    /\ simulation' = [simulation EXCEPT !.stage = "fetching", !.id = id]
    /\ UNCHANGED <<form, shownVars, url, error, lookupVars, reading, loads, historyVars>>

RunFails ==
    /\ simulation.stage = "running"
    /\ error' = "run failed"
    /\ simulation' = Idle
    /\ UNCHANGED <<records, form, shownVars, url, lookupVars, reading, loads, historyVars>>

(* Mistake: the address of the page is left alone. *)
SucceedWithoutURL(record) ==
    /\ Show(record, "backend")
    /\ simulation' = Idle
    /\ UNCHANGED <<records, form, url, error, lookupVars, reading, loads, typed>>

(* onSuccess: the form keeps what the user has typed meanwhile. *)
Succeed(record) ==
    /\ Show(record, "backend")
    /\ url' = record.id
    /\ simulation' = Idle
    /\ UNCHANGED <<records, form, error, lookupVars, reading, loads, typed>>

(* Mistake: the record falls back on what the form holds now. *)
FallbackOnForm == Record(simulation.id, form)

(* fallbackRecord: the request as it was sent. *)
FallbackRecord == Record(simulation.id, simulation.request)

RecordFetched ==
    /\ simulation.stage = "fetching"
    /\ Succeed(Record(simulation.id, records[simulation.id]))

RecordFetchFails ==
    /\ simulation.stage = "fetching"
    /\ Succeed(FallbackRecord)

(* The Abort button.  The catch of runRequest takes an abort of the second  *)
(* call for a failure of it, and the run succeeds.                          *)
AbortSimulation ==
    \/ /\ simulation.stage = "running"
       /\ error' = "aborted"
       /\ simulation' = Idle
       /\ UNCHANGED <<records, form, shownVars, url, lookupVars, reading, loads, historyVars>>
    \/ /\ simulation.stage = "fetching"
       /\ Succeed(FallbackRecord)

-----------------------------------------------------------------------------
(* Imports: pasted text is applied at once, a file is read first. *)

ApplySimulationImport(record) ==
    /\ Show(record, "file")
    /\ form' = record.request
    /\ error' = "none"
    /\ UNCHANGED <<records, url, lookupVars, simulation, loads, typed>>

ImportExportEnabled == ~ IsPending /\ ~ isOpeningRequest

PasteSimulationData(record) ==
    /\ ImportExportEnabled
    /\ ApplySimulationImport(record)
    /\ UNCHANGED reading

ChooseImportFile(record) ==
    /\ ImportExportEnabled
    /\ reading = None
    /\ reading' = record
    /\ UNCHANGED <<records, form, shownVars, url, error, lookupVars, simulation, loads,
                   historyVars>>

(* file.text() has resolved: a run or a lookup may have started since. *)
ImportFileRead ==
    /\ reading # None
    /\ reading' = None
    /\ \/ ApplySimulationImport(reading)
       \/ /\ error' = "import failed"
          /\ UNCHANGED <<records, form, shownVars, url, lookupVars, simulation, loads,
                         historyVars>>

-----------------------------------------------------------------------------
(* savePersistedUIState, loadPersistedUIState: the last page saved its form *)
(* and, unless the storage was full, the answer with its record.            *)
RestoreUIState(keeps) ==
    /\ response' = IF keeps THEN response ELSE None
    /\ simulationRecord' = IF keeps THEN simulationRecord ELSE None
    /\ UNCHANGED form

(* The page is loaded again, or by a link with another id: what was in      *)
(* flight is gone, and the id of the address is looked up.                  *)
Load(id, keeps, controller) ==
    /\ loads < MaxLoads
    /\ loads' = loads + 1
    /\ url' = id
    /\ RestoreUIState(keeps)
    /\ error' = "none"
    /\ simulation' = Idle
    /\ reading' = None
    /\ typed' = FALSE
    /\ origin' = IF response' = None THEN "nothing" ELSE IF id # url THEN "earlier" ELSE origin
    /\ IF id = None
       THEN /\ requestLookupId' = response'
            /\ lookups' = {} /\ requestLookupAbortRef' = None /\ isOpeningRequest' = FALSE
       ELSE /\ requestLookupId' = id
            /\ Launch(controller, id, {})
    /\ UNCHANGED records

-----------------------------------------------------------------------------
Network ==
    \/ \E l \in lookups : LookupAnswers(l) \/ LookupFails(l) \/ LookupTimesOut(l)
    \/ \E id \in Runs : RunAnswers(id)
    \/ RunFails \/ RecordFetched \/ RecordFetchFails \/ ImportFileRead

User ==
    \/ \E request \in Requests : Edit(request)
    \/ \E id \in Stored \cup Runs \cup {None} : ChangeRequestLookupId(id)
    \/ \E controller \in Controllers : OpenStoredRequest(controller)
    \/ \E valid \in BOOLEAN : Submit(valid)
    \/ AbortSimulation
    \/ \E record \in [id : Foreign, request : Requests] :
          PasteSimulationData(record) \/ ChooseImportFile(record)
    \/ \E id \in Stored \cup {url}, keeps \in BOOLEAN, controller \in Controllers :
          Load(id, keeps, controller)

Next == User \/ Network

(* The browser fires the timer of a lookup that nothing else has ended;     *)
(* nothing is assumed of the network or of the user.                        *)
Fairness == WF_vars(\E l \in lookups : LookupTimesOut(l))

Spec == Init /\ [][Next]_vars /\ Fairness

-----------------------------------------------------------------------------
(* Every variable has its type. *)
TypeOK ==
    /\ Stored \subseteq DOMAIN records /\ DOMAIN records \subseteq Stored \cup Runs
    /\ \A id \in DOMAIN records : records[id] \in Requests
    /\ form \in Requests
    /\ {requestLookupId, response, url} \subseteq Ids \cup {None}
    /\ simulationRecord \in RecordSet \cup {None}
    /\ error \in {"none", "invalid", "lookup failed", "lookup timed out", "run failed",
                  "aborted", "import failed"}
    /\ isOpeningRequest \in BOOLEAN /\ typed \in BOOLEAN
    /\ requestLookupAbortRef \in Controllers \cup {None}
    /\ lookups \subseteq [controller : Controllers, id : Stored \cup Runs \cup Foreign]
    /\ simulation \in {Idle} \cup [stage : {"running"}, id : {None}, request : Requests]
                            \cup [stage : {"fetching"}, id : DOMAIN records, request : Requests]
    /\ reading \in RecordSet \cup {None}
    /\ loads \in 0 .. MaxLoads
    /\ origin \in {"nothing", "backend", "file", "earlier"}

(* The window says that a request is opening exactly while its lookup is in *)
(* flight: otherwise Open, Import and Export stay disabled, or a second     *)
(* lookup races the first (openStoredRequestById, changeRequestLookupId).   *)
OpeningIffLookup ==
    /\ isOpeningRequest <=> requestLookupAbortRef # None
    /\ isOpeningRequest <=> lookups # {}
    /\ \A l, m \in lookups : l = m /\ l.controller = requestLookupAbortRef

(* What an export writes is the answer shown, with the request that was run *)
(* for it, whatever the user typed while it ran and whether or not its      *)
(* record could be fetched.                                                 *)
RecordIsWhatRan ==
    /\ simulationRecord = None <=> response = None
    /\ simulationRecord # None /\ origin # "file" /\ response \in DOMAIN records =>
         /\ simulationRecord.id = response
         /\ Normalize[simulationRecord.request] = records[response]

(* The address of the page names the answer shown, unless that was read     *)
(* from a file or the page was since opened by a link: a reload or a shared *)
(* link brings it back (syncRequestIdToURL).                                *)
UrlNamesShown == origin = "backend" => url = response

(* Nothing of a lookup, not even its error, reaches the window after the    *)
(* user has edited the id (frontend/tests/request-lookup.spec.ts:62).       *)
EditEndsLookup ==
    [][\A l \in lookups : typed => ~ (LookupAnswers(l) \/ LookupFails(l) \/ LookupTimesOut(l))]_vars

(* A request that is opening does not stay so, though the network may never *)
(* answer: the timer ends it.                                               *)
OpeningEnds == isOpeningRequest ~> ~ isOpeningRequest

(* A run that the user aborts is cancelled: it does not show its answer     *)
(* (frontend/tests/simulation-ui.spec.ts:69, "changes the running action to *)
(* abort and cancels the active request").                                  *)
AbortCancels == [][AbortSimulation => UNCHANGED <<response, simulationRecord, url>>]_vars
=============================================================================
