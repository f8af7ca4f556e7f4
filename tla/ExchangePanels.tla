--------------------------- MODULE ExchangePanels ---------------------------
(***************************************************************************)
(* The panels through which a record is exported and imported              *)
(* (RequestForm.tsx): under the field of the request id there is one for   *)
(* each, and the one for imports holds a third, for a text that is pasted. *)
(* What an import does to the page is in module RequestWindow.             *)
(***************************************************************************)
EXTENDS Naturals

VARIABLES
    busy,         \* a run is going on (isRunning), a request is opening (isOpeningRequest)
    canExport,    \* there is a record to export
    panels,       \* of the import, export and paste panels those open
    reading       \* a file chosen for import is being read

panelVars == <<busy, canExport, panels, reading>>

PanelInit == busy = {} /\ canExport = FALSE /\ panels = {} /\ reading = FALSE

SetPanels(new) == panels' = new /\ UNCHANGED <<busy, canExport, reading>>

Flip(panel) == IF panel \in panels THEN panels \ {panel} ELSE panels \cup {panel}

(* Closing the import panel leaves the paste panel in it as it is. *)
ToggleImport == busy = {} /\ SetPanels(Flip("import") \ {"export"})

(* Mistake: the export panel opens over the import panel. *)
ToggleExportOver == busy = {} /\ canExport /\ SetPanels(Flip("export"))

ToggleExport == busy = {} /\ canExport /\ SetPanels(Flip("export") \ {"import", "paste"})

TogglePaste == busy = {} /\ "import" \in panels /\ SetPanels(Flip("paste"))

(* Cancel is the one button that a run or a lookup does not disable. *)
CancelPaste == {"import", "paste"} \subseteq panels /\ SetPanels(panels \ {"paste"})

(* Copy and File of the export panel. *)
Export == busy = {} /\ canExport /\ "export" \in panels /\ SetPanels(panels \ {"export"})

(* A text is pasted: the panels close whether it is a record or not. *)
PasteImport(valid) ==
    /\ busy = {} /\ {"import", "paste"} \subseteq panels
    /\ panels' = panels \ {"import", "paste"}
    /\ canExport' = (canExport \/ valid)
    /\ UNCHANGED <<busy, reading>>

(* A file is chosen: the panels close, and it is read. *)
ImportFile ==
    /\ busy = {} /\ "import" \in panels
    /\ panels' = panels \ {"import", "paste"}
    /\ reading' = TRUE
    /\ UNCHANGED <<busy, canExport>>

FileRead(valid) ==
    /\ reading
    /\ reading' = FALSE
    /\ canExport' = (canExport \/ valid)
    /\ UNCHANGED <<busy, panels>>

(* A run or a lookup begins: the panels that are open stay, their buttons    *)
(* disabled; and it ends, with a record to show or not.                      *)
Begin(what) ==
    /\ what \notin busy
    /\ busy' = busy \cup {what}
    /\ UNCHANGED <<canExport, panels, reading>>

End(what, valid) ==
    /\ what \in busy
    /\ busy' = busy \ {what}
    /\ canExport' = (canExport \/ valid)
    /\ UNCHANGED <<panels, reading>>

PanelNext ==
    \/ ToggleImport \/ ToggleExport \/ TogglePaste \/ CancelPaste \/ Export \/ ImportFile
    \/ \E valid \in BOOLEAN : PasteImport(valid) \/ FileRead(valid)
    \/ \E what \in {"run", "lookup"} : Begin(what) \/ \E valid \in BOOLEAN : End(what, valid)

PanelSpec == PanelInit /\ [][PanelNext]_panelVars

-----------------------------------------------------------------------------
(* Types; besides, the import and the export panel are never both open, and  *)
(* the export panel is open only with a record to export.                    *)
PanelTypeOK ==
    /\ busy \subseteq {"run", "lookup"}
    /\ canExport \in BOOLEAN /\ reading \in BOOLEAN
    /\ panels \subseteq {"import", "export", "paste"}
    /\ ~ {"import", "export"} \subseteq panels
    /\ "export" \in panels => canExport
=============================================================================
