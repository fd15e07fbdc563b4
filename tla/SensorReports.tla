---------------------------- MODULE SensorReports ----------------------------
(***************************************************************************)
(* The values a device reports, from the check against the definitions of  *)
(* its sensors (device_report_service.go, sensor_data.go) to the detail    *)
(* view that shows them with the definitions (device_controller.go,        *)
(* thing_model.go).  Check and view each ask for the list of definitions,  *)
(* which is cached, at a time of their own, while the definitions are      *)
(* changed (module ThingModel).                                            *)
(*                                                                         *)
(* The device stays; what its deletion leaves behind is the subject of     *)
(* DeviceCache.  The two levels of the cache are one copy here, which may  *)
(* be filled late and miss an eviction.  The sensor service is always      *)
(* there (main.go sets it at startup).                                     *)
(***************************************************************************)
EXTENDS Naturals, FiniteSets

CONSTANTS Ids,        \* identifiers of sensors
          Forms,      \* what a definition may say: [name, dataType, values]
          Strings,    \* the strings among the values a sensor may report
          Reports,    \* reports: functions from the names in them to values
          Workers,    \* goroutines serving reports and views, used over and over
          MaxChanges, \* how often a definition is changed (bound)
          MaxFaults,  \* bound on the steps that fail
          NoCopy      \* nothing is cached

Values == {"number", "boolean"} \cup Strings

ASSUME ReportAssumptions ==
    /\ MaxChanges \in Nat /\ MaxFaults \in Nat
    /\ \A points \in Reports : \A n \in DOMAIN points : points[n] \in Values

\* A definition: its identifier, its row, and what it says.
Definitions == [id : Ids, row : Nat, form : Forms]

Steps == {"idle", "list", "fill", "ready"}

VARIABLES
    defs,     \* the rows: the definitions of the device
    nextRow,  \* the id the next row gets
    copy,     \* the cached list, or NoCopy
    evicting, \* changes that are written and not evicted yet
    step,     \* step[w] : where worker w is
    task,     \* task[w] : "report" or "view"
    list,     \* list[w] : the list w has been given; {} if it could not be read
    points,   \* points[w] : the report w checks, or the values it shows
    judged,   \* ghost: judged[w] : the list the values w shows were checked against
    recent,   \* the values cached last, and (ghost) the list they were checked against
    changes,  \* number of changes so far
    faults    \* steps that failed

defVars == <<defs, nextRow, evicting, changes>>
workVars == <<step, task, list, points, judged>>
reportVars == <<defVars, copy, workVars, recent, faults>>

NoValues == [n \in {} |-> "number"]
Nothing == [points |-> NoValues, judged |-> {}]

Fault == faults < MaxFaults /\ faults' = faults + 1

-----------------------------------------------------------------------------
(* The check and the view.                                                 *)

\* ValidateSensorValue: what a data type accepts; an enum without values takes every string.
Accepted(form) ==
    CASE form.dataType \in {"float", "int"} -> {"number"}
      [] form.dataType = "bool"             -> {"boolean"}
      [] form.dataType = "text"             -> Strings
      [] form.dataType = "enum"             -> IF form.values = {} THEN Strings ELSE form.values
      [] OTHER                              -> Values

\* A report may name a sensor by its identifier or by its name.
Named(d, n) == d.id = n \/ d.form.name = n

\* (Mutant of Meant: only the identifier counts.)
MeantById(defList, n) == {d \in defList : d.id = n}

\* byName: of several definitions the last in the list, that is the one created last.
Meant(defList, n) ==
    {d \in defList : Named(d, n) /\ \A e \in defList : Named(e, n) => e.row <= d.row}

\* validateSensorValues: the values that stay.  One that means no definition does, and without
\* definitions all of them.
Valid(defList, values) ==
    [n \in {m \in DOMAIN values : \A d \in Meant(defList, m) : values[m] \in Accepted(d.form)}
        |-> values[n]]

\* AttachLatest: the name whose value is shown with d: its identifier, or else its name.
ShownBy(d, values) ==
    IF d.id \in DOMAIN values THEN {d.id} ELSE {d.form.name} \cap DOMAIN values

-----------------------------------------------------------------------------
ReportInit ==
    /\ defs = {} /\ nextRow = 1 /\ copy = NoCopy /\ evicting = 0
    /\ step = [w \in Workers |-> "idle"] /\ task = [w \in Workers |-> "view"]
    /\ list = [w \in Workers |-> {}]
    /\ points = [w \in Workers |-> NoValues] /\ judged = [w \in Workers |-> {}]
    /\ recent = Nothing
    /\ changes = 0 /\ faults = 0

\* Create, Update and Delete of a definition write one row ...
Change(new) ==
    /\ changes < MaxChanges /\ changes' = changes + 1
    /\ defs' = new /\ evicting' = evicting + 1
    /\ UNCHANGED <<copy, workVars, recent, faults>>

CreateDef(i, form) ==
    /\ \A d \in defs : d.id # i
    /\ Change(defs \cup {[id |-> i, row |-> nextRow, form |-> form]})
    /\ nextRow' = nextRow + 1

UpdateDef(d, form) == Change((defs \ {d}) \cup {[d EXCEPT !.form = form]}) /\ UNCHANGED nextRow

DeleteDef(d) == Change(defs \ {d}) /\ UNCHANGED nextRow

\* ... and evict the list; an error is only logged.
Evict ==
    /\ evicting > 0 /\ evicting' = evicting - 1
    /\ \/ copy' = NoCopy /\ UNCHANGED faults
       \/ Fault /\ UNCHANGED copy
    /\ UNCHANGED <<defs, nextRow, changes, workVars, recent>>

CopyExpires == copy # NoCopy /\ copy' = NoCopy /\ UNCHANGED <<defVars, workVars, recent, faults>>

\* The worker has values to check, or to show, and asks for the list.
Begin(w, kind, values, against) ==
    /\ step[w] = "idle" /\ step' = [step EXCEPT ![w] = "list"]
    /\ task' = [task EXCEPT ![w] = kind]
    /\ points' = [points EXCEPT ![w] = values] /\ judged' = [judged EXCEPT ![w] = against]
    /\ UNCHANGED <<defVars, copy, list, recent, faults>>

Report(w, values) == Begin(w, "report", values, {})

\* GetDeviceStatus reads the values cached last.
View(w) == Begin(w, "view", recent.points, recent.judged)

\* The worker has its list; a report keeps the values that are valid.
Given(w, defList) ==
    /\ step' = [step EXCEPT ![w] = "ready"]
    /\ list' = [list EXCEPT ![w] = defList]
    /\ points' = [points EXCEPT ![w] = IF task[w] = "report" THEN Valid(defList, @) ELSE @]
    /\ UNCHANGED <<defVars, task, judged, recent>>

\* List finds the copy, or reads the rows ...
FindCopy(w) ==
    /\ step[w] = "list" /\ copy # NoCopy
    /\ Given(w, copy)
    /\ UNCHANGED <<copy, faults>>

LoadRows(w) ==
    /\ step[w] = "list" /\ copy = NoCopy
    /\ step' = [step EXCEPT ![w] = "fill"]
    /\ list' = [list EXCEPT ![w] = defs]
    /\ UNCHANGED <<defVars, copy, task, points, judged, recent, faults>>

\* ... and caches what it has read.
Fill(w) ==
    /\ step[w] = "fill"
    /\ copy' = list[w]
    /\ Given(w, list[w])
    /\ UNCHANGED faults

\* List fails: a report is not checked, a view shows nothing.
ListFails(w) ==
    /\ step[w] = "list" /\ Fault
    /\ Given(w, {})
    /\ UNCHANGED copy

End(w) ==
    /\ step' = [step EXCEPT ![w] = "idle"]
    /\ list' = [list EXCEPT ![w] = {}]
    /\ points' = [points EXCEPT ![w] = NoValues] /\ judged' = [judged EXCEPT ![w] = {}]
    /\ UNCHANGED <<defVars, copy, task>>

\* (Mutant of Newest: a report of which nothing is left changes nothing.)
NewestIfAny(w) == IF DOMAIN points[w] = {} THEN recent ELSE [points |-> points[w], judged |-> list[w]]

\* What a report leaves as the latest values: all of what it kept, even if that is nothing.
Newest(w) == [points |-> points[w], judged |-> list[w]]

\* FastReportWrite, or CacheSensorRecent where that fails.
Store(w) ==
    /\ step[w] = "ready" /\ task[w] = "report"
    /\ recent' = Newest(w)
    /\ End(w)
    /\ UNCHANGED faults

\* The device is not found, or neither write succeeds: the report is lost.
ReportFails(w) ==
    /\ step[w] = "ready" /\ task[w] = "report" /\ Fault
    /\ End(w)
    /\ UNCHANGED recent

\* The view has been sent.
Answer(w) ==
    /\ step[w] = "ready" /\ task[w] = "view"
    /\ End(w)
    /\ UNCHANGED <<recent, faults>>

RecentExpires ==
    /\ recent # Nothing /\ recent' = Nothing
    /\ UNCHANGED <<defVars, copy, workVars, faults>>

ReportNext ==
    \/ \E i \in Ids, form \in Forms : CreateDef(i, form)
    \/ \E d \in defs : DeleteDef(d) \/ \E form \in Forms : UpdateDef(d, form)
    \/ Evict \/ CopyExpires \/ RecentExpires
    \/ \E w \in Workers :
          \/ View(w) \/ \E values \in Reports : Report(w, values)
          \/ FindCopy(w) \/ LoadRows(w) \/ Fill(w) \/ ListFails(w)
          \/ Store(w) \/ ReportFails(w) \/ Answer(w)

\* Requests go on, and every copy expires.  A device that keeps reporting keeps its latest values
\* from expiring; then they are replaced.
Fairness ==
    /\ \A w \in Workers : WF_reportVars(FindCopy(w) \/ LoadRows(w) \/ Fill(w) \/ Store(w) \/ Answer(w))
    /\ WF_reportVars(Evict) /\ WF_reportVars(CopyExpires)
    /\ WF_reportVars(RecentExpires \/ \E w \in Workers : Store(w))

ReportSpec == ReportInit /\ [][ReportNext]_reportVars
FairReportSpec == ReportSpec /\ Fairness

-----------------------------------------------------------------------------
(* Properties.                                                             *)

ReportTypeOK ==
    /\ defs \subseteq Definitions /\ nextRow \in Nat /\ evicting \in Nat
    /\ copy = NoCopy \/ copy \subseteq Definitions
    /\ step \in [Workers -> Steps] /\ task \in [Workers -> {"report", "view"}]
    /\ list \in [Workers -> SUBSET Definitions] /\ judged \in [Workers -> SUBSET Definitions]
    /\ DOMAIN points = Workers /\ recent.judged \subseteq Definitions
    /\ \A w \in Workers : \A n \in DOMAIN points[w] : points[w][n] \in Values
    /\ \A n \in DOMAIN recent.points : recent.points[n] \in Values
    /\ changes \in 0 .. MaxChanges /\ faults \in 0 .. MaxFaults

\* The definitions a view shows, and the name whose value it shows with one of them.
Shows(w, d, n) == step[w] = "ready" /\ task[w] = "view" /\ d \in list[w] /\ n \in ShownBy(d, points[w])

Misfit(w, d, n) == Shows(w, d, n) /\ points[w][n] \notin Accepted(d.form)

\* In this list the name means d and nothing else.
Alone(d, n, defList) == \A e \in defList : Named(e, n) => e = d

(* A value that is shown with a definition it does not fit was checked against no list at all,
   or against one in which that definition was not there or said something else, or in which
   another definition had the name or the identifier it was reported under (validateSensorValues,
   AttachLatest, and List, whose copies may be old for either). *)
MisfitIsExplained ==
    \A w \in Workers : \A d \in list[w] : \A n \in ShownBy(d, points[w]) :
        Misfit(w, d, n) => d \notin judged[w] \/ ~Alone(d, n, judged[w])

(* Once definitions stay as they are and nothing fails any more, the views come right for good:
   a value that does not fit the only definition it means disappears, even if all the values of
   the later reports are dropped (FastReportWrite, and the times to live of the list and of the
   latest values). *)
ViewsComeRight ==
    <>[](\A w \in Workers : \A d \in list[w] : \A n \in ShownBy(d, points[w]) :
            Misfit(w, d, n) => ~Alone(d, n, list[w]))

-----------------------------------------------------------------------------
(* What a comment says and the code does not keep.                         *)

\* thing_model.go 38: a report named after a definition's identifier belongs to that definition,
\* whatever the names of the others.  It is checked against the definition created last.
IdentifierDecides ==
    \A w \in Workers : step[w] = "ready" /\ task[w] = "report" =>
        \A d \in list[w] : d.id \in DOMAIN points[w] => points[w][d.id] \in Accepted(d.form)

=============================================================================
