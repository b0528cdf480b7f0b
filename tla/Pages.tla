------------------------------- MODULE Pages -------------------------------
(***************************************************************************)
(* One tab of the browser on one page: a list or a form of the back office *)
(* or of the website, each over its own module.  A page is on screen alone *)
(* (its neighbours are unmounted), so the pages share names and no state:  *)
(* a variable the page on screen does not have is None.  The parameters of *)
(* a page's module are parameters here, each page with bounds of its own.  *)
(***************************************************************************)
EXTENDS Naturals

None == 0

CONSTANTS
    \* The incident list.
    Incidents, Origin, FilterValues, MaxChanges,
    \* The incident form.
    Fields,
    \* The supplier screens.
    Ids, Initial, Country, Countries, Rates,
    \* The order form and the two inventory lists.
    Products, MaxQuantity, MaxStock, MaxOrders,
    \* The weekly dashboard.
    Weeks, Calculated,
    \* The candidate list, and a candidate's page.
    Candidates, Known, Status, Values, Notes, Written,
    \* Bounds, each of every page that has it: requests the page sends, forms it submits,
    \* changes others make.
    Requests, Submits, OthersChange

\* None stands for no week, and the weeks published first are weeks that can be asked for.
ASSUME WeeksAreNumbered == None \notin Weeks /\ Calculated \subseteq Weeks

VARIABLES screen,
    sent, stored, changes, filters, rows, listStatus, listReads, moves, problem, summary,
    summaryStatus, summaryReads, shownFor, had, confirmed, mounted, filled, fieldErrors,
    formError, confirmation, isSubmitting, post, flow, submits, elsewhere, page, filter, reads,
    patches, createOpen, filledIn, posts, current, outbound, initialProduct, products,
    listError, selectionTouched, productId, quantity, stockAttempt, stock, stockReads, doubted,
    known, items, error, published, requestedWeek, report, latestWeek, loading, run, form, link,
    valid, errors, success, isSent, rejected, leaving, settled, candidates, loads, refreshes,
    modalOpen, isCreating, message, storedNotes, candidate, recordStatus, recordReads,
    pipeline, saves, notes, notesStatus, notesReads, draft, deletes, deletingNoteId, edited

IncidentList == INSTANCE IncidentScreens WITH MaxRequests <- Requests["incidents"]
ReportForm == INSTANCE IncidentReport WITH MaxSubmits <- Submits["report"]
SupplierList == INSTANCE SupplierScreens WITH
    MaxRequests <- Requests["suppliers"], MaxElsewhere <- OthersChange["suppliers"]
OrderForm == INSTANCE InventoryOrderForm WITH
    MaxRequests <- Requests["order"], MaxElsewhere <- OthersChange["order"]
InventoryList == INSTANCE InventoryLists WITH MaxRequests <- Requests["inventory"]
Dashboard == INSTANCE WeeklyDashboard WITH MaxRequests <- Requests["dashboard"]
AccountForm == INSTANCE AccountForms WITH MaxSubmits <- Submits["account"]
CandidateList == INSTANCE CandidatesList WITH MaxRequests <- Requests["candidates"]
CandidatePage == INSTANCE CandidateDetail WITH MaxRequests <- Requests["candidate"]

-----------------------------------------------------------------------------
\* The variables of one page alone; a page that is not on screen has none of them.
incidentListOnly == <<changes, filters, moves, problem, summary, summaryStatus, summaryReads,
                      shownFor, had, confirmed>>
reportFormOnly == <<mounted>>
supplierListOnly == <<patches, createOpen, filledIn>>
orderFormOnly == <<current, outbound, initialProduct, products, listError, selectionTouched,
                   productId, quantity, stockAttempt, stock, stockReads, doubted>>
inventoryListOnly == <<known, items>>
dashboardOnly == <<published, requestedWeek, report, latestWeek, loading, run>>
accountFormOnly == <<link, valid, errors, success, isSent, rejected, leaving, settled>>
candidateListOnly == <<candidates, loads, refreshes, modalOpen, isCreating, message>>
candidatePageOnly == <<storedNotes, candidate, recordStatus, recordReads, pipeline, saves,
                       notes, notesStatus, notesReads, draft, deletes, deletingNoteId, edited>>

NoIncidentList ==
    /\ changes = None /\ filters = None /\ moves = None /\ problem = None /\ summary = None
    /\ summaryStatus = None /\ summaryReads = None /\ shownFor = None /\ had = None
    /\ confirmed = None
NoReportForm ==
    /\ mounted = None
NoSupplierList ==
    /\ patches = None /\ createOpen = None /\ filledIn = None
NoOrderForm ==
    /\ current = None /\ outbound = None /\ initialProduct = None /\ products = None
    /\ listError = None /\ selectionTouched = None /\ productId = None /\ quantity = None
    /\ stockAttempt = None /\ stock = None /\ stockReads = None /\ doubted = None
NoInventoryList ==
    /\ known = None /\ items = None
NoDashboard ==
    /\ published = None /\ requestedWeek = None /\ report = None /\ latestWeek = None
    /\ loading = None /\ run = None
NoAccountForm ==
    /\ link = None /\ valid = None /\ errors = None /\ success = None /\ isSent = None
    /\ rejected = None /\ leaving = None /\ settled = None
NoCandidateList ==
    /\ candidates = None /\ loads = None /\ refreshes = None /\ modalOpen = None
    /\ isCreating = None /\ message = None
NoCandidatePage ==
    /\ storedNotes = None /\ candidate = None /\ recordStatus = None /\ recordReads = None
    /\ pipeline = None /\ saves = None /\ notes = None /\ notesStatus = None
    /\ notesReads = None /\ draft = None /\ deletes = None /\ deletingNoteId = None
    /\ edited = None

vars == <<screen, incidentListOnly, reportFormOnly, supplierListOnly, orderFormOnly, inventoryListOnly,
          dashboardOnly, accountFormOnly, candidateListOnly, candidatePageOnly, sent, stored,
          rows, listStatus, listReads, filled, fieldErrors, formError, confirmation,
          isSubmitting, post, flow, submits, elsewhere, page, filter, reads, posts, error, form>>

OnIncidentList ==
    /\ screen = "incidents" /\ IncidentList!Init
    /\ NoReportForm /\ NoSupplierList /\ NoOrderForm /\ NoInventoryList /\ NoDashboard
    /\ NoAccountForm /\ NoCandidateList /\ NoCandidatePage /\ filled = None
    /\ fieldErrors = None /\ formError = None /\ confirmation = None /\ isSubmitting = None
    /\ post = None /\ flow = None /\ submits = None /\ elsewhere = None /\ page = None
    /\ filter = None /\ reads = None /\ posts = None /\ error = None /\ form = None
OnReportForm ==
    /\ screen = "report" /\ ReportForm!Init
    /\ NoIncidentList /\ NoSupplierList /\ NoOrderForm /\ NoInventoryList /\ NoDashboard
    /\ NoAccountForm /\ NoCandidateList /\ NoCandidatePage /\ sent = None /\ stored = None
    /\ rows = None /\ listStatus = None /\ listReads = None /\ elsewhere = None /\ page = None
    /\ filter = None /\ reads = None /\ posts = None /\ error = None /\ form = None
OnSupplierList ==
    /\ screen = "suppliers" /\ SupplierList!Init
    /\ NoIncidentList /\ NoReportForm /\ NoOrderForm /\ NoInventoryList /\ NoDashboard
    /\ NoAccountForm /\ NoCandidateList /\ NoCandidatePage /\ listReads = None /\ filled = None
    /\ fieldErrors = None /\ formError = None /\ confirmation = None /\ post = None
    /\ submits = None /\ error = None /\ form = None
OnOrderForm ==
    /\ screen = "order" /\ OrderForm!Init
    /\ NoIncidentList /\ NoReportForm /\ NoSupplierList /\ NoInventoryList /\ NoDashboard
    /\ NoAccountForm /\ NoCandidateList /\ NoCandidatePage /\ stored = None /\ rows = None
    /\ listStatus = None /\ filled = None /\ isSubmitting = None /\ submits = None
    /\ page = None /\ filter = None /\ reads = None /\ posts = None /\ error = None
    /\ form = None
OnInventoryList ==
    /\ screen = "inventory" /\ InventoryList!Init
    /\ NoIncidentList /\ NoReportForm /\ NoSupplierList /\ NoOrderForm /\ NoDashboard
    /\ NoAccountForm /\ NoCandidateList /\ NoCandidatePage /\ rows = None /\ listStatus = None
    /\ listReads = None /\ filled = None /\ fieldErrors = None /\ formError = None
    /\ confirmation = None /\ isSubmitting = None /\ post = None /\ flow = None
    /\ submits = None /\ elsewhere = None /\ filter = None /\ posts = None /\ form = None
OnDashboard ==
    /\ screen = "dashboard" /\ Dashboard!Init
    /\ NoIncidentList /\ NoReportForm /\ NoSupplierList /\ NoOrderForm /\ NoInventoryList
    /\ NoAccountForm /\ NoCandidateList /\ NoCandidatePage /\ stored = None /\ rows = None
    /\ listStatus = None /\ listReads = None /\ filled = None /\ fieldErrors = None
    /\ formError = None /\ confirmation = None /\ isSubmitting = None /\ post = None
    /\ flow = None /\ submits = None /\ elsewhere = None /\ page = None /\ filter = None
    /\ posts = None /\ form = None
OnAccountForm ==
    /\ screen = "account" /\ AccountForm!Init
    /\ NoIncidentList /\ NoReportForm /\ NoSupplierList /\ NoOrderForm /\ NoInventoryList
    /\ NoDashboard /\ NoCandidateList /\ NoCandidatePage /\ sent = None /\ stored = None
    /\ rows = None /\ listStatus = None /\ listReads = None /\ filled = None
    /\ fieldErrors = None /\ formError = None /\ confirmation = None /\ elsewhere = None
    /\ page = None /\ filter = None /\ reads = None /\ posts = None /\ error = None
OnCandidateList ==
    /\ screen = "candidates" /\ CandidateList!Init
    /\ NoIncidentList /\ NoReportForm /\ NoSupplierList /\ NoOrderForm /\ NoInventoryList
    /\ NoDashboard /\ NoAccountForm /\ NoCandidatePage /\ rows = None /\ listReads = None
    /\ fieldErrors = None /\ formError = None /\ confirmation = None /\ isSubmitting = None
    /\ post = None /\ flow = None /\ submits = None /\ elsewhere = None /\ page = None
    /\ reads = None /\ error = None /\ form = None
OnCandidatePage ==
    /\ screen = "candidate" /\ CandidatePage!Init
    /\ NoIncidentList /\ NoReportForm /\ NoSupplierList /\ NoOrderForm /\ NoInventoryList
    /\ NoDashboard /\ NoAccountForm /\ NoCandidateList /\ rows = None /\ listStatus = None
    /\ listReads = None /\ filled = None /\ fieldErrors = None /\ formError = None
    /\ confirmation = None /\ isSubmitting = None /\ post = None /\ flow = None
    /\ submits = None /\ elsewhere = None /\ page = None /\ filter = None /\ reads = None
    /\ error = None

Init ==
    \/ OnIncidentList \/ OnReportForm \/ OnSupplierList \/ OnOrderForm \/ OnInventoryList
    \/ OnDashboard \/ OnAccountForm \/ OnCandidateList \/ OnCandidatePage

OutsideIncidentList == <<screen, reportFormOnly, supplierListOnly, orderFormOnly, inventoryListOnly,
                         dashboardOnly, accountFormOnly, candidateListOnly, candidatePageOnly,
                         filled, fieldErrors, formError, confirmation, isSubmitting, post, flow,
                         submits, elsewhere, page, filter, reads, posts, error, form>>
OutsideReportForm == <<screen, incidentListOnly, supplierListOnly, orderFormOnly, inventoryListOnly,
                       dashboardOnly, accountFormOnly, candidateListOnly, candidatePageOnly,
                       sent, stored, rows, listStatus, listReads, elsewhere, page, filter,
                       reads, posts, error, form>>
OutsideSupplierList == <<screen, incidentListOnly, reportFormOnly, orderFormOnly, inventoryListOnly,
                         dashboardOnly, accountFormOnly, candidateListOnly, candidatePageOnly,
                         listReads, filled, fieldErrors, formError, confirmation, post, submits,
                         error, form>>
OutsideOrderForm == <<screen, incidentListOnly, reportFormOnly, supplierListOnly, inventoryListOnly,
                      dashboardOnly, accountFormOnly, candidateListOnly, candidatePageOnly,
                      stored, rows, listStatus, filled, isSubmitting, submits, page, filter,
                      reads, posts, error, form>>
OutsideInventoryList == <<screen, incidentListOnly, reportFormOnly, supplierListOnly, orderFormOnly,
                          dashboardOnly, accountFormOnly, candidateListOnly, candidatePageOnly,
                          rows, listStatus, listReads, filled, fieldErrors, formError,
                          confirmation, isSubmitting, post, flow, submits, elsewhere, filter,
                          posts, form>>
OutsideDashboard == <<screen, incidentListOnly, reportFormOnly, supplierListOnly, orderFormOnly,
                      inventoryListOnly, accountFormOnly, candidateListOnly, candidatePageOnly,
                      stored, rows, listStatus, listReads, filled, fieldErrors, formError,
                      confirmation, isSubmitting, post, flow, submits, elsewhere, page, filter,
                      posts, form>>
OutsideAccountForm == <<screen, incidentListOnly, reportFormOnly, supplierListOnly, orderFormOnly,
                        inventoryListOnly, dashboardOnly, candidateListOnly, candidatePageOnly,
                        sent, stored, rows, listStatus, listReads, filled, fieldErrors,
                        formError, confirmation, elsewhere, page, filter, reads, posts, error>>
OutsideCandidateList == <<screen, incidentListOnly, reportFormOnly, supplierListOnly, orderFormOnly,
                          inventoryListOnly, dashboardOnly, accountFormOnly, candidatePageOnly,
                          rows, listReads, fieldErrors, formError, confirmation, isSubmitting,
                          post, flow, submits, elsewhere, page, reads, error, form>>
OutsideCandidatePage == <<screen, incidentListOnly, reportFormOnly, supplierListOnly, orderFormOnly,
                          inventoryListOnly, dashboardOnly, accountFormOnly, candidateListOnly,
                          rows, listStatus, listReads, filled, fieldErrors, formError,
                          confirmation, isSubmitting, post, flow, submits, elsewhere, page,
                          filter, reads, error>>

IncidentListSteps == screen = "incidents" /\ IncidentList!Next /\ UNCHANGED OutsideIncidentList
ReportFormSteps == screen = "report" /\ ReportForm!Next /\ UNCHANGED OutsideReportForm
SupplierListSteps == screen = "suppliers" /\ SupplierList!Next /\ UNCHANGED OutsideSupplierList
OrderFormSteps == screen = "order" /\ OrderForm!Next /\ UNCHANGED OutsideOrderForm
InventoryListSteps == screen = "inventory" /\ InventoryList!Next /\ UNCHANGED OutsideInventoryList
DashboardSteps == screen = "dashboard" /\ Dashboard!Next /\ UNCHANGED OutsideDashboard
AccountFormSteps == screen = "account" /\ AccountForm!Next /\ UNCHANGED OutsideAccountForm
CandidateListSteps == screen = "candidates" /\ CandidateList!Next /\ UNCHANGED OutsideCandidateList
CandidatePageSteps == screen = "candidate" /\ CandidatePage!Next /\ UNCHANGED OutsideCandidatePage

Next ==
    \/ IncidentListSteps
    \/ ReportFormSteps
    \/ SupplierListSteps
    \/ OrderFormSteps
    \/ InventoryListSteps
    \/ DashboardSteps
    \/ AccountFormSteps
    \/ CandidateListSteps
    \/ CandidatePageSteps

\* The answers of the page on screen, whichever it is.
Hear ==
    \/ screen = "incidents" /\ IncidentList!Hear /\ UNCHANGED OutsideIncidentList
    \/ screen = "report" /\ ReportForm!Hear /\ UNCHANGED OutsideReportForm
    \/ screen = "suppliers" /\ SupplierList!Hear /\ UNCHANGED OutsideSupplierList
    \/ screen = "order" /\ OrderForm!Hear /\ UNCHANGED OutsideOrderForm
    \/ screen = "inventory" /\ InventoryList!Hear /\ UNCHANGED OutsideInventoryList
    \/ screen = "dashboard" /\ Dashboard!Hear /\ UNCHANGED OutsideDashboard
    \/ screen = "account" /\ AccountForm!Hear /\ UNCHANGED OutsideAccountForm
    \/ screen = "candidates" /\ CandidateList!Hear /\ UNCHANGED OutsideCandidateList
    \/ screen = "candidate" /\ CandidatePage!Hear /\ UNCHANGED OutsideCandidatePage

Spec == Init /\ [][Next]_vars /\ WF_vars(Hear)

-----------------------------------------------------------------------------
\* A settled incident table holds rows that were read under the filters it names, however
\* the answers to earlier filters arrive (IncidentsListPage.tsx:69-108).
ListMatchesFilters == screen = "incidents" => IncidentList!ListMatchesFilters

\* A refused or failed change does not stay on screen: a row no control is saving shows a
\* status the incident really held (IncidentStatusControl.tsx:24-29).
NoPhantomStatus == screen = "incidents" => IncidentList!NoPhantomStatus

\* The incident figures at rest count every change this tab was told had succeeded
\* (IncidentsListPage.tsx:57).
SummaryCoversConfirmed == screen = "incidents" => IncidentList!SummaryCoversConfirmed

\* Every flow_started is followed by exactly one flow_completed or flow_abandoned,
\* whatever order the answer, the timer and `pagehide` come in (useFlowTelemetry.ts:24-28).
FlowsEndOnce == screen = "report" => ReportForm!FlowsEndOnce

\* A supplier's rate is typed over the rate its row shows: another rate that arrives
\* starts the editor again (SupplierRateEditor.tsx:14-17).
DraftOnShownRate == screen = "suppliers" => SupplierList!DraftOnShownRate

\* Once the API has refused an order for lack of stock, the product cannot be ordered again
\* before its stock was read anew (InventoryOrderForm.tsx:33, 137-140).
RefusalReadsStockAgain == screen = "order" => OrderForm!RefusalReadsStockAgain

\* At rest without an error, the dashboard shows the figures of the week it names
\* (WeeklyPerformanceDashboard.tsx:294-296).
FiguresAreOfTheShownWeek == screen = "dashboard" => Dashboard!FiguresAreOfTheShownWeek

\* An account form whose page knows its purpose served, or beyond it, cannot be sent again
\* (RegisterPage.tsx:60-61, ForgotPasswordPage.tsx:63-64, ResetPasswordPage.tsx:87-88).
SettledIsNotSentAgain == screen = "account" => AccountForm!SettledIsNotSentAgain

\* Edits in progress give way, in both forms of a candidate's page, to the record that a
\* save of either came back with, and to nothing else: the record is not loaded again under
\* them, and the notes load, fail and are retried without touching them
\* (CandidateDetailPage.tsx:72-73, 168-174, 208-214).
OnlySavesReplaceEdits == [][screen = "candidate" => CandidatePage!SavesReplaceEdits]_vars

\* Whatever the page on screen waits for, it stops waiting: its reads and its saves end in
\* an answer or in an error it shows.  (The dashboard is left to its own run.)
Waiting ==
    \/ screen = "incidents" /\ (listStatus = "loading" \/ summaryStatus = "loading")
    \/ screen = "incidents" /\ \E i \in Incidents : IncidentList!Saving(i)
    \/ screen = "report" /\ mounted /\ isSubmitting
    \/ screen = "suppliers" /\ (listStatus = "loading" \/ isSubmitting \/ patches # {})
    \/ screen = "order" /\ ((~products /\ ~listError) \/ post # OrderForm!NoPost)
    \/ screen = "order" /\ outbound /\ productId # "" /\ ~OrderForm!Shown
    \/ screen = "inventory" /\ ~known /\ ~error
    \/ screen = "account" /\ isSubmitting /\ leaving = ""
    \/ screen = "candidates" /\ (listStatus \in {"loading", "blank"} \/ isCreating)
    \/ screen = "candidate" /\ (recordStatus = "loading" \/ notesStatus = "loading")
    \/ screen = "candidate" /\ (saves # {} \/ deletingNoteId # "none")
WaitingEnds == Waiting ~> ~Waiting
=============================================================================
