----------------------------- MODULE SessionSlots -----------------------------
(***************************************************************************)
(* The session mode of the Playwright fetcher, one page per browser:       *)
(* getSlot, putSlot, Close and Fetch of adapters/fetchers/jshttp/jshttp.go *)
(* and the slot with its recovery in session_slot.go.                      *)
(*                                                                         *)
(* A slot owns a browser process, a browser context (the session) and the  *)
(* context's pages; it is created on first use.  acquirePage repairs it in *)
(* steps: a new page, else a new context, else a new browser.  The driver  *)
(* may fail any call; such failures, and crashes, are counted as faults.   *)
(*                                                                         *)
(* Close runs when the engine's workers are through, as in scrapemateapp   *)
(* and the examples, where it is deferred until Start has returned.        *)
(***************************************************************************)
EXTENDS Naturals, FiniteSets

CONSTANTS
    Slot,       \* PoolSize slots
    Worker,     \* goroutines that call Fetch
    NoSlot,     \* "no slot held"
    MaxPages,   \* bound on the pages of a context
    MaxFaults   \* bound on the faults of a slot

ASSUME SlotAssumption == NoSlot \notin Slot
ASSUME BoundAssumption == MaxPages \in Nat \ {0} /\ MaxFaults \in Nat

VARIABLES
    phase,      \* of the fetcher: open, closing (the channel is closed), closed
    pool,       \* slots in the channel
    browser,    \* browser process of the slot's runtime, "none" without one
    context,    \* its browser context: none, open or closed
    options,    \* the context has the proxy, user agent and viewport
    pages,      \* number of open pages of the context
    pc,         \* where each worker is in Fetch
    held,       \* its slot
    page,       \* the page acquirePage has found: none, open or closed
    cancelled,  \* the scraper's context is done
    dropped,    \* slots that were closed for good (history)
    faults,     \* failures of the slot's browser or driver (history)
    noPage,     \* fetches of the slot that got no page (history)
    contexts    \* contexts that the slot has had (history)

slotVars    == <<browser, context, options, pages>>
workerVars  == <<pc, held, page>>
historyVars == <<faults, noPage, contexts>>
vars == <<phase, pool, slotVars, workerVars, cancelled, dropped, historyVars>>

PC == {"idle", "get", "ready", "first", "check", "recreatePage",
       "recreateContext", "recreateBrowser", "second", "action", "release", "put"}

TypeOK ==
    /\ phase \in {"open", "closing", "closed"}
    /\ pool \subseteq Slot
    /\ browser \in [Slot -> {"none", "up", "dead", "closed"}]
    /\ context \in [Slot -> {"none", "open", "closed"}]
    /\ options \in [Slot -> BOOLEAN]
    /\ pages \in [Slot -> 0..MaxPages]
    /\ pc \in [Worker -> PC]
    /\ held \in [Worker -> Slot \cup {NoSlot}]
    /\ page \in [Worker -> {"none", "open", "closed"}]
    /\ cancelled \in BOOLEAN
    /\ dropped \subseteq Slot
    /\ faults \in [Slot -> 0..MaxFaults]
    /\ noPage \in [Slot -> Nat]
    /\ contexts \in [Slot -> Nat]

\* New fills the channel with slots that have no runtime yet.
Init ==
    /\ phase = "open"
    /\ pool = Slot
    /\ browser = [s \in Slot |-> "none"]
    /\ context = [s \in Slot |-> "none"]
    /\ options = [s \in Slot |-> FALSE]
    /\ pages = [s \in Slot |-> 0]
    /\ pc = [w \in Worker |-> "idle"]
    /\ held = [w \in Worker |-> NoSlot]
    /\ page = [w \in Worker |-> "none"]
    /\ cancelled = FALSE
    /\ dropped = {}
    /\ faults = [s \in Slot |-> 0]
    /\ noPage = [s \in Slot |-> 0]
    /\ contexts = [s \in Slot |-> 0]

Goto(w, l) == pc' = [pc EXCEPT ![w] = l]

Fault(s) ==
    /\ faults[s] < MaxFaults
    /\ faults' = [faults EXCEPT ![s] = @ + 1]

\* The slot's context can open a page.
Usable(s) == browser[s] = "up" /\ context[s] = "open"

\* A call to the driver fails: of itself, which is a fault, or because what it
\* needs is gone.
DriverFails(s, alive) ==
    \/ alive /\ Fault(s)
    \/ ~alive /\ UNCHANGED faults

(***************************************************************************)
(* getSlot.                                                                *)
(***************************************************************************)
FetchCall(w) ==
    /\ phase = "open"
    /\ pc[w] = "idle"
    /\ Goto(w, "get")
    /\ UNCHANGED <<phase, pool, slotVars, held, page, cancelled, dropped, historyVars>>

\* Mutant of GetSlot: the slot is not taken out of the pool.
GetSlot_Stays(w, s) ==
    /\ pc[w] = "get"
    /\ s \in pool
    /\ held' = [held EXCEPT ![w] = s]
    /\ Goto(w, "ready")
    /\ UNCHANGED <<phase, pool, slotVars, page, cancelled, dropped, historyVars>>

GetSlot(w, s) ==
    /\ pc[w] = "get"
    /\ s \in pool
    /\ pool' = pool \ {s}
    /\ held' = [held EXCEPT ![w] = s]
    /\ Goto(w, "ready")
    /\ UNCHANGED <<phase, slotVars, page, cancelled, dropped, historyVars>>

GetSlotDone(w) ==
    /\ pc[w] = "get"
    /\ cancelled
    /\ Goto(w, "idle")
    /\ UNCHANGED <<phase, pool, slotVars, held, page, cancelled, dropped, historyVars>>

(***************************************************************************)
(* acquirePage.  A fetch without a page returns an error and goes straight *)
(* to the deferred putSlot.                                                *)
(***************************************************************************)
WithoutPage(w, s) ==
    /\ noPage' = [noPage EXCEPT ![s] = @ + 1]
    /\ page' = [page EXCEPT ![w] = "none"]
    /\ Goto(w, "put")

\* newBrowser: a process and a context with all options, and no page yet.  When
\* NewContext fails the process stays behind, but not in the slot.
NewBrowser(s) ==
    /\ browser' = [browser EXCEPT ![s] = "up"]
    /\ context' = [context EXCEPT ![s] = "open"]
    /\ options' = [options EXCEPT ![s] = TRUE]
    /\ pages' = [pages EXCEPT ![s] = 0]
    /\ contexts' = [contexts EXCEPT ![s] = @ + 1]

EnsureReady(w) ==
    LET s == held[w] IN
    /\ pc[w] = "ready"
    /\ \/ /\ browser[s] # "none"
          /\ Goto(w, "first")
          /\ UNCHANGED <<slotVars, page, historyVars>>
       \/ /\ browser[s] = "none"
          /\ NewBrowser(s)
          /\ Goto(w, "first")
          /\ UNCHANGED <<page, faults, noPage>>
       \/ /\ browser[s] = "none"
          /\ Fault(s)
          /\ WithoutPage(w, s)
          /\ UNCHANGED <<slotVars, contexts>>
    /\ UNCHANGED <<phase, pool, held, cancelled, dropped>>

\* primaryPage: the first page of the context, or a new one.
PrimaryPage(w, s, next) ==
    /\ IF pages[s] > 0 THEN UNCHANGED pages
       ELSE Usable(s) /\ pages' = [pages EXCEPT ![s] = 1]
    /\ page' = [page EXCEPT ![w] = "open"]
    /\ Goto(w, next)
    /\ UNCHANGED historyVars

FirstPage(w) ==
    LET s == held[w] IN
    /\ pc[w] = "first"
    /\ \/ PrimaryPage(w, s, "check")
       \/ /\ pages[s] = 0
          /\ DriverFails(s, Usable(s))
          /\ Goto(w, "recreatePage")
          /\ UNCHANGED <<pages, page, noPage, contexts>>
    /\ UNCHANGED <<phase, pool, browser, context, options, held, cancelled, dropped>>

\* playwrightPage.isClosed negates IsClosed: the open page is taken for closed.
IsClosed(w) == page[w] # "closed"

\* Mutant of CheckPage: recovery starts with the context.
CheckPage_SkipsPage(w) ==
    /\ pc[w] = "check"
    /\ Goto(w, IF IsClosed(w) THEN "recreateContext" ELSE "action")
    /\ UNCHANGED <<phase, pool, slotVars, held, page, cancelled, dropped, historyVars>>

CheckPage(w) ==
    /\ pc[w] = "check"
    /\ Goto(w, IF IsClosed(w) THEN "recreatePage" ELSE "action")
    /\ UNCHANGED <<phase, pool, slotVars, held, page, cancelled, dropped, historyVars>>

\* All pages are closed before a new one is made.  Errors of page.Close are
\* ignored: some of the old pages may stay.
RecreatePage(w) ==
    LET s == held[w] IN
    /\ pc[w] = "recreatePage"
    /\ \/ /\ Usable(s)
          /\ \E left \in 0..(MaxPages - 1) :
               /\ left <= pages[s]
               /\ pages' = [pages EXCEPT ![s] = left + 1]
          /\ Goto(w, "second")
          /\ UNCHANGED faults
       \/ /\ \E left \in 0..pages[s] : pages' = [pages EXCEPT ![s] = left]
          /\ DriverFails(s, Usable(s))
          /\ Goto(w, "recreateContext")
    /\ page' = [page EXCEPT ![w] = "none"]
    /\ UNCHANGED <<phase, pool, browser, context, options, held, cancelled,
                   dropped, noPage, contexts>>

\* The new context is made without any options.
RecreateContext(w) ==
    LET s == held[w] IN
    /\ pc[w] = "recreateContext"
    /\ \/ /\ browser[s] = "up"
          /\ context' = [context EXCEPT ![s] = "open"]
          /\ options' = [options EXCEPT ![s] = FALSE]
          /\ contexts' = [contexts EXCEPT ![s] = @ + 1]
          /\ Goto(w, "second")
          /\ UNCHANGED faults
       \/ /\ context' = [context EXCEPT ![s] = "closed"]
          /\ DriverFails(s, browser[s] = "up")
          /\ Goto(w, "recreateBrowser")
          /\ UNCHANGED <<options, contexts>>
    /\ pages' = [pages EXCEPT ![s] = 0]
    /\ UNCHANGED <<phase, pool, browser, held, page, cancelled, dropped, noPage>>

\* Mutant of RecreateBrowser: the slot keeps the browser that was closed.
RecreateBrowser_KeepsOld(w) ==
    LET s == held[w] IN
    /\ pc[w] = "recreateBrowser"
    /\ browser' = [browser EXCEPT ![s] = "closed"]
    /\ context' = [context EXCEPT ![s] = "closed"]
    /\ pages' = [pages EXCEPT ![s] = 0]
    /\ WithoutPage(w, s)
    /\ UNCHANGED <<phase, pool, options, held, cancelled, dropped, faults, contexts>>

\* Also a browser that was recreated gives the caller no page this time: the
\* page is nil, and so is the error.
RecreateBrowser(w) ==
    LET s == held[w] IN
    /\ pc[w] = "recreateBrowser"
    /\ \/ NewBrowser(s) /\ UNCHANGED faults
       \/ /\ browser' = [browser EXCEPT ![s] = "closed"]
          /\ context' = [context EXCEPT ![s] = "closed"]
          /\ pages' = [pages EXCEPT ![s] = 0]
          /\ Fault(s)
          /\ UNCHANGED <<options, contexts>>
    /\ WithoutPage(w, s)
    /\ UNCHANGED <<phase, pool, held, cancelled, dropped>>

SecondPage(w) ==
    LET s == held[w] IN
    /\ pc[w] = "second"
    /\ \/ PrimaryPage(w, s, "action")
       \/ /\ pages[s] = 0
          /\ DriverFails(s, Usable(s))
          /\ WithoutPage(w, s)
          /\ UNCHANGED <<pages, contexts>>
    /\ UNCHANGED <<phase, pool, browser, context, options, held, cancelled, dropped>>

(***************************************************************************)
(* The job, the cleanup and putSlot.                                       *)
(***************************************************************************)
OpenExtraPage(w) ==
    LET s == held[w] IN
    /\ pc[w] = "action"
    /\ Usable(s) /\ pages[s] < MaxPages
    /\ pages' = [pages EXCEPT ![s] = @ + 1]
    /\ UNCHANGED <<phase, pool, browser, context, options, workerVars, cancelled,
                   dropped, historyVars>>

\* Mutant of BrowserActions: putSlot is not deferred, so a panic skips it.
BrowserActions_NotDeferred(w) ==
    /\ pc[w] = "action"
    /\ \/ Goto(w, "release") /\ UNCHANGED held
       \/ Goto(w, "idle") /\ held' = [held EXCEPT ![w] = NoSlot]
    /\ page' = [page EXCEPT ![w] = "none"]
    /\ UNCHANGED <<phase, pool, slotVars, cancelled, dropped, historyVars>>

\* runBrowserActions returns, or panics past the cleanup.
BrowserActions(w) ==
    /\ pc[w] = "action"
    /\ \E next \in {"release", "put"} : Goto(w, next)
    /\ page' = [page EXCEPT ![w] = "none"]
    /\ UNCHANGED <<phase, pool, slotVars, held, cancelled, dropped, historyVars>>

\* slot.release closes the extra pages; errors of page.Close are ignored.
Release(w) ==
    LET s == held[w] IN
    /\ pc[w] = "release"
    /\ \E n \in 0..MaxPages :
         /\ n <= pages[s] /\ (pages[s] > 0 => n > 0)
         /\ pages' = [pages EXCEPT ![s] = n]
    /\ Goto(w, "put")
    /\ UNCHANGED <<phase, pool, browser, context, options, held, page, cancelled,
                   dropped, historyVars>>

Return(w) ==
    /\ Goto(w, "idle")
    /\ held' = [held EXCEPT ![w] = NoSlot]

PutBack(w) ==
    /\ pc[w] = "put"
    /\ pool' = pool \cup {held[w]}
    /\ Return(w)
    /\ UNCHANGED <<phase, slotVars, page, cancelled, dropped, historyVars>>

\* sessionSlot.close: without a runtime there is nothing to close.
CloseBrowser(s) ==
    /\ browser' = [browser EXCEPT ![s] = IF @ = "none" THEN @ ELSE "closed"]
    /\ context' = [context EXCEPT ![s] = IF @ = "none" THEN @ ELSE "closed"]
    /\ pages' = [pages EXCEPT ![s] = 0]
    /\ dropped' = dropped \cup {s}
    /\ UNCHANGED options

\* Mutant of PutClose: the slot is dropped with its browser running.
PutClose_Dropped(w) ==
    /\ pc[w] = "put"
    /\ cancelled
    /\ dropped' = dropped \cup {held[w]}
    /\ Return(w)
    /\ UNCHANGED <<phase, pool, slotVars, page, cancelled, historyVars>>

\* The select of putSlot picks the done context.
PutClose(w) ==
    /\ pc[w] = "put"
    /\ cancelled
    /\ CloseBrowser(held[w])
    /\ Return(w)
    /\ UNCHANGED <<phase, pool, page, cancelled, historyVars>>

(***************************************************************************)
(* jsFetch.Close: the channel is closed and drained.                       *)
(***************************************************************************)
Close ==
    /\ phase = "open"
    /\ \A w \in Worker : pc[w] = "idle"
    /\ phase' = "closing"
    /\ UNCHANGED <<pool, slotVars, workerVars, cancelled, dropped, historyVars>>

DrainSlot(s) ==
    /\ phase = "closing"
    /\ s \in pool
    /\ pool' = pool \ {s}
    /\ CloseBrowser(s)
    /\ UNCHANGED <<phase, workerVars, cancelled, historyVars>>

Closed ==
    /\ phase = "closing"
    /\ pool = {}
    /\ phase' = "closed"
    /\ UNCHANGED <<pool, slotVars, workerVars, cancelled, dropped, historyVars>>

(***************************************************************************)
(* The environment: the browser dies with all it contains, a page closes   *)
(* itself, the scraper is cancelled.                                       *)
(***************************************************************************)
LosesPage(s) ==
    page' = [w \in Worker |-> IF held[w] = s /\ page[w] = "open" THEN "closed"
                              ELSE page[w]]

BrowserCrash(s) ==
    /\ browser[s] = "up"
    /\ browser' = [browser EXCEPT ![s] = "dead"]
    /\ context' = [context EXCEPT ![s] = "closed"]
    /\ pages' = [pages EXCEPT ![s] = 0]
    /\ LosesPage(s)
    /\ Fault(s)
    /\ UNCHANGED <<phase, pool, options, pc, held, cancelled, dropped, noPage, contexts>>

\* The page that closes is the worker's, or another one of the context.
PageCloses(s) ==
    /\ pages[s] > 0
    /\ pages' = [pages EXCEPT ![s] = @ - 1]
    /\ \/ LosesPage(s)
       \/ pages[s] > 1 /\ UNCHANGED page
    /\ UNCHANGED <<phase, pool, browser, context, options, pc, held, cancelled,
                   dropped, historyVars>>

Cancel ==
    /\ ~cancelled
    /\ cancelled' = TRUE
    /\ UNCHANGED <<phase, pool, slotVars, workerVars, dropped, historyVars>>

AcquirePage(w) ==
    \/ EnsureReady(w) \/ FirstPage(w) \/ CheckPage(w)
    \/ RecreatePage(w) \/ RecreateContext(w) \/ RecreateBrowser(w)
    \/ SecondPage(w)

Next ==
    \/ \E w \in Worker :
         \/ FetchCall(w) \/ GetSlotDone(w) \/ (\E s \in Slot : GetSlot(w, s))
         \/ AcquirePage(w)
         \/ OpenExtraPage(w) \/ BrowserActions(w) \/ Release(w)
         \/ PutBack(w) \/ PutClose(w)
    \/ Close \/ Closed \/ Cancel
    \/ \E s \in Slot : DrainSlot(s) \/ BrowserCrash(s) \/ PageCloses(s)

Spec == Init /\ [][Next]_vars

-----------------------------------------------------------------------------
(***************************************************************************)
(* Properties.                                                             *)
(***************************************************************************)

\* No slot is shared or forgotten: each is in the channel, with one worker, or
\* closed for good.
SlotsConserved ==
    /\ \A w \in Worker : held[w] # NoSlot => held[w] \notin pool \cup dropped
    /\ \A v, w \in Worker : held[v] = held[w] /\ held[w] # NoSlot => v = w
    /\ pool \cap dropped = {}
    /\ \A s \in Slot \ (pool \cup dropped) : \E w \in Worker : held[w] = s

\* "No slot is shared across concurrent jobs": session mode is a lease pool of
\* capacity one.
Lease == INSTANCE LeasePool WITH lease <- held, Capacity <- 1
LeasesSlotsToOne == Lease!Spec

\* When Close has returned, no slot's browser runs, whichever way putSlot's
\* select went for the last fetches.
NothingLeftRunning ==
    phase = "closed" => \A s \in Slot : browser[s] \in {"none", "closed"}

\* The recovery ladder ends: a fault costs a slot at most two fetches, the one
\* it strikes and the one that recreates the browser.
RecoveryCostBounded == \A s \in Slot : noPage[s] <= 2 * faults[s]

\* "Preserve session state by default": a slot gets a new context only when a
\* fault has taken the old one.
SessionPreserved == \A s \in Slot : contexts[s] <= 1 + faults[s]

\* A slot keeps the proxy, user agent and viewport it was given until its browser
\* or driver first fails, whatever pages its jobs open, close and lose.
OptionsUntilFault ==
    \A w \in Worker :
        pc[w] = "action" /\ faults[held[w]] = 0 => options[held[w]]

\* Documentation of proxies: "each request will be fetched via the proxy".  The
\* context that a job runs in was made with the options of newBrowser.
JobsRunWithOptions ==
    \A w \in Worker :
        pc[w] = "action" /\ page[w] = "open" => options[held[w]]
=============================================================================
