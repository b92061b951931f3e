---------------------------- MODULE PageSlotPool ----------------------------
(***************************************************************************)
(* The page-slot mode of the Playwright fetcher, used when more than one   *)
(* page may be open per browser: adapters/fetchers/jshttp/page_slot_pool.go *)
(* and jsFetch.fetchWithPageSlot with closeWithTimeout in jshttp.go.       *)
(*                                                                         *)
(* The pool is a buffered channel holding MaxPages tokens for each browser *)
(* slot.  A worker that fetches takes a token, opens a page in that        *)
(* browser, runs the job's BrowserActions, closes the page within a time   *)
(* limit and returns the token.  The channel is modelled by the number of  *)
(* tokens of each slot: nothing below depends on the order of the tokens.  *)
(***************************************************************************)
EXTENDS Integers, FiniteSets

CONSTANTS
    Slot,           \* browser slots (poolSize of them)
    Worker,         \* goroutines that call Fetch
    Timed,          \* workers whose job has GetTimeout() > 0
    NoSlot,         \* "no lease held"
    MaxPages,       \* maxPagesPerBrowser
    MaxOrphans,     \* bound on abandoned pages per browser
    CloseWhileBusy  \* may Close run while fetches are in flight?

ASSUME SlotAssumption == IsFiniteSet(Slot) /\ NoSlot \notin Slot
ASSUME WorkerAssumption == IsFiniteSet(Worker) /\ Timed \subseteq Worker
ASSUME BoundAssumption == MaxPages \in Nat \ {0} /\ MaxOrphans \in Nat
ASSUME CloseAssumption == CloseWhileBusy \in BOOLEAN

VARIABLES
    phase,      \* of the pool: being built, ready, construction failed, closed
    browser,    \* state of each slot's browser process
    closed,     \* pageSlot.closed
    active,     \* pageSlot.active
    available,  \* tokens of each slot in pageSlotPool.available
    lost,       \* tokens of each slot that were dropped by release (history)
    orphans,    \* pages whose Close was abandoned and is still pending
    pc,         \* where each worker is inside fetchWithPageSlot
    held,       \* the slot of the worker's lease
    expired,    \* the worker's context.WithTimeout has fired
    cancelled   \* the context of the scraper is done

poolVars   == <<phase, browser, closed>>
tokenVars  == <<active, available, lost>>
workerVars == <<pc, held, expired>>
vars == <<phase, browser, closed, active, available, lost, orphans,
          pc, held, expired, cancelled>>

PC == {"idle", "acquire", "taken", "leased", "page", "closing", "release", "return"}

TypeOK ==
    /\ phase \in {"building", "ready", "failed", "closed"}
    /\ browser \in [Slot -> {"none", "up", "dead", "leaked", "closed"}]
    /\ closed \in [Slot -> BOOLEAN]
    /\ active \in [Slot -> Int]
    /\ available \in [Slot -> Nat]
    /\ lost \in [Slot -> Nat]
    /\ orphans \in [Slot -> 0..MaxOrphans]
    /\ pc \in [Worker -> PC]
    /\ held \in [Worker -> Slot \cup {NoSlot}]
    /\ expired \in [Worker -> BOOLEAN]
    /\ cancelled \in BOOLEAN

Init ==
    /\ phase = "building"
    /\ browser = [s \in Slot |-> "none"]
    /\ closed = [s \in Slot |-> FALSE]
    /\ active = [s \in Slot |-> 0]
    /\ available = [s \in Slot |-> 0]
    /\ lost = [s \in Slot |-> 0]
    /\ orphans = [s \in Slot |-> 0]
    /\ pc = [w \in Worker |-> "idle"]
    /\ held = [w \in Worker |-> NoSlot]
    /\ expired = [w \in Worker |-> FALSE]
    /\ cancelled = FALSE

(***************************************************************************)
(* newPageSlotPool.  Each browser is launched and its tokens are put in    *)
(* the channel.  When a launch fails, the slots made so far are closed and *)
(* the constructor fails; newBrowser may then have left a launched browser *)
(* behind (its NewContext failed), which no slot refers to.                *)
(***************************************************************************)
\* Mutant of NewSlot: one token too many per browser.
NewSlot_ExtraToken(s) ==
    /\ phase = "building"
    /\ browser[s] = "none"
    /\ browser' = [browser EXCEPT ![s] = "up"]
    /\ available' = [available EXCEPT ![s] = MaxPages + 1]
    /\ phase' = IF \A t \in Slot \ {s} : browser[t] # "none"
                THEN "ready" ELSE phase
    /\ UNCHANGED <<closed, active, lost, orphans, workerVars, cancelled>>

NewSlot(s) ==
    /\ phase = "building"
    /\ browser[s] = "none"
    /\ browser' = [browser EXCEPT ![s] = "up"]
    /\ available' = [available EXCEPT ![s] = MaxPages]
    /\ phase' = IF \A t \in Slot \ {s} : browser[t] # "none"
                THEN "ready" ELSE phase
    /\ UNCHANGED <<closed, active, lost, orphans, workerVars, cancelled>>

\* Mutant of NewSlotFails: the constructor forgets pool.close().
NewSlotFails_NoClose(s) ==
    /\ phase = "building"
    /\ browser[s] = "none"
    /\ phase' = "failed"
    /\ UNCHANGED <<browser, closed, tokenVars, orphans, workerVars, cancelled>>

NewSlotFails(s) ==
    /\ phase = "building"
    /\ browser[s] = "none"
    /\ \E left \in {"none", "leaked"} :
         browser' = [t \in Slot |-> IF t = s THEN left
                                    ELSE IF browser[t] = "none" THEN "none"
                                    ELSE "closed"]
    /\ closed' = [t \in Slot |-> browser[t] # "none"]
    /\ phase' = "failed"
    /\ UNCHANGED <<tokenVars, orphans, workerVars, cancelled>>

(***************************************************************************)
(* fetchWithPageSlot.  Done(w) is the state of the context that acquire    *)
(* and release select on: the job's timeout context.                       *)
(***************************************************************************)
Done(w) == cancelled \/ expired[w]

Goto(w, l) == pc' = [pc EXCEPT ![w] = l]

Return(w) ==
    /\ Goto(w, "idle")
    /\ held' = [held EXCEPT ![w] = NoSlot]
    /\ expired' = [expired EXCEPT ![w] = FALSE]

FetchCall(w) ==
    /\ phase \in {"ready", "closed"}
    /\ pc[w] = "idle"
    /\ Goto(w, "acquire")
    /\ UNCHANGED <<poolVars, tokenVars, orphans, held, expired, cancelled>>

AcquireDone(w) ==
    /\ pc[w] = "acquire"
    /\ Done(w)
    /\ Return(w)
    /\ UNCHANGED <<poolVars, tokenVars, orphans, cancelled>>

\* Mutant of Acquire: a lease is handed out without waiting for a token.
Acquire_NoWait(w, s) ==
    /\ pc[w] = "acquire"
    /\ available' = [available EXCEPT ![s] = @ - 1]
    /\ held' = [held EXCEPT ![w] = s]
    /\ Goto(w, "taken")
    /\ UNCHANGED <<poolVars, active, lost, orphans, expired, cancelled>>

\* Nothing tells a token of a closed or dead browser from a good one.
Acquire(w, s) ==
    /\ pc[w] = "acquire"
    /\ available[s] > 0
    /\ available' = [available EXCEPT ![s] = @ - 1]
    /\ held' = [held EXCEPT ![w] = s]
    /\ Goto(w, "taken")
    /\ UNCHANGED <<poolVars, active, lost, orphans, expired, cancelled>>

\* Apart from the receive, under the slot's mutex.
CountActive(w) ==
    /\ pc[w] = "taken"
    /\ active' = [active EXCEPT ![held[w]] = @ + 1]
    /\ Goto(w, "leased")
    /\ UNCHANGED <<poolVars, available, lost, orphans, held, expired, cancelled>>

\* The driver may also never answer: nothing bounds this call.
NewPage(w) ==
    /\ pc[w] = "leased"
    /\ browser[held[w]] = "up"
    /\ Goto(w, "page")
    /\ UNCHANGED <<poolVars, tokenVars, orphans, held, expired, cancelled>>

NewPageFails(w) ==
    /\ pc[w] = "leased"
    /\ Goto(w, "release")
    /\ UNCHANGED <<poolVars, tokenVars, orphans, held, expired, cancelled>>

\* The job's own code, with the page: nothing bounds this call either.
BrowserActions(w) ==
    /\ pc[w] = "page"
    /\ Goto(w, "closing")
    /\ UNCHANGED <<poolVars, tokenVars, orphans, held, expired, cancelled>>

ClosePage(w) ==
    /\ pc[w] = "closing"
    /\ Goto(w, "release")
    /\ UNCHANGED <<poolVars, tokenVars, orphans, held, expired, cancelled>>

\* Mutant of AbandonPage: page.Close is called without the time limit.
AbandonPage_Never(w) == FALSE /\ pc[w] = "closing" /\ UNCHANGED vars

\* closeWithTimeout gives up: the page stays open in the browser while the
\* lease that stands for it is about to be returned.
AbandonPage(w) ==
    /\ pc[w] = "closing"
    /\ orphans' = [orphans EXCEPT ![held[w]] =
                     IF @ < MaxOrphans THEN @ + 1 ELSE @]
    /\ Goto(w, "release")
    /\ UNCHANGED <<poolVars, tokenVars, held, expired, cancelled>>

\* Mutant of ReleaseActive: the early return for a closed slot comes before the
\* decrement.
ReleaseActive_ClosedFirst(w) ==
    LET s == held[w] IN
    /\ pc[w] = "release"
    /\ \/ /\ closed[s]
          /\ lost' = [lost EXCEPT ![s] = @ + 1]
          /\ Return(w)
          /\ UNCHANGED active
       \/ /\ ~closed[s]
          /\ active' = [active EXCEPT ![s] = @ - 1]
          /\ Goto(w, "return")
          /\ UNCHANGED <<lost, held, expired>>
    /\ UNCHANGED <<poolVars, available, orphans, cancelled>>

\* The first half of release, under the slot's mutex: a closed slot's token is
\* not returned.
ReleaseActive(w) ==
    LET s == held[w] IN
    /\ pc[w] = "release"
    /\ active' = [active EXCEPT ![s] = @ - 1]
    /\ \/ /\ closed[s]
          /\ lost' = [lost EXCEPT ![s] = @ + 1]
          /\ Return(w)
       \/ /\ ~closed[s]
          /\ Goto(w, "return")
          /\ UNCHANGED <<lost, held, expired>>
    /\ UNCHANGED <<poolVars, available, orphans, cancelled>>

\* Mutant of ReturnToken: release is not protected by sync.Once and runs again.
ReturnToken_Twice(w) ==
    /\ pc[w] = "return"
    /\ available' = [available EXCEPT ![held[w]] = @ + 1]
    /\ \/ Return(w)
       \/ UNCHANGED workerVars
    /\ UNCHANGED <<poolVars, active, lost, orphans, cancelled>>

ReturnToken(w) ==
    /\ pc[w] = "return"
    /\ available' = [available EXCEPT ![held[w]] = @ + 1]
    /\ Return(w)
    /\ UNCHANGED <<poolVars, active, lost, orphans, cancelled>>

\* Mutant of DropToken: the select of release has a default, and gives the token up
\* although the context is not done.
DropToken_Always(w) ==
    /\ pc[w] = "return"
    /\ lost' = [lost EXCEPT ![held[w]] = @ + 1]
    /\ Return(w)
    /\ UNCHANGED <<poolVars, active, available, orphans, cancelled>>

\* The select of release picks the done context: the token is gone.
DropToken(w) ==
    /\ pc[w] = "return"
    /\ Done(w)
    /\ lost' = [lost EXCEPT ![held[w]] = @ + 1]
    /\ Return(w)
    /\ UNCHANGED <<poolVars, active, available, orphans, cancelled>>

(***************************************************************************)
(* pageSlotPool.close, slot after slot.  scrapemateapp closes the fetcher  *)
(* after the workers have returned; CloseWhileBusy is ScrapeMate.Close     *)
(* called by a user while fetches run.                                     *)
(***************************************************************************)
MayClose == CloseWhileBusy \/ (cancelled /\ \A w \in Worker : pc[w] = "idle")

CloseSlot(s) ==
    /\ phase \in {"ready", "closed"}
    /\ MayClose
    /\ ~closed[s]
    /\ \A t \in Slot : closed[t] => browser[t] = "closed"
    /\ closed' = [closed EXCEPT ![s] = TRUE]
    /\ phase' = "closed"
    /\ UNCHANGED <<browser, tokenVars, orphans, workerVars, cancelled>>

CloseBrowser(s) ==
    /\ phase = "closed"
    /\ closed[s]
    /\ browser[s] # "closed"
    /\ browser' = [browser EXCEPT ![s] = "closed"]
    /\ UNCHANGED <<phase, closed, tokenVars, orphans, workerVars, cancelled>>

(***************************************************************************)
(* The environment: a browser crashes, an abandoned Close completes, the   *)
(* job's timeout fires, the scraper's context is cancelled.                *)
(***************************************************************************)
BrowserCrash(s) ==
    /\ browser[s] = "up"
    /\ browser' = [browser EXCEPT ![s] = "dead"]
    /\ UNCHANGED <<phase, closed, tokenVars, orphans, workerVars, cancelled>>

OrphanClosed(s) ==
    /\ orphans[s] > 0
    /\ orphans' = [orphans EXCEPT ![s] = @ - 1]
    /\ UNCHANGED <<poolVars, tokenVars, workerVars, cancelled>>

Expire(w) ==
    /\ w \in Timed
    /\ pc[w] # "idle"
    /\ ~expired[w]
    /\ expired' = [expired EXCEPT ![w] = TRUE]
    /\ UNCHANGED <<poolVars, tokenVars, orphans, pc, held, cancelled>>

Cancel ==
    /\ ~cancelled
    /\ cancelled' = TRUE
    /\ UNCHANGED <<poolVars, tokenVars, orphans, workerVars>>

FetchStep(w) ==
    \/ AcquireDone(w)
    \/ \E s \in Slot : Acquire(w, s)
    \/ CountActive(w)
    \/ NewPage(w) \/ NewPageFails(w)
    \/ BrowserActions(w)
    \/ ClosePage(w) \/ AbandonPage(w)
    \/ ReleaseActive(w)
    \/ ReturnToken(w) \/ DropToken(w)

Next ==
    \/ \E s \in Slot : NewSlot(s) \/ NewSlotFails(s)
    \/ \E w \in Worker : FetchCall(w) \/ FetchStep(w) \/ Expire(w)
    \/ \E s \in Slot : CloseSlot(s) \/ CloseBrowser(s)
    \/ \E s \in Slot : BrowserCrash(s) \/ OrphanClosed(s)
    \/ Cancel

Spec == Init /\ [][Next]_vars

(***************************************************************************)
(* Fairness: of what this code does by itself, and of its timers.  The     *)
(* browser and the job promise nothing: NewPage, BrowserActions and        *)
(* ClosePage have no fairness, since a wedged driver never answers and     *)
(* none of the three calls has a limit of its own, only the 5 second timer *)
(* of AbandonPage bounds the last.  Acquire is strongly fair: the runtime  *)
(* queues blocked receivers of a channel first in, first out.              *)
(***************************************************************************)
Fairness ==
    \A w \in Worker :
        /\ SF_vars(\E s \in Slot : Acquire(w, s))
        /\ WF_vars(AcquireDone(w))
        /\ WF_vars(CountActive(w))
        /\ WF_vars(AbandonPage(w))
        /\ WF_vars(ReleaseActive(w))
        /\ WF_vars(ReturnToken(w) \/ DropToken(w))
        /\ WF_vars(Expire(w))

FairSpec == Spec /\ Fairness

-----------------------------------------------------------------------------
(***************************************************************************)
(* Properties.                                                             *)
(***************************************************************************)
Holding == {"taken", "leased", "page", "closing", "release", "return"}
Leasing == {"leased", "page", "closing", "release"}

Holders(s) == {w \in Worker : held[w] = s}
Leases(s)  == {w \in Worker : held[w] = s /\ pc[w] \in Leasing}
Pages(s)   == {w \in Worker : held[w] = s /\ pc[w] \in {"page", "closing"}}

\* Every token of a built slot is in the channel, in a worker's hands, or was
\* dropped by release: none is ever duplicated, so the slot never runs more
\* than MaxPages fetches, and the send in release never finds the channel full
\* (its capacity is poolSize * maxPagesPerBrowser).
TokensConserved ==
    \A s \in Slot :
        available[s] + Cardinality(Holders(s)) + lost[s] =
            IF browser[s] \in {"none", "leaked"} THEN 0 ELSE MaxPages

\* pageSlot.active counts exactly the leases in use, in spite of being updated
\* apart from the channel operations.
ActiveCountsLeases == \A s \in Slot : active[s] = Cardinality(Leases(s))

\* The pool's purpose: never more than maxPagesPerBrowser leased pages in one
\* browser.  (Abandoned pages come on top: closeWithTimeout documents the leak.)
PagesBounded == \A s \in Slot : Cardinality(Pages(s)) <= MaxPages

\* The option's promise, at most maxPagesPerBrowser jobs in a browser: the pool is
\* a lease pool of that capacity, whatever happens to tokens, browsers and Close.
Lease == INSTANCE LeasePool WITH lease <- held, Capacity <- MaxPages
LeasesUpToCapacity == Lease!Spec

\* A constructor that fails leaves no slot of its own running.
FailedPoolHasNoBrowser ==
    phase = "failed" => \A s \in Slot : browser[s] \notin {"up", "dead"}

\* The pool keeps its capacity while it is in use: a token of a browser is lost only
\* to a job whose own deadline has passed, or when the scraper or the pool ends.
TokensKept ==
    [][\A s \in Slot : lost'[s] # lost[s] =>
         \/ cancelled \/ phase = "closed"
         \/ \E w \in Timed : expired[w] /\ held[w] = s]_vars

\* A worker is in a call that only the browser or the job can end.
AwaitsBrowser(w) == pc[w] \in {"leased", "page"}

\* Every token was dropped, or is held by a worker that awaits its browser.
NoTokenComes ==
    \A s \in Slot :
        lost[s] + Cardinality({w \in Holders(s) : AwaitsBrowser(w)}) = MaxPages

\* A Fetch hangs in no other place than these: in NewPage or BrowserActions, which
\* nothing bounds, or, if its job has no timeout, in acquire, when no token comes
\* back any more.  In particular it never hangs in the Close of a page, although a
\* wedged driver does not answer, and a job with a timeout never in acquire.
FetchReturns ==
    \A w \in Worker :
        pc[w] # "idle" ~>
            \/ pc[w] = "idle"
            \/ []AwaitsBrowser(w)
            \/ (w \notin Timed /\ []NoTokenComes)
=============================================================================
