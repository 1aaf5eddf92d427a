--------------------------- MODULE ServiceLifecycle ---------------------------
(***************************************************************************)
(* BatteryStatsService's system-ability lifecycle (battery_stats_service.cpp).*)
(*                                                                         *)
(* OnStart runs Init (create and load the parser, create and initialise   *)
(* the core, create the detector), then Publish, SubscribeCommonEvent and  *)
(* AddListener, returning at the first failure, and sets ready_ only when  *)
(* all four succeeded.  Init creates a member only while it is null, so a  *)
(* later OnStart skips the initialisation of a member whose first          *)
(* initialisation failed.  OnStop returns at once unless ready_.           *)
(*                                                                         *)
(* OnStart is modelled step by step (pc) because Publish makes the service *)
(* reachable to IPC handlers before OnStart has finished.  The framework  *)
(* calls OnStart and OnStop one at a time.  Each call to the system       *)
(* (file load, core init, samgr, common event manager, HiSysEvent) may    *)
(* fail, and does so nondeterministically.                                *)
(***************************************************************************)
EXTENDS Integers

CONSTANT MaxStarts   \* bound on the number of OnStart calls

ASSUME MaxStartsAssumption == MaxStarts \in Nat

VARIABLES
  pc,          \* the OnStart step to run next, or "idle" outside OnStart
  ready,       \* ready_
  parser,      \* parser_: "null", "empty" (Init failed) or "loaded"
  core,        \* core_: "null", "failed" (Init failed) or "ok"
  detector,    \* detector_ is non-null
  published,   \* the service object is registered with samgr
  subscribed,  \* subscriberPtr_ is subscribed to the common event manager
  listening,   \* listenerPtr_ is registered with HiSysEventManager
  starts       \* OnStart calls so far

vars == <<pc, ready, parser, core, detector, published, subscribed,
          listening, starts>>

\* HiSysEventManager::AddEventListener results: 0 already added, 1 added,
\* anything else an error (one representative).
AddEventResults == {0, 1, -1}

-----------------------------------------------------------------------------
\* BatteryStatsParser::Init: the table is loaded iff the file opens and parses.
ParserInit(loadOk) == IF loadOk THEN "loaded" ELSE "empty"

\* The manager holds the listener after a call that returned res.
Registered(res) == res \in {0, 1}

\* Variant: an AddListener that reports success whatever the manager said.
AddListenerAnyResult(res) == TRUE

\* AddListener's result: res 0 (already added) and 1 (added) are success.
AddListener(res) == res \in {0, 1}

Init ==
  /\ pc = "idle"
  /\ ready = FALSE
  /\ parser = "null"
  /\ core = "null"
  /\ detector = FALSE
  /\ published = FALSE
  /\ subscribed = FALSE
  /\ listening = FALSE
  /\ starts = 0

\* Variant: an OnStart that publishes before it initialises.
OnStartPublishFirst ==
  /\ pc = "idle"
  /\ ~ready
  /\ starts < MaxStarts
  /\ starts' = starts + 1
  /\ pc' = "publish"
  /\ UNCHANGED <<ready, parser, core, detector, published, subscribed,
                 listening>>

\* OnStart's entry: it returns at once when ready_ (a step that changes
\* nothing), otherwise it goes on to Init.
OnStart ==
  /\ pc = "idle"
  /\ ~ready
  /\ starts < MaxStarts
  /\ starts' = starts + 1
  /\ pc' = "init"
  /\ UNCHANGED <<ready, parser, core, detector, published, subscribed,
                 listening>>

\* Init, run by OnStart: a member is created and initialised only while it
\* is null; the first failed initialisation ends OnStart.
StartInit ==
  /\ pc = "init"
  /\ \E loadOk, coreOk \in BOOLEAN :
       LET parserFails == parser = "null" /\ ~loadOk
           coreFails == ~parserFails /\ core = "null" /\ ~coreOk
       IN  /\ parser' = IF parser = "null" THEN ParserInit(loadOk) ELSE parser
           /\ core' = IF parserFails \/ core # "null" THEN core
                      ELSE IF coreOk THEN "ok" ELSE "failed"
           /\ detector' = (detector \/ ~(parserFails \/ coreFails))
           /\ pc' = IF parserFails \/ coreFails THEN "idle" ELSE "publish"
  /\ UNCHANGED <<ready, published, subscribed, listening, starts>>

\* Publish: registering with samgr may fail, which ends OnStart.
StartPublish ==
  /\ pc = "publish"
  /\ \E ok \in BOOLEAN :
       /\ published' = (published \/ ok)
       /\ pc' = IF ok THEN "subscribe" ELSE "idle"
  /\ UNCHANGED <<ready, parser, core, detector, subscribed, listening, starts>>

\* SubscribeCommonEvent: a failed subscription ends OnStart.
StartSubscribe ==
  /\ pc = "subscribe"
  /\ \E ok \in BOOLEAN :
       /\ subscribed' = (subscribed \/ ok)
       /\ pc' = IF ok THEN "listen" ELSE "idle"
  /\ UNCHANGED <<ready, parser, core, detector, published, listening, starts>>

\* AddListener, then ready_ = true when it succeeded; OnStart ends.
StartListen ==
  /\ pc = "listen"
  /\ \E res \in AddEventResults :
       /\ listening' = (listening \/ Registered(res))
       /\ ready' = AddListener(res)
  /\ pc' = "idle"
  /\ UNCHANGED <<parser, core, detector, published, subscribed, starts>>

\* OnStop: nothing unless ready_; otherwise ready_ = false, the listener is
\* removed and the subscriber unsubscribed (a failure is only logged).
OnStop ==
  /\ pc = "idle"
  /\ ready
  /\ ready' = FALSE
  /\ listening' = FALSE
  /\ \E unsubscribed \in BOOLEAN : subscribed' = (subscribed /\ ~unsubscribed)
  /\ UNCHANGED <<pc, parser, core, detector, published, starts>>

Next ==
  \/ OnStart
  \/ StartInit
  \/ StartPublish
  \/ StartSubscribe
  \/ StartListen
  \/ OnStop

Spec == Init /\ [][Next]_vars

-----------------------------------------------------------------------------
(* Properties.                                                             *)

TypeOK ==
  /\ pc \in {"idle", "init", "publish", "subscribe", "listen"}
  /\ ready \in BOOLEAN
  /\ parser \in {"null", "empty", "loaded"}
  /\ core \in {"null", "failed", "ok"}
  /\ detector \in BOOLEAN
  /\ published \in BOOLEAN
  /\ subscribed \in BOOLEAN
  /\ listening \in BOOLEAN
  /\ starts \in 0..MaxStarts

\* IPC handlers (GetBatteryStats, GetAppStatsMah, ... Reset) dereference
\* parser_ and core_ without a null check and the service never unpublishes:
\* once Publish has succeeded, through any sequence of failed and retried
\* OnStart and OnStop calls, both members exist and the detector too.
PublishedImpliesInitialised ==
  published => parser # "null" /\ core # "null" /\ detector

\* IsServiceReady: whenever ready_ is true, the service is published,
\* subscribed to common events and listening for HiSysEvents, and OnStart
\* is not half-way.
ReadyImpliesWired ==
  ready => published /\ subscribed /\ listening /\ pc = "idle"

\* spec.md 4.4: Init fails if the average-power table failed to load, so a
\* ready service has its table loaded.
ReadyImpliesTableLoaded ==
  ready => parser = "loaded"
=============================================================================
