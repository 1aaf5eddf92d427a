------------------------ MODULE ServiceLifecycleProofs ------------------------
(***************************************************************************)
(* Proofs, for every bound on OnStart calls, that BatteryStatsService's   *)
(* lifecycle keeps its members initialised once published and is only    *)
(* ready when fully wired.                                                 *)
(***************************************************************************)
EXTENDS ServiceLifecycle, TLAPS

\* The inductive strengthening: what OnStart has achieved at each of its
\* steps.  Publish is reached only after a successful Init, and AddListener
\* only after Publish and SubscribeCommonEvent.
StepInv ==
  /\ pc \in {"publish", "subscribe", "listen"} =>
       parser # "null" /\ core # "null" /\ detector
  /\ pc \in {"subscribe", "listen"} => published
  /\ pc = "listen" => subscribed

IInv ==
  /\ TypeOK
  /\ StepInv
  /\ PublishedImpliesInitialised
  /\ ReadyImpliesWired

\* The initial state is well typed.
LEMMA InitTypeOK == Init => TypeOK
<1> SUFFICES ASSUME Init PROVE TypeOK
  OBVIOUS
<1>1. starts \in 0..MaxStarts
  BY MaxStartsAssumption DEF Init
<1>2. QED
  BY <1>1, Zenon DEF Init, TypeOK

\* Every step of the lifecycle preserves the types of its variables.
LEMMA TypeStep == TypeOK /\ [Next]_vars => TypeOK'
<1> SUFFICES ASSUME TypeOK, [Next]_vars PROVE TypeOK'
  OBVIOUS
<1> USE MaxStartsAssumption DEF TypeOK
<1>1. CASE OnStart
  BY <1>1 DEF OnStart
<1>2. CASE StartInit
  BY <1>2 DEF StartInit, ParserInit
<1>3. CASE StartPublish
  BY <1>3 DEF StartPublish
<1>4. CASE StartSubscribe
  BY <1>4 DEF StartSubscribe
<1>5. CASE StartListen
  BY <1>5 DEF StartListen, Registered, AddListener
<1>6. CASE OnStop
  BY <1>6 DEF OnStop
<1>7. CASE UNCHANGED vars
  BY <1>7 DEF vars
<1>8. QED
  BY <1>1, <1>2, <1>3, <1>4, <1>5, <1>6, <1>7 DEF Next

\* The lifecycle variables keep their types under every OnStart, Init step,
\* Publish, SubscribeCommonEvent, AddListener and OnStop.
THEOREM TypeCorrect == Spec => []TypeOK
<1>1. Init => TypeOK
  BY InitTypeOK
<1>2. QED
  BY <1>1, TypeStep, PTL DEF Spec

\* IInv holds initially and is preserved by every step of the lifecycle.
LEMMA IInvInductive == Spec => []IInv
<1>1. Init => IInv
  BY InitTypeOK, Zenon DEF Init, IInv, StepInv, PublishedImpliesInitialised,
                           ReadyImpliesWired
<1>2. IInv /\ [Next]_vars => IInv'
  <2> SUFFICES ASSUME IInv, [Next]_vars PROVE IInv'
    OBVIOUS
  <2>0. TypeOK'
    BY TypeStep DEF IInv
  <2> USE DEF IInv, TypeOK, StepInv, PublishedImpliesInitialised,
              ReadyImpliesWired
  <2>1. CASE OnStart
    BY <2>0, <2>1 DEF OnStart
  <2>2. CASE StartInit
    BY <2>0, <2>2 DEF StartInit, ParserInit
  <2>3. CASE StartPublish
    BY <2>0, <2>3 DEF StartPublish
  <2>4. CASE StartSubscribe
    BY <2>0, <2>4 DEF StartSubscribe
  <2>5. CASE StartListen
    BY <2>0, <2>5 DEF StartListen, Registered, AddListener
  <2>6. CASE OnStop
    BY <2>0, <2>6 DEF OnStop
  <2>7. CASE UNCHANGED vars
    BY <2>0, <2>7 DEF vars
  <2>8. QED
    BY <2>1, <2>2, <2>3, <2>4, <2>5, <2>6, <2>7 DEF Next
<1>3. QED
  BY <1>1, <1>2, PTL DEF Spec

\* Once the service is published the IPC handlers find parser_, core_ and
\* detector_ created, whatever OnStart and OnStop calls failed before.
THEOREM PublishedSafe == Spec => []PublishedImpliesInitialised
BY IInvInductive, PTL DEF IInv

\* IsServiceReady returns true only for a service that is published,
\* subscribed to common events and listening for HiSysEvents.
THEOREM ReadySafe == Spec => []ReadyImpliesWired
BY IInvInductive, PTL DEF IInv
=============================================================================
