------------------------------ MODULE StatsProxy ------------------------------
(***************************************************************************)
(* BatteryStatsProxy, the client side of the IPC (battery_stats_proxy.cpp). *)
(*                                                                         *)
(* One proxy object serves every thread of a client process.  Each query  *)
(* sends a request and reads its reply; GetBatteryStats and the four      *)
(* mAh/percent queries then read the error code the service appended and  *)
(* store it in the member lastError_, which GetLastError returns and      *)
(* resets to ERR_OK.  A failed SendRequest is only logged by the four     *)
(* double queries: they read the empty reply (0.0) and return when the    *)
(* error read fails, leaving lastError_ as it was.                         *)
(*                                                                         *)
(* A query touches shared state only in its last statement (the write of  *)
(* lastError_), so it is one step.  GetLastError reads and then writes    *)
(* lastError_ without a lock, so it is two steps.  The transport outcome  *)
(* (remote missing, token or SendRequest failing) and the service's reply  *)
(* (its error code, the size of its list) are inputs chosen by \E.        *)
(***************************************************************************)
EXTENDS Integers

CONSTANTS
  Threads,      \* client threads sharing the proxy
  ERR_OK,       \* StatsError::ERR_OK
  ReplyErrors,  \* error codes the service writes into a reply
  ReplySizes    \* list sizes a GetBatteryStats reply can announce

ASSUME ProxyAssumption ==
  /\ ERR_OK \in ReplyErrors
  /\ "none" \notin ReplyErrors
  /\ ReplySizes \subseteq Int

\* The limit on the announced size of a GetBatteryStats reply.
PARAM_MAX_NUM == 2000

\* Queries whose reply carries an error code, queries whose does not.
ErrorOps == {"GetBatteryStats", "GetAppStatsMah", "GetAppStatsPercent",
             "GetPartStatsMah", "GetPartStatsPercent"}
Ops == ErrorOps \cup {"GetTotalTimeSecond", "GetTotalDataBytes",
                      "SetOnBattery", "Reset", "ShellDump"}

NoCall == [op |-> "none", served |-> FALSE]

VARIABLES
  lastError,  \* lastError_
  pc,         \* per thread: "idle", or "reset" inside GetLastError
  tmp,        \* per thread: GetLastError's tmpError
  own,        \* history: error code the thread's own last reply carried
              \* since its last GetLastError, or "none"
  result      \* history: the thread's last query, and whether its result
              \* came from the service (FALSE: the default value)

vars == <<lastError, pc, tmp, own, result>>

-----------------------------------------------------------------------------
\* Variant: a query that stores its local error even when reading it failed.
CompleteStoreAlways(th, op, served, newError) ==
  /\ pc[th] = "idle"
  /\ result' = [result EXCEPT ![th] = [op |-> op, served |-> served]]
  /\ lastError' = newError
  /\ own' = [own EXCEPT ![th] = newError]
  /\ UNCHANGED <<pc, tmp>>

\* The common end of a query by thread th: result is what the service
\* answered (served) or the method's default; newError is the code stored
\* into lastError_, or "none" when the method returns before that store.
Complete(th, op, served, newError) ==
  /\ pc[th] = "idle"
  /\ result' = [result EXCEPT ![th] = [op |-> op, served |-> served]]
  /\ IF newError = "none"
       THEN UNCHANGED <<lastError, own>>
       ELSE /\ lastError' = newError
            /\ own' = [own EXCEPT ![th] = newError]
  /\ UNCHANGED <<pc, tmp>>

\* GetBatteryStats: a failed send returns the empty list; a size below 0
\* or above PARAM_MAX_NUM returns the empty list before the error read;
\* a failed error read returns the list read so far without a store.
GetBatteryStats(th) ==
  \E sent, errorRead \in BOOLEAN, size \in ReplySizes, e \in ReplyErrors :
    LET accepted == sent /\ 0 <= size /\ size <= PARAM_MAX_NUM
    IN  Complete(th, "GetBatteryStats", accepted,
                 IF accepted /\ errorRead THEN e ELSE "none")

\* The four double queries: a failed send is only logged, the value read
\* from the empty reply is 0.0 and the failed error read returns early.
DoubleQuery(th, op) ==
  \E sent \in BOOLEAN, e \in ReplyErrors :
    Complete(th, op, sent, IF sent THEN e ELSE "none")

GetAppStatsMah(th) == DoubleQuery(th, "GetAppStatsMah")
GetAppStatsPercent(th) == DoubleQuery(th, "GetAppStatsPercent")
GetPartStatsMah(th) == DoubleQuery(th, "GetPartStatsMah")
GetPartStatsPercent(th) == DoubleQuery(th, "GetPartStatsPercent")

\* GetTotalTimeSecond and GetTotalDataBytes read a uint64 and no error
\* code; DEFAULT_VALUE when the send or the read fails.
UintQuery(th, op) ==
  \E sent \in BOOLEAN : Complete(th, op, sent, "none")

GetTotalTimeSecond(th) == UintQuery(th, "GetTotalTimeSecond")
GetTotalDataBytes(th) == UintQuery(th, "GetTotalDataBytes")

\* SetOnBattery and Reset send and log a failure; no reply is read.
VoidCall(th, op) ==
  \E sent \in BOOLEAN : Complete(th, op, sent, "none")

SetOnBattery(th) == VoidCall(th, "SetOnBattery")
Reset(th) == VoidCall(th, "Reset")

\* ShellDump: "remote error" when argc exceeds the arguments given, or
\* when the send fails; otherwise the reply's string.
ShellDump(th) ==
  \E argcFits, sent \in BOOLEAN :
    Complete(th, "ShellDump", argcFits /\ sent, "none")

\* GetLastError, first statement: tmpError = lastError_.
GetLastErrorRead(th) ==
  /\ pc[th] = "idle"
  /\ tmp' = [tmp EXCEPT ![th] = lastError]
  /\ pc' = [pc EXCEPT ![th] = "reset"]
  /\ UNCHANGED <<lastError, own, result>>

\* GetLastError, then: lastError_ = ERR_OK; return tmpError.
GetLastErrorReset(th) ==
  /\ pc[th] = "reset"
  /\ lastError' = ERR_OK
  /\ pc' = [pc EXCEPT ![th] = "idle"]
  /\ own' = [own EXCEPT ![th] = "none"]
  /\ UNCHANGED <<tmp, result>>

Init ==
  /\ lastError = ERR_OK
  /\ pc = [th \in Threads |-> "idle"]
  /\ tmp = [th \in Threads |-> ERR_OK]
  /\ own = [th \in Threads |-> "none"]
  /\ result = [th \in Threads |-> NoCall]

Next ==
  \E th \in Threads :
    \/ GetBatteryStats(th)
    \/ GetAppStatsMah(th) \/ GetAppStatsPercent(th)
    \/ GetPartStatsMah(th) \/ GetPartStatsPercent(th)
    \/ GetTotalTimeSecond(th) \/ GetTotalDataBytes(th)
    \/ SetOnBattery(th) \/ Reset(th) \/ ShellDump(th)
    \/ GetLastErrorRead(th)
    \/ GetLastErrorReset(th)

Spec == Init /\ [][Next]_vars

-----------------------------------------------------------------------------
(* Properties.                                                             *)

TypeOK ==
  /\ lastError \in ReplyErrors
  /\ pc \in [Threads -> {"idle", "reset"}]
  /\ tmp \in [Threads -> ReplyErrors]
  /\ own \in [Threads -> ReplyErrors \cup {"none"}]
  /\ result \in [Threads -> [op: Ops \cup {"none"}, served: BOOLEAN]]

\* GetLastError, called after a query, returns the error code of the reply
\* to the caller's own queries since its previous GetLastError, and ERR_OK
\* when none of them stored one: the value it returns is neither a code
\* left over from an earlier call nor another caller's.
ErrorReportedToCaller ==
  [][\A th \in Threads :
       GetLastErrorReset(th) =>
         tmp[th] = IF own[th] = "none" THEN ERR_OK ELSE own[th]]_vars

\* napi_error.cpp lists ERR_CONNECTION_FAIL, "Failed to connect to the
\* service.": a query that fell back to its default value because the
\* service could not be reached, or its reply was rejected, is not reported
\* as ERR_OK by the GetLastError that follows it.
FailedCallReported ==
  [][\A th \in Threads :
       /\ GetLastErrorReset(th)
       /\ result[th].op \in Ops \ {"ShellDump"}
       /\ ~result[th].served
       => tmp[th] # ERR_OK]_vars
=============================================================================
