---------------------------- MODULE AbstractStats ----------------------------
(***************************************************************************)
(* What the stats aggregation engine promises about time accounting,       *)
(* stated without timers (spec.md sections 3, 4.1 and 4.3).                *)
(*                                                                         *)
(* Every tracked behaviour (a stats type, for an app uid or for the whole  *)
(* device) is either on or off: a recognised start code turns it on, a     *)
(* recognised stop code turns it off, any other code changes nothing.      *)
(* Its accrued time grows by one unit per clock unit during which it is    *)
(* on while the device is on battery, and only then.  Reset forgets the    *)
(* accrued time and the on/off state of every behaviour; the on-battery    *)
(* flag survives it.                                                       *)
(***************************************************************************)
EXTENDS Naturals

CONSTANTS
  Keys,      \* the tracked behaviours: <<stats type, uid or INVALID_VALUE>>
  MaxTime    \* the last value of the clock the model reaches

VARIABLES
  now,       \* the boot clock, in clock units
  onBattery, \* the global battery-gating flag
  on,        \* on[k]: behaviour k is active
  accrued    \* accrued[k]: time k has been active on battery since Reset

vars == <<now, onBattery, on, accrued>>

Init ==
  /\ now = 0
  /\ onBattery = TRUE
  /\ on = [k \in Keys |-> FALSE]
  /\ accrued = [k \in Keys |-> 0]

\* One clock unit passes: every behaviour that is on accrues it, if on battery.
Tick ==
  /\ now < MaxTime
  /\ now' = now + 1
  /\ accrued' = [k \in Keys |-> IF on[k] /\ onBattery THEN accrued[k] + 1
                                                     ELSE accrued[k]]
  /\ UNCHANGED <<onBattery, on>>

\* A recognised start (b = TRUE) or stop (b = FALSE) report for behaviour k.
Switch(k, b) ==
  /\ on' = [on EXCEPT ![k] = b]
  /\ UNCHANGED <<now, onBattery, accrued>>

SetBattery(b) ==
  /\ onBattery' = b
  /\ UNCHANGED <<now, on, accrued>>

Reset ==
  /\ on' = [k \in Keys |-> FALSE]
  /\ accrued' = [k \in Keys |-> 0]
  /\ UNCHANGED <<now, onBattery>>

Next ==
  \/ Tick
  \/ \E k \in Keys, b \in BOOLEAN : Switch(k, b)
  \/ \E b \in BOOLEAN : SetBattery(b)
  \/ Reset

Spec == Init /\ [][Next]_vars
=============================================================================
