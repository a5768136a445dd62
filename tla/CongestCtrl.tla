---------------------------- MODULE CongestCtrl -----------------------------
(***************************************************************************)
(* The congestion controller of the Bittorrent client                      *)
(* (project3/src/congestCtrl.c): slow start, congestion avoidance and the   *)
(* reaction to loss.  One controller belongs to each upload (sendWindow in  *)
(* window.h); the two operators below are its only mutators and are pure,   *)
(* so the modules of the transfer apply them to the record they keep.       *)
(***************************************************************************)
EXTENDS Naturals

CONSTANT InitThresh          \* INIT_THRESH: the first slow-start threshold

ASSUME InitThreshAssumption == InitThresh \in Nat /\ InitThresh >= 2

Modes == {"SLOW_START", "CONGEST_AVOID"}

CtrlType == [mode : Modes, windowSize : Nat, ssthresh : Nat, slowInc : Nat]

InitCongestCtrler ==
  [mode |-> "SLOW_START", windowSize |-> 1, ssthresh |-> InitThresh, slowInc |-> 0]

(* One ACK in slow start: a packet more, until the threshold is met.        *)
SlowStartStep(ctrl) ==
  [mode |-> IF ctrl.windowSize + 1 = ctrl.ssthresh THEN "CONGEST_AVOID" ELSE "SLOW_START",
   windowSize |-> ctrl.windowSize + 1, ssthresh |-> ctrl.ssthresh, slowInc |-> ctrl.slowInc]

(* One ACK in congestion avoidance: a packet more per window of ACKs.       *)
CongestAvoidStep(ctrl) ==
  IF ctrl.slowInc + 1 = ctrl.windowSize
  THEN [mode |-> "CONGEST_AVOID", windowSize |-> ctrl.windowSize + 1,
        ssthresh |-> ctrl.ssthresh, slowInc |-> 0]
  ELSE [ctrl EXCEPT !.slowInc = @ + 1]

ExpandWindow(ctrl) ==
  IF ctrl.mode = "SLOW_START" THEN SlowStartStep(ctrl) ELSE CongestAvoidStep(ctrl)

(* A loss, by timeout or by duplicate ACKs.                                 *)
ShrinkNoFloor(ctrl) ==                              \* mutant: the floor is dropped
  [mode |-> "SLOW_START", windowSize |-> 1, ssthresh |-> ctrl.ssthresh \div 2, slowInc |-> 0]

ShrinkWindow(ctrl) ==
  [mode |-> "SLOW_START", windowSize |-> 1, slowInc |-> 0,
   ssthresh |-> IF ctrl.ssthresh \div 2 < 2 THEN 2 ELSE ctrl.ssthresh \div 2]

(***************************************************************************)
(* The window never grows past the threshold in slow start: it leaves slow  *)
(* start exactly when it meets it, which the test for equality in           *)
(* expandWindow relies on (a threshold of 1 would be stepped over and slow  *)
(* start would never end).  In congestion avoidance the ACK counter stays   *)
(* below the window it is compared with, for the same reason.               *)
(***************************************************************************)
CtrlOK(ctrl) ==
  /\ ctrl.windowSize >= 1 /\ ctrl.ssthresh >= 2
  /\ ctrl.mode = "SLOW_START" => ctrl.windowSize < ctrl.ssthresh /\ ctrl.slowInc = 0
  /\ ctrl.mode = "CONGEST_AVOID" => ctrl.windowSize >= ctrl.ssthresh /\ ctrl.slowInc < ctrl.windowSize
=============================================================================
