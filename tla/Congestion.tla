----------------------------- MODULE Congestion -----------------------------
(***************************************************************************)
(* The congestion window arithmetic of a send flow, flow.go                *)
(* update_congestion_wnd.  The numbers in the code are parameters here, so *)
(* that a model can use segments of a few bytes.                           *)
(***************************************************************************)
EXTENDS Chunks

CONSTANTS
  InitCongWnd,        \* init_cong_wnd, 3 segments
  TimeoutCongWnd,     \* timeout_cong_wnd, 1 segment
  TimeCritical,       \* is_time_critical
  FastGrow,           \* fastgrow_allowed
  FastGrowFloor,      \* 67200 bytes in the code
  AIMin, AICap,       \* bounds of aithresh, 64 and 4800 (2400 time critical)
  AIStep              \* window increase for aithresh acked bytes, 24

ASSUME CongestionAssumption ==
  /\ InitCongWnd \in Nat \ {0} /\ TimeoutCongWnd \in Nat \ {0}
  /\ TimeCritical \in BOOLEAN /\ FastGrow \in BOOLEAN
  /\ FastGrowFloor \in Nat
  /\ AIMin \in Nat \ {0} /\ AICap \in Nat \ {0, 1} /\ AIStep \in Nat

SsthreshAfterLoss(pre) ==
  MaxOf(IF TimeCritical \/ (pre > FastGrowFloor /\ FastGrow)
          THEN (pre * 7) \div 8 ELSE pre \div 2,
        InitCongWnd)

AIThreshold(cw, cap) == MinOf(MaxOf(cw \div 16, AIMin), cap)

\* Additive increase: `step' bytes for each aithresh bytes accumulated.
AdditiveIncrease(acc, acked, th, step) ==
  [increase |-> step * ((acc + acked) \div th), acc |-> (acc + acked) % th]

\* The window increase for an ack of acked bytes, and the bytes left over.
Growth(cw, ss, acc, acked) ==
  IF FastGrow THEN
    IF cw < ss THEN [increase |-> acked, acc |-> acc]
    ELSE AdditiveIncrease(acc, acked, AIThreshold(cw, AICap), 2 * AIStep)
  ELSE IF cw < ss /\ TimeCritical THEN
    [increase |-> (acked + 3) \div 4, acc |-> acc]
  ELSE AdditiveIncrease(acc, acked,
         AIThreshold(cw, IF TimeCritical THEN AICap \div 2 ELSE AICap), AIStep)

(***************************************************************************)
(* The window, threshold and accumulator after an acknowledgement.         *)
(***************************************************************************)
UpdateCongestionWnd(cw, ss, acc, any_loss, any_nak, acked, pre) ==
  IF any_loss THEN
    [cong_wnd |-> SsthreshAfterLoss(pre), ssthresh |-> SsthreshAfterLoss(pre),
     acc |-> 0]
  ELSE IF ~any_nak /\ pre >= cw THEN
    LET g == Growth(cw, ss, acc, acked)
    IN  [cong_wnd |-> MaxOf(cw + MinOf(g.increase, SMSS), InitCongWnd),
         ssthresh |-> ss, acc |-> g.acc]
  ELSE [cong_wnd |-> cw, ssthresh |-> ss, acc |-> acc]
=============================================================================
