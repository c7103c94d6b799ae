--------------------------- MODULE CorrelationLoop ---------------------------
(***************************************************************************)
(* The search of WatcherState.correlate_blueprint, written as the loop the *)
(* code runs over the deque, against the closest event that WatcherState   *)
(* chooses in one step.                                                    *)
(***************************************************************************)
EXTENDS WatcherState

(* A seeded fault: of two equally close events the later one is kept.      *)
Closer_LaterWins(best, e, ts) ==
  LET delta == ts - e.ts
  IN  IF 0 <= delta /\ delta <= WINDOW /\ delta <= best.delta
      THEN [event |-> e, delta |-> delta]
      ELSE best

(* One turn of the loop: keep the event when it is in the window and       *)
(* strictly closer than the best so far.                                   *)
Closer(best, e, ts) ==
  LET delta == ts - e.ts
  IN  IF 0 <= delta /\ delta <= WINDOW /\ delta < best.delta
      THEN [event |-> e, delta |-> delta]
      ELSE best

(* best = None, best_delta = WINDOW + 1, then every event from the oldest. *)
correlate_loop(d, ts) ==
  LET best[n \in 0..Len(d)] ==
        IF n = 0 THEN [event |-> None, delta |-> WINDOW + 1]
        ELSE Closer(best[n - 1], d[n], ts)
  IN  best[Len(d)].event

-----------------------------------------------------------------------------
(* On every deque the watcher can hold and every blueprint time, the loop  *)
(* finds the closest event of the window, the earliest of those equally    *)
(* close, and nothing only when the window is empty (domain.py:121-130).   *)
LoopFindsClosest ==
  \A ts \in Time :
     correlate_loop(recent_lifecycle, ts) = correlate_blueprint(recent_lifecycle, ts)

=============================================================================
