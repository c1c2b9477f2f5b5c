--------------------------- MODULE ResourceWindow -------------------------
(***************************************************************************)
(* The receiver's request window, WindowState of resource.rs: the host     *)
(* grows it after a completed batch and shrinks it after a timeout.        *)
(***************************************************************************)
EXTENDS Integers

CONSTANTS
    WINDOW_INITIAL, WINDOW_MIN,
    WINDOW_MAX_SLOW, WINDOW_MAX_VERY_SLOW, WINDOW_MAX_FAST,
    WINDOW_FLEXIBILITY,
    FAST_RATE_THRESHOLD, VERY_SLOW_RATE_THRESHOLD

\* How the constants of resource.rs compare.
ASSUME WindowAssumption ==
    /\ {WINDOW_INITIAL, WINDOW_MIN, WINDOW_MAX_SLOW, WINDOW_MAX_VERY_SLOW, WINDOW_MAX_FAST,
        WINDOW_FLEXIBILITY, FAST_RATE_THRESHOLD, VERY_SLOW_RATE_THRESHOLD} \subseteq Nat
    /\ 0 < WINDOW_MIN /\ WINDOW_MIN <= WINDOW_INITIAL /\ WINDOW_INITIAL <= WINDOW_MAX_SLOW
    /\ WINDOW_MIN <= WINDOW_MAX_VERY_SLOW
    /\ WINDOW_MAX_SLOW <= WINDOW_MAX_FAST /\ WINDOW_MAX_VERY_SLOW <= WINDOW_MAX_FAST
    /\ 0 < WINDOW_FLEXIBILITY

\* A measured rate as grow tells them apart: no estimate, above RATE_FAST,
\* below RATE_VERY_SLOW, in between.
RateClasses == {"unknown", "fast", "very slow", "middle"}

saturating_sub(a, b) == IF a > b THEN a - b ELSE 0

NewWindow == [window |-> WINDOW_INITIAL, window_min |-> WINDOW_MIN,
              window_max |-> WINDOW_MAX_SLOW,
              fast_rate_rounds |-> 0, very_slow_rate_rounds |-> 0]

\* The first half of grow: one more part, and a higher floor past the band.
Widened(w) ==
    IF w.window < w.window_max
      THEN [w EXCEPT !.window = @ + 1,
                     !.window_min = IF saturating_sub(w.window + 1, @) > WINDOW_FLEXIBILITY - 1
                                      THEN @ + 1 ELSE @]
      ELSE w

\* Mutant: the demotion lowers the ceiling and forgets the window above it.
DemotedCeiling(w) == [w EXCEPT !.window_max = WINDOW_MAX_VERY_SLOW]

\* Enough very slow batches: the lowest ceiling, and the window under it.
Demoted(w) ==
    [w EXCEPT !.window_max = WINDOW_MAX_VERY_SLOW,
              !.window = IF @ > WINDOW_MAX_VERY_SLOW THEN WINDOW_MAX_VERY_SLOW ELSE @]

grow(w, rate) ==
    LET v == Widened(w)
        fast == v.fast_rate_rounds + 1
        slow == v.very_slow_rate_rounds + 1
    IN  CASE rate = "unknown" -> v
          [] rate = "fast" ->
               [v EXCEPT !.fast_rate_rounds = fast, !.very_slow_rate_rounds = 0,
                         !.window_max = IF fast >= FAST_RATE_THRESHOLD
                                          THEN WINDOW_MAX_FAST ELSE @]
          [] rate = "very slow" ->
               LET u == [v EXCEPT !.very_slow_rate_rounds = slow, !.fast_rate_rounds = 0]
               IN  IF slow >= VERY_SLOW_RATE_THRESHOLD THEN Demoted(u) ELSE u
          [] rate = "middle" ->
               [v EXCEPT !.fast_rate_rounds = 0, !.very_slow_rate_rounds = 0]

shrink(w) ==
    LET win == IF w.window > w.window_min THEN w.window - 1 ELSE w.window
        top == IF w.window_max > w.window_min THEN w.window_max - 1 ELSE w.window_max
    IN  [w EXCEPT !.window = win,
                  !.window_max = IF saturating_sub(top, win) > WINDOW_FLEXIBILITY - 1
                                   THEN top - 1 ELSE top]
===========================================================================
