---------------------------- MODULE WindowRounds --------------------------
(***************************************************************************)
(* The window of one transfer over any sequence of batches and timeouts.   *)
(***************************************************************************)
EXTENDS ResourceWindow

CONSTANT MaxRounds      \* bound: consecutive fast, or very slow, batches

VARIABLE win

WindowInit == win = NewWindow

Batch(rate) ==
    /\ win.fast_rate_rounds < MaxRounds /\ win.very_slow_rate_rounds < MaxRounds
    /\ win' = grow(win, rate)

Timeout == win' = shrink(win)

WindowNext == Timeout \/ \E rate \in RateClasses : Batch(rate)

WindowSpec == WindowInit /\ [][WindowNext]_win

---------------------------------------------------------------------------
\* The window never closes and never passes its ceiling: after any batches and
\* timeouts a receiver still asks for at least the minimum number of parts, so a
\* request names a part and the transfer can go on.  A demotion can leave the
\* floor above the window, which is why grow subtracts with saturation.
WindowStaysOpen ==
    /\ win \in [window : Nat, window_min : Nat, window_max : Nat,
                fast_rate_rounds : Nat, very_slow_rate_rounds : Nat]
    /\ WINDOW_MIN <= win.window_min
    /\ WINDOW_MIN <= win.window /\ win.window <= win.window_max
    /\ win.window_max <= WINDOW_MAX_FAST
===========================================================================
