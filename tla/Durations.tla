------------------------------ MODULE Durations ------------------------------
(***************************************************************************)
(* Go's time.Duration as the assessment and the output of dates use it: a  *)
(* number of fixed width.  time.Time.Sub stops at the largest duration,    *)
(* about 292 years, and a product wraps around.                            *)
(***************************************************************************)
EXTENDS Integers

CONSTANTS Day,          \* 24 hours, in the model's unit of time
          MaxDuration   \* the largest time.Duration

ASSUME DurationAssumption == Day \in Nat \ {0} /\ MaxDuration \in Nat \ {0}

\* t.Sub(u): saturates.
Sub(t, u) ==
    IF t - u > MaxDuration THEN MaxDuration
    ELSE IF t - u < -(MaxDuration + 1) THEN -(MaxDuration + 1)
    ELSE t - u

\* time.Duration(n) * 24 * time.Hour: two's complement.
DaysAsDuration(n) ==
    ((n * Day + MaxDuration + 1) % (2 * (MaxDuration + 1))) - (MaxDuration + 1)

\* Mutant: one day more than the whole ones, also if they leave nothing over.
DaysBegun(notAfter, t) == Sub(notAfter, t) \div Day + 1

\* int(notAfter.Sub(now).Hours() / 24): rounded towards zero.
Days(notAfter, t) ==
    IF Sub(notAfter, t) >= 0 THEN Sub(notAfter, t) \div Day
    ELSE -((-Sub(notAfter, t)) \div Day)
=============================================================================
