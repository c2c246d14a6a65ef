---------------------------- MODULE MCRateLimiter ----------------------------
(* Small instances of RateLimiter for TLC: a minute is 3 ticks, a quarter of *)
(* an hour 4, an hour 5.                                                     *)
EXTENDS RateLimiter, TLC

CONSTANTS t1, t2

Minute == 3
FifteenMinutes == 4
HourLength == 5

Windows ==
    [r \in Rule |->
        CASE r \in {"login_failures", "password_change"} -> FifteenMinutes
          [] r \in {"onboarding", "email_verification"} -> HourLength
          [] OTHER -> Minute]

Limits == [r \in Rule |-> 1]

Symmetry == Permutations(Thread)
=============================================================================
