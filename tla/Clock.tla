-------------------------------- MODULE Clock --------------------------------
(***************************************************************************)
(* Time as the limiters of model/rate_limiter.go see it: time.Now, a       *)
(* monotonic clock, counted in ticks.                                      *)
(***************************************************************************)
EXTENDS Integers, Sequences

VARIABLE now

Tick == now' = now + 1

\* A second time.Now() in the same critical section may see a later time.
Later == now' \in now..(now + 1)

===============================================================================
