--------------------------- MODULE MCStandingOrders ---------------------------
(***************************************************************************)
(* One owner with two jobs and one request, and two ticks.                 *)
(***************************************************************************)
EXTENDS StandingOrders

CONSTANTS o, coord, swap, pay

\* The first job's prompt does not compile: it crowds out the second until it is
\* cancelled.  The second runs twice.
MCJobTerms ==
    << [owner |-> o, kind |-> pay, every |-> 1, maxRuns |-> 0, compiles |-> FALSE],
       [owner |-> o, kind |-> pay, every |-> 1, maxRuns |-> 2, compiles |-> TRUE] >>

MCRequest == { [owner |-> o, kind |-> swap, name |-> "buy"] }

\* A session for one kind, that ends before the clock does.
MCGrant == { [key |-> coord, expiresAt |-> 2, kinds |-> {pay}] }
=============================================================================
