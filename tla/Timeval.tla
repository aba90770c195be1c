------------------------------- MODULE Timeval -------------------------------
(***************************************************************************)
(* get_time of cpp/src/marko/time.hpp, which turns the milliseconds given  *)
(* to Socket::settimeout into a struct timeval, and what the kernel makes  *)
(* of the timeval it is handed with SO_RCVTIMEO.                           *)
(***************************************************************************)
EXTENDS Integers

\* Division of longs in C++: the quotient is cut off towards zero.
CQuotient(a, b) == IF a >= 0 THEN a \div b ELSE -((-a) \div b)
CRemainder(a, b) == a - b * CQuotient(a, b)

\* (Mutant: only the seconds are filled in.)
get_time_seconds(timeout_msec) == [tv_sec |-> CQuotient(timeout_msec, 1000), tv_usec |-> 0]

get_time(timeout_msec) ==
  LET sec == CQuotient(timeout_msec, 1000)
  IN [tv_sec |-> sec, tv_usec |-> CRemainder(timeout_msec - sec * 1000, 1000)]

Timevals == [tv_sec : Int, tv_usec : Int]

\* The kernel refuses a timeval whose microseconds are no fraction of a second,
Accepted(tv) == tv.tv_usec >= 0 /\ tv.tv_usec < 1000000

\* takes one of zero for no timeout at all, and a negative one for no waiting.
Forever == [tv_sec |-> 0, tv_usec |-> 0]

Microseconds(tv) == 1000000 * tv.tv_sec + tv.tv_usec

=============================================================================
