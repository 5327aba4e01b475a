------------------------------ MODULE VecClock ------------------------------
(***************************************************************************)
(* Per-document vector clocks (src/src/doc.rs, `VecClock`): origin ->      *)
(* highest sequence number.  The code's map omits zero entries; here a     *)
(* clock is a total function and an omitted origin is 0.                   *)
(***************************************************************************)
EXTENDS Naturals

CONSTANT Origin     \* peer ids that write documents, as naturals: the code
                    \* compares them only with the order of their base58 text

ASSUME OriginAssumption == Origin \subseteq Nat \ {0}

Clock == [Origin -> Nat]

\* `VecClock::default`
ZeroClock == [o \in Origin |-> 0]

\* `tick`: bump one origin's counter.
Tick(c, o) == [c EXCEPT ![o] = @ + 1]

\* Faulty variant: the clock is not raised.
MergeClock_KeepsOld(c, d) == c

\* `merge`: element-wise maximum.
MergeClock(c, d) == [o \in Origin |-> IF c[o] >= d[o] THEN c[o] ELSE d[o]]

\* `covers`: every origin of d is at or below c.
Covers(c, d) == \A o \in Origin : c[o] >= d[o]

=============================================================================
