----------------------------- MODULE MCSaveCard -----------------------------
(* Instance of SaveCard for TLC. *)
EXTENDS SaveCard

\* Bound: two mishaps in a behaviour, two crashes, a crash and a failing system
\* call in either order, or two failing system calls.
TwoMishaps == crashes + faults <= 2
=============================================================================
