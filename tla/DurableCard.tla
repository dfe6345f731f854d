---------------------------- MODULE DurableCard ----------------------------
(***************************************************************************)
(* What a managed memory card promises its users as long as the disk has   *)
(* not failed: an atomic, durable card.  A write, a restore or an upload   *)
(* takes effect as a whole or not at all; it has taken effect when the     *)
(* call returns; a crash at any moment, also during the recovery from an   *)
(* earlier crash, changes nothing; readers see exactly the durable card.   *)
(* Promised by docs/gamecube-save-overlay.md:63-95, implemented by         *)
(* SaveCard.                                                               *)
(***************************************************************************)
EXTENDS Naturals

CONSTANTS Cells, Val, Zero

\* A write of one value to the cells lo .. hi, or a whole new card.
Write(lo, hi, val) == [kind |-> "write", lo |-> lo, hi |-> hi, val |-> val]
Replace(card) == [kind |-> "replace", card |-> card]
NoOp == [kind |-> "none"]
Hidden == [kind |-> "hidden"]
Shown(card) == [kind |-> "shown", card |-> card]

VARIABLES
    content,        \* the durable card
    op,             \* the call in progress
    view,           \* what a reader gets, Hidden when nobody can read
    failed          \* the disk has failed

vars == <<content, op, view, failed>>

Effect ==
    IF op.kind = "write"
    THEN [c \in Cells |-> IF c \in op.lo .. op.hi THEN op.val ELSE content[c]]
    ELSE op.card

Init ==
    /\ content = [c \in Cells |-> Zero]
    /\ op = NoOp /\ view = Hidden /\ failed = FALSE

\* A call starts.
Start ==
    /\ op = NoOp
    /\ \/ \E lo, hi \in Cells, val \in Val : op' = Write(lo, hi, val)
       \/ \E card \in [Cells -> Val] : op' = Replace(card)
    /\ view' = Hidden
    /\ UNCHANGED content

Apply ==
    /\ op # NoOp
    /\ content' = Effect
    /\ UNCHANGED <<op, view>>

\* A call returns success only once its effect is durable.
Finish ==
    /\ op # NoOp /\ content = Effect
    /\ op' = NoOp /\ view' \in {Hidden, Shown(content)}
    /\ UNCHANGED content

\* The store is closed or the process dies, with or without a call running.
Stop ==
    /\ op' = NoOp /\ view' = Hidden
    /\ UNCHANGED content

\* The store is opened, or a call that changes no data has returned.
Show ==
    /\ op = NoOp
    /\ view' = Shown(content)
    /\ UNCHANGED <<content, op>>

\* Once the disk has failed, nothing is promised here.
DiskFailed == failed'

Next == DiskFailed \/ Start \/ Apply \/ Finish \/ Stop \/ Show

Spec == Init /\ [][Next]_vars
=============================================================================
