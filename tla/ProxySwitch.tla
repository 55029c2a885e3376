----------------------------- MODULE ProxySwitch -----------------------------
(***************************************************************************)
(* What internal/systemproxy promises its callers: the machine's traffic   *)
(* is routed to Redactr only while a snapshot of the user's settings is on *)
(* disk, and the snapshot goes away only when nothing is routed.           *)
(***************************************************************************)

VARIABLES
  routed,   \* some network service points at Redactr
  snapped   \* the state file exists

TypeOK == routed \in BOOLEAN /\ snapped \in BOOLEAN

Init == routed = FALSE /\ snapped = FALSE

\* Set takes a snapshot when there is none ...
TakeSnapshot ==
  /\ ~routed /\ ~snapped
  /\ snapped' = TRUE
  /\ UNCHANGED routed

\* ... and then routes the traffic.
Route ==
  /\ snapped
  /\ routed' = TRUE
  /\ UNCHANGED snapped

\* Revert restores the settings of the snapshot ...
Restore ==
  /\ snapped
  /\ routed' = FALSE
  /\ UNCHANGED snapped

\* ... and then deletes it.
Forget ==
  /\ ~routed
  /\ snapped' = FALSE
  /\ UNCHANGED routed

Next == TakeSnapshot \/ Route \/ Restore \/ Forget

Spec == Init /\ [][Next]_<<routed, snapped>>

\* Nothing is ever routed that could not be restored.
Undoable == routed => snapped

=============================================================================
