----------------------------- MODULE MCPlanning -----------------------------
(* Planning on one or two seats.  A snapshot may fail a playbook an        *)
(* earlier one passed: what qualifies is drawn from two reports.           *)
EXTENDS Planning

CONSTANTS a, b, broken   \* two playbooks, and one this build cannot execute

AnyReport == {Seats \X Books, Seats \X (Books \ {a})}
=============================================================================
