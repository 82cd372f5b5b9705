----------------------------- MODULE MCPublisher -----------------------------
(* The timing assumptions TLC checks Publisher under, one set per run.     *)
EXTENDS Publisher

AllTimely == {"lead", "pass"}
LeadOnly  == {"lead"}
=============================================================================
