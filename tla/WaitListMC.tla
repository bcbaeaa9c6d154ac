------------------------------ MODULE WaitListMC ------------------------------
(* Three clients of either kind, two of them patient, and one of the staff. *)
EXTENDS WaitList, TLC

CONSTANTS c1, c2, c3, staff

MCClient == {c1, c2, c3, staff}
MCThree == {c1, c2, c3}
MCPatient == {c1, c2}
=============================================================================
