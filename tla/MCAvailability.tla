--------------------------- MODULE MCAvailability ---------------------------
(* The availability job, the light checks of an open page and the silent   *)
(* SSH job, for TLC.                                                       *)
EXTENDS Availability

CONSTANTS job, page, sync

MCProbers == {job, page, sync}
MCOnLoop == {job, sync}
MCSilent == {sync}

=============================================================================
