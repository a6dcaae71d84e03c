--------------------------- MODULE MC_Attachments ---------------------------
(* Attachments alone, for the two properties its error and free paths break. *)
EXTENDS Attachments, TLC

CONSTANTS v1, v2

MCAttVersions == {v1, v2}

ASpec == AInit /\ [][AttachmentStep]_avars
====
