--------------------------- MODULE MCBodyDownload ---------------------------
(***************************************************************************)
(* Three peers over a range that is longer than the window.                *)
(***************************************************************************)
EXTENDS BodyDownload
=============================================================================
