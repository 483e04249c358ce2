------------------------------ MODULE MCToolRun ------------------------------
(* Small instances of ToolRun for TLC; the .cfg files give the constants. *)
EXTENDS ToolRun
=============================================================================
