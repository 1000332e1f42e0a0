------------------------ MODULE MCComponentExecutor ------------------------
(* An instance of ComponentExecutor for TLC.                                *)
EXTENDS ComponentExecutor

=============================================================================
