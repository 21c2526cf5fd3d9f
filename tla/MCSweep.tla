------------------------------ MODULE MCSweep ------------------------------
(* The constants of MCScoper for the runs of SweepObserver.                *)
EXTENDS MCScoper, SweepObserver
============================================================================
