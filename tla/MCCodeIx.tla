------------------------------ MODULE MCCodeIx ------------------------------
(* The instance of CodeIx for TLC is in CodeIx_loads.cfg. Schedulers are    *)
(* model values; liveness is checked, so that no symmetry is used.          *)
EXTENDS CodeIx
=============================================================================
