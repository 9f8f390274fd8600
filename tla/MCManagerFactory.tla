-------------------------- MODULE MCManagerFactory --------------------------
(* Workers and roles are model values of the configurations.  They are       *)
(* interchangeable, but symmetry is not sound for liveness.                  *)
EXTENDS ManagerFactory
=============================================================================
