------------------------------ MODULE MCStartup -----------------------------
(* Small instances of Startup.  Nothing is symmetric in them: symmetry is  *)
(* not sound for what must come to happen.                                 *)
EXTENDS Startup
=============================================================================
