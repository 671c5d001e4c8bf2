------------------------------- MODULE MCStartup -------------------------------
(* The process is stopped and the database goes away three times each, at  *)
(* any step of a start; the administrator has up to three secrets labelled *)
(* login.                                                                  *)
EXTENDS Startup

=============================================================================
