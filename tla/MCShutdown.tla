----------------------------- MODULE MCShutdown -----------------------------
(* TLC's runs of Shutdown.                                                  *)
EXTENDS Shutdown
=============================================================================
