----------------------------- MODULE MCNotifier -----------------------------
(* TLC's runs of Notifier.                                                  *)
EXTENDS Notifier
=============================================================================
