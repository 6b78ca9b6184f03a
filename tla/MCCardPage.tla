----------------------------- MODULE MCCardPage -----------------------------
(* TLC's runs of CardPage.                                                  *)
EXTENDS CardPage
=============================================================================
