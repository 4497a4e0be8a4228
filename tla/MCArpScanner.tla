---------------------------- MODULE MCArpScanner ----------------------------
(* A detector that is built at most twice.                                 *)
EXTENDS ArpScanner

MCLives == 1..2
=============================================================================
