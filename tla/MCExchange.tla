----------------------------- MODULE MCExchange -----------------------------
(* Small instances of Exchange.                                            *)
EXTENDS Exchange

CONSTANTS k1, k2

TwoCallers == {k1, k2}
=============================================================================
