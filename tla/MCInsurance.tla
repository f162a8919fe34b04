---------------------------- MODULE MCInsurance ----------------------------
(* Instances of Insurance for TLC.                                         *)
EXTENDS Insurance, TLC

CONSTANTS holder, lp, vault, claimoracle, riskscorer, hash, failure, breach

(* The provider can stake twice, the holder can insure twice.              *)
MCBalances == (holder :> 2) @@ (lp :> 40)
=============================================================================
