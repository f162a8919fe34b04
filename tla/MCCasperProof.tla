--------------------------- MODULE MCCasperProof ---------------------------
(* An instance of the deployed contracts for TLC.                          *)
EXTENDS CasperProof, TLC

CONSTANTS oracle, holder, court, self, vault, nobody, claimoracle, hash, failure

MCStakeBalances == (oracle :> 1000) @@ (holder :> 500) @@ (court :> 0)
MCUsdcBalances == (oracle :> 0) @@ (holder :> 2) @@ (court :> 60)
=============================================================================
