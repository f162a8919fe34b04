----------------------- MODULE MCAttestationRegistry -----------------------
(* Instances of AttestationRegistry for TLC.                               *)
EXTENDS AttestationRegistry, TLC

CONSTANTS alice, bob, court, self, nobody, model, hash

(* 1001 is odd, so a reward of half of it does not divide evenly.          *)
MCBalances == (alice :> 2502) @@ (bob :> 1501) @@ (court :> 500)
MCTwoBalances == (alice :> 2) @@ (bob :> 2)

=============================================================================
