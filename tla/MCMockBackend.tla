--------------------------- MODULE MCMockBackend ----------------------------
(* Instances of MockBackend for TLC.                                       *)
EXTENDS MockBackend, TLC

CONSTANTS a, b, me, none, oracle, plain, failure, feed, panel

(* No account but MOCK_ACCOUNT is named in the code.                       *)
Symmetry == Permutations(Accounts)
=============================================================================
