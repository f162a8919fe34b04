------------------------------- MODULE Cep18 -------------------------------
(***************************************************************************)
(* The CEP-18 token that StakeToken and MockUsdc wrap (contracts/src/      *)
(* tokens.rs).  The wrapped odra module is not in the repository: only     *)
(* what its callers rely on is stated here.  A ledger is a value           *)
(*   [balances   |-> [principal -> Nat],                                   *)
(*    allowances |-> [owner -> Nat]]                                       *)
(* so that a contract call that makes several token calls stays one        *)
(* atomic step.  Every transfer_from of this code base pulls from an owner *)
(* into the calling contract itself, and each token is pulled by one       *)
(* contract only, hence one allowance per owner.                           *)
(* A call whose guard is false reverts, and the whole deploy with it.      *)
(***************************************************************************)
EXTENDS Naturals

(* A principal may not send to itself (CannotTargetSelfUser), nor send     *)
(* more than it has (InsufficientBalance).                                 *)
CanTransfer(ledger, from, to, amount) ==
    /\ from # to
    /\ amount <= ledger.balances[from]

Transfer(ledger, from, to, amount) ==
    [ledger EXCEPT !.balances =
        [ledger.balances EXCEPT ![from] = @ - amount, ![to] = @ + amount]]

(* The second transfer of a deploy sees the ledger the first one left; a   *)
(* contract that skips a transfer of zero says so with TransferIfAny.      *)
CanTransferIfAny(ledger, from, to, amount) ==
    amount > 0 => CanTransfer(ledger, from, to, amount)

TransferIfAny(ledger, from, to, amount) ==
    IF amount > 0 THEN Transfer(ledger, from, to, amount) ELSE ledger

(* contract pulls amount out of owner: a pull of zero returns at once, any *)
(* other one needs allowance (InsufficientAllowance) and balance.          *)
CanTransferFrom(ledger, owner, contract, amount) ==
    /\ owner # contract
    /\ \/ amount = 0
       \/ /\ amount <= ledger.allowances[owner]
          /\ amount <= ledger.balances[owner]

TransferFrom(ledger, owner, contract, amount) ==
    [Transfer(ledger, owner, contract, amount)
        EXCEPT !.allowances[owner] = @ - amount]

(* approve overwrites the allowance; it does not look at the balance.      *)
Approve(ledger, owner, amount) ==
    [ledger EXCEPT !.allowances[owner] = amount]

Ledgers(principals, owners) ==
    [balances: [principals -> Nat], allowances: [owners -> Nat]]
=============================================================================
