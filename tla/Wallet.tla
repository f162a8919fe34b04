------------------------------- MODULE Wallet -------------------------------
(***************************************************************************)
(* apps/web/src/lib/wallet.tsx: the mock CSPR.click connector every page   *)
(* shares, with the button that drives it (components/WalletButton.tsx).   *)
(* The connector has one account, so its state is its status.  The mock    *)
(* handshake is a timer and cannot fail.                                   *)
(***************************************************************************)
EXTENDS Naturals

VARIABLE wallet

WalletInit == wallet = "disconnected"

walletReducer(action) ==
    CASE action = "connect/start" -> "connecting"
      [] action = "connect/success" -> "connected"
      [] action \in {"connect/error", "disconnect"} -> "disconnected"

isConnected == wallet = "connected"

(* The button offers to connect when disconnected, to disconnect when      *)
(* connected, and nothing while the handshake is under way.                *)
PressWalletButton ==
    \/ wallet = "disconnected" /\ wallet' = walletReducer("connect/start")
    \/ isConnected /\ wallet' = walletReducer("disconnect")

FinishHandshake ==
    /\ wallet = "connecting"
    /\ wallet' = walletReducer("connect/success")
=============================================================================
