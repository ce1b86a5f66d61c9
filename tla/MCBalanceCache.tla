--------------------------- MODULE MCBalanceCache ---------------------------
(* BalanceCache for the two networks of Fuel: the testnet has chain id 0.  *)
EXTENDS BalanceCache, TLC

Testnet == 0
Mainnet == 9889

BothChains == {Testnet, Mainnet}
OnlyMainnet == {Mainnet}
=============================================================================
