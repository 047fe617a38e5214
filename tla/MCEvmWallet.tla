---- MODULE MCEvmWallet ----
(***************************************************************************)
(* Two callers of one wallet object and one of another with the same key,  *)
(* as cctp_polygon and settlement are in TradeRouter.                      *)
(***************************************************************************)
EXTENDS EvmWallet, TLC

CONSTANTS t1, t2, t3, cctp, settlement

TwoWallets == (t1 :> cctp @@ t2 :> cctp @@ t3 :> settlement)

====
