------------------------------ MODULE MCDeposits ------------------------------
(* Two calls of deposit(), two connections that share a provider, and one   *)
(* asset of each sort: ether, an NFT contract of this chain, a wrapped coin. *)
EXTENDS Deposits, TLC

CONSTANTS eth, nft, dot

MCBaskets == {Nothing,
              eth :> {1} @@ Nothing,
              nft :> {1, 2} @@ dot :> {1} @@ Nothing}
===============================================================================
