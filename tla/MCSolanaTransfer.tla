--------------------------- MODULE MCSolanaTransfer ---------------------------
(* Model-checking instance of the Solana client.                               *)
EXTENDS SolanaTransfer
=============================================================================
