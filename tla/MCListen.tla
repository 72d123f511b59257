------------------------------ MODULE MCListen ------------------------------
(***************************************************************************)
(* Instances of ListenPath for TLC.                                        *)
(***************************************************************************)
EXTENDS ListenPath

CryptoItem == {"crypto"}
=============================================================================
