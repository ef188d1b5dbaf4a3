------------------------- MODULE MCFileTransactions -------------------------
(* Instances of FileTransactions for TLC.                                  *)
EXTENDS FileTransactions
=============================================================================
