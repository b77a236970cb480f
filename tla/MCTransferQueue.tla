-------------------------- MODULE MCTransferQueue --------------------------
(***************************************************************************)
(* TransferQueue for TLC: two transfers, in one direction at a time, since *)
(* downloads and uploads share nothing but the slots.                      *)
(***************************************************************************)
EXTENDS TransferQueue, TLC

CONSTANTS x, y

MCPair == {x, y}
MCFirst == {x}
MCNames == {0, 1}
MCOneName == {0}
MCUpload == {"upload"}
MCDownload == {"download"}
MCOverwrite == {"overwrite"}
MCOverwriteAsk == {"overwrite", "ask"}
MCNotSkip == {"overwrite", "ask", "rename"}
MCNotAsk == {"overwrite", "skip", "rename"}
MCPairSymmetry == Permutations(MCPair)
=============================================================================
