--------------------------- MODULE MCFilesTransfer ---------------------------
(***************************************************************************)
(* A small instance of FilesTransfer for TLC.                              *)
(***************************************************************************)
EXTENDS FilesTransfer

\* The start directory is in the home directory; the server has a file of one name in both, and so has
\* this computer.
MCParent == [d \in Dirs |-> Home]
MCRemoteFiles == {<<d, n>> \in Dirs \X Names : n \in LocalFiles}
=============================================================================
