---------------------------- MODULE MCXfrmKernel ----------------------------
(* The instance of XfrmKernel for TLC; its constants are in XfrmKernel.cfg. *)
EXTENDS XfrmKernel
=============================================================================
