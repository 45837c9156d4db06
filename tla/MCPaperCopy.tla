---------------------------- MODULE MCPaperCopy ----------------------------
(***************************************************************************)
(* PaperCopy on small instances.  Amounts of tokens and money come in      *)
(* fours, so that the halves and quarters a partial sale leaves are whole. *)
(***************************************************************************)
EXTENDS PaperCopy, TLC

SigSymmetry == Permutations(Sig)

=============================================================================
