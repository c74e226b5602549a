------------------------------ MODULE MCSaver -------------------------------
(* Saver for TLC; its constants are sets of model values (Saver.cfg).      *)
EXTENDS Saver

=============================================================================
