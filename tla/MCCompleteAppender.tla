------------------------ MODULE MCCompleteAppender ------------------------
(* Model-checking instance of CompleteAppender: six appends and three     *)
(* cancellations, enough for an append, a close, a failed close retried   *)
(* and a cancelled close that took effect and is retried, in every order. *)
EXTENDS CompleteAppender
=============================================================================
