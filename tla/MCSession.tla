----------------------------- MODULE MCSession -----------------------------
(* Small instances of Session for TLC; the lengths are those of messages of *)
(* one or more pieces.                                                      *)
EXTENDS Session
=============================================================================
