------------------------------- MODULE MCSession -------------------------------
(* The instance of Session.                                                   *)
EXTENDS Session, TLC

AllMessages == DOMAIN Replies \ {"junk", "none"}
===============================================================================
