----------------------------- MODULE MCAtClient -----------------------------
(* AtClient with the tokens of its commands as the data of the ring buffer.  *)
EXTENDS AtClient

MCData == Tokens
MCZero == [cmd |-> None, txt |-> "zero"]
=============================================================================
