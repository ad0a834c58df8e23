--------------------------- MODULE MCRabbitConsumer ---------------------------
(***************************************************************************)
(* Instances of RabbitConsumer for TLC: a message, one without identity,   *)
(* and one that cannot be decoded.                                         *)
(***************************************************************************)
EXTENDS RabbitConsumer

CONSTANTS m1, mAnon, mGarbage, evt1

MCIdOf == [m \in Messages |-> IF m = m1 THEN evt1 ELSE NoId]
=============================================================================
