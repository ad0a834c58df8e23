--------------------------- MODULE MCKafkaConsumer ---------------------------
(***************************************************************************)
(* Instances of KafkaConsumer for TLC.  The log holds two messages and a   *)
(* copy of the first one (a publisher repeats a send whose acknowledgement *)
(* it missed); the cache is so small that the second message can push the  *)
(* first one out of it before the copy arrives.                            *)
(***************************************************************************)
EXTENDS KafkaConsumer

CONSTANTS w1, w2, approval, remediation, evt1, evt2

MCLog == <<evt1, evt2, evt1>>
MCIds == {evt1, evt2}
OneService == [w \in {w1, w2} |-> approval]
TwoServices == [w \in {w1, w2} |-> IF w = w1 THEN approval ELSE remediation]
=============================================================================
