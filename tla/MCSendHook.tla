----------------------------- MODULE MCSendHook -----------------------------
(* Model-checking instance of SendHook: sends of one session, with one or   *)
(* two images, some of them the same.                                      *)
EXTENDS SendHook, TLC

CONSTANTS s1, s2, a, b, x, i1, i2, i3

MCSessionOf == [batch \in Batches |-> IF batch = x THEN s2 ELSE s1]
OneSession == [batch \in Batches |-> s1]
MCImagesOf == a :> <<i1, i2>> @@ b :> <<i3>> @@ x :> <<i2>>
=============================================================================
