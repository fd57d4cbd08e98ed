---------------------------- MODULE MCAnomalyModel ----------------------------
(* Sequences with repeated stages, so that one update counts an n-gram     *)
(* twice, of two different shapes in the two models.                       *)
EXTENDS AnomalyModel

Pair(raw, type) == [w \in Which |-> IF w = "raw" THEN raw ELSE type]

MCSamples == {Pair(<<"a">>, <<"a">>),
              Pair(<<"a", "b", "a">>, <<"a", "a", "a">>),
              Pair(<<"a", "b", "a", "b">>, <<"a", "a", "b", "b">>),
              Pair(<<"b", "a">>, <<>>)}
MCScales  == {<<1, 2>>}
===============================================================================
