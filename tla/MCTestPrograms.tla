--------------------------- MODULE MCTestPrograms --------------------------
(***************************************************************************)
(* Values for TestPrograms: names with and without the separators, two     *)
(* descriptors whose difference overflows, and the threads of each round.  *)
(***************************************************************************)
EXTENDS TestPrograms, TLC

CONSTANTS w1, w2, c1, c2, c3   (* threads                                  *)

MCNames == {<<>>, <<"a">>, <<"a", "0">>, <<"$">>, <<"a", "#">>}

MCto_string ==
  -3 :> <<"-", "3">> @@ -1 :> <<"-", "1">> @@ 0 :> <<"0">> @@ 2 :> <<"2">>

MCDescriptors == DOMAIN MCto_string

MCcode ==
  "#" :> 0 @@ "$" :> 1 @@ "-" :> 2 @@ "0" :> 3 @@ "1" :> 4 @@ "2" :> 5 @@ "3" :> 6 @@ "a" :> 7

MCSegmentations == {<<0, 2, 1>>, <<1, 0, 2>>, <<3>>}

MCWaits  == <<{w1, w2}, {}, {}>>
MCChecks == <<{c1}, {c2}, {c3}>>
=============================================================================
