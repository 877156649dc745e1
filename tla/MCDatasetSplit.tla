--------------------------- MODULE MCDatasetSplit ---------------------------
(***************************************************************************)
(* Instances of DatasetSplit for TLC.                                      *)
(***************************************************************************)
EXTENDS DatasetSplit

AllTypes == <<"A", "B", "C", "D", "E", "F">>

\* Every type appears twice, so one sign of each is dealt to train and one to
\* val; two images have two signs and two have three, with single-sign images
\* between them.
Mixed == 1 :> <<"B", "C">> @@ 2 :> <<"B", "C">> @@ 3 :> <<"D", "E", "F">>
         @@ 4 :> <<"A">> @@ 5 :> <<"D", "E", "F">> @@ 6 :> <<"A">>
\* The multi-sign images can all be dealt to val, and positions near the end
\* of val go stale.
ValHeavy == 1 :> <<"A", "B">> @@ 2 :> <<"A">> @@ 3 :> <<"B">> @@ 4 :> <<"C">>
            @@ 5 :> <<"C", "D", "E">> @@ 6 :> <<"D">> @@ 7 :> <<"E">>
\* Five signs of one type: round(3.5) + round(1.5) is 6.
FiveOfA == [im \in 1 .. 5 |-> <<"A">>]
\* Shares of unequal size: three signs of four, and two of three, go to train.
FourAndThree == 1 :> <<"A", "B">> @@ 2 :> <<"A">> @@ 3 :> <<"A", "B", "C">>
                @@ 4 :> <<"A">> @@ 5 :> <<"B", "C">> @@ 6 :> <<"C">>
\* One image only.
Single == 1 :> <<"F", "F">>
\* Forty-five signs of one type, in 25 images: round(31.499999999999996) is 31,
\* and with round(13.5) the shares add up.
FortyFiveOfB ==
  [im \in 1 .. 25 |-> CASE im % 5 = 1 -> <<"B", "B", "B">> [] im % 5 = 2 -> <<"B">>
                         [] im % 5 = 3 -> <<"B", "B">> [] im % 5 = 4 -> <<"B">>
                         [] OTHER -> <<"B", "B">>]

MCDatasets == {Mixed, ValHeavy, FourAndThree, FiveOfA, Single, FortyFiveOfB}

\* Any rows come first; of more than eight, some that follow each other when
\* the rows are turned round like a wheel.
Around(R, from, n) ==
  LET place(r) == (3 * r[1] + r[2] + from) % (3 * Cardinality(Images) + 3)
  IN {r \in R : Cardinality({q \in R : place(q) < place(r)}) < n}
MCDraws(R) ==
  IF Cardinality(R) <= 8 THEN SUBSET R
  ELSE {Around(R, from, n) : from \in 1 .. 3 * Cardinality(Images), n \in 0 .. Cardinality(R)}
\* What doubles give.
ASSUME RoundedInDoubles ==
  /\ <<Round70(5), Round70(15), Round70(25), Round70(35)>> = <<4, 11, 18, 25>>
  /\ <<Round70(45), Round70(55), Round70(85), Round70(165)>> = <<31, 39, 59, 115>>
=============================================================================
