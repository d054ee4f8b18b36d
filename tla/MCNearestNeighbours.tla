-------------------------- MODULE MCNearestNeighbours --------------------------
(* NearestNeighbours with models and queries for TLC.                      *)
EXTENDS NearestNeighbours

Places == {<<0, 0>>, <<0, 8>>, <<3, 13>>, <<9, 3>>, <<12, 16>>, <<16, 8>>, <<16, 16>>}

(* Any movement of up to four points, some that come back to where they    *)
(* started, and a longer one.                                              *)
Line(s) == [i \in 0 .. Len(s) - 1 |-> <<s[i + 1], 0>>]

Returning ==
  {Line(<<0, 16, 9, 13, 16, 2, 1, 0>>), Line(<<3, 3, 3, 12, 16, 16, 3, 3, 3>>),
   Line(<<0, 0, 16, 8, 5, 13, 9, 0, 0>>)}

Longer == {[i \in 0 .. 35 |-> <<i % 17, (7 * i) % 13>>]}

Arrays == UNION {[0 .. n - 1 -> Places] : n \in 2 .. 4} \cup Returning \cup Longer

Asked == {<<0, 0>>, <<1, 12>>, <<9, 8>>}

(* Rounded to a multiple of four.                                          *)
Rounded(x) == 4 * ((x + 1) \div 4)

===============================================================================
