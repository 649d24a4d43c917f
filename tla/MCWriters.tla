----------------------------- MODULE MCWriters -----------------------------
(* A small instance of the output backends for model checking. *)
EXTENDS WritersProps, TLC

CONSTANTS w1, w2

(* Each kind of backend alone, and two kinds behind a MultiWriter. *)
MCConfigurations ==
  {<<"tcp">>, <<"udp">>, <<"beats">>, <<"serial">>, <<"tcp", "serial">>, <<"udp", "beats">>}

Symmetry == Permutations(Workers)
=============================================================================
