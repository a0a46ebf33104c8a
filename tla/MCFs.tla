-------------------------------- MODULE MCFs --------------------------------
(***************************************************************************)
(* Model checking of Fs: paths of one and two names.                       *)
(***************************************************************************)
EXTENDS Fs, TLC

A == <<"a">>
B == <<"b">>
AB == <<"a", "b">>

\* The first process makes names, its child uses and removes them.
MCInitRequests ==
  {<<"mkdir", A, <<>>>>, <<"mkdir", AB, <<>>>>, <<"create", AB, <<>>>>, <<"link", AB, B>>}
MCRequests ==
  {<<"unlink", AB, <<>>>>, <<"unlink", A, <<>>>>, <<"unlink", B, <<>>>>, <<"chdir", A, <<>>>>, <<"open", AB, <<>>>>}
====
