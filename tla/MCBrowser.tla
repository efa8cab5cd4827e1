----------------------------- MODULE MCBrowser ------------------------------
(* Browser on small parts.                                                  *)
EXTENDS Browser

\* IDs entered by hand: one that fits, one that is too long for the smaller
\* cap, and one the pattern refuses.
HandEntered == {<<"a">>, <<"a", "a", "a">>, <<"-">>}
=============================================================================
