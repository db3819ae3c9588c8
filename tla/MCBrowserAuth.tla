--------------------------- MODULE MCBrowserAuth ---------------------------
(* Instances of BrowserAuth: two tabs.                                     *)
EXTENDS BrowserAuth

Symmetry == Permutations(Jti) \cup Permutations(Req) \cup Permutations(Tab)

\* A host an hour west of Greenwich, in units of the clock: the row outlives its token,
\* so that in this run no burn is excused by a row that has expired.
West == -1

OneTtl == {2}
=============================================================================
