------------------------------- MODULE MCRouter -------------------------------
(* Three nodes, the router on the first; the answer of the third is too long.  *)
EXTENDS Router

\* The first call has a single owner, another node, or all; the second call runs
\* beside it on two of the nodes.
Owners == <<{<<3>>, <<2, 3>>, <<1, 2, 3>>}, {<<1, 2>>}>>
Sizes == <<1, 2, 3>>
=============================================================================
