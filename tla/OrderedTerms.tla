----------------------------- MODULE OrderedTerms -----------------------------
(***************************************************************************)
(* The places of a term: a path, the positions to follow from its top.      *)
(***************************************************************************)
EXTENDS Terms, SequencesExt

RECURSIVE At(_, _), Put(_, _, _), Paths(_)

At(x, p) == IF p = <<>> THEN x ELSE At(x.sub[Head(p)], Tail(p))

Put(x, p, y) ==
  IF p = <<>> THEN y
  ELSE [x EXCEPT !.sub[Head(p)] = Put(@, Tail(p), y)]

Paths(x) ==
  {<<>>} \cup UNION {{<<i>> \o p : p \in Paths(x.sub[i])} : i \in DOMAIN x.sub}
=============================================================================
