----------------------------- MODULE ExtraParams -----------------------------
(***************************************************************************)
(* ProviderParams (llms/providers/internal/extraparams): JSON objects that *)
(* are merged into the body of a request.                                  *)
(*                                                                         *)
(* An object is the function from the paths of its leaves (scalars, arrays *)
(* and null) to their values; objects without fields are left out.  In one *)
(* object no path continues another.                                       *)
(***************************************************************************)
EXTENDS Integers, Sequences

\* One path is the other or leads to it.
Leads(p, q) == Len(p) <= Len(q) /\ p = SubSeq(q, 1, Len(p))
Clash(p, q) == Leads(p, q) \/ Leads(q, p)

\* Merge: objects merge field by field; where either side has a leaf, the
\* value of src replaces what dst had there or below.
Merged(dst, src) ==
    [p \in DOMAIN src \cup {q \in DOMAIN dst : \A r \in DOMAIN src : ~Clash(r, q)} |->
        IF p \in DOMAIN src THEN src[p] ELSE dst[p]]

\* Mutant: only the path itself counts.
OverridesExactly(src, path) == path \in DOMAIN src

\* src sets the path itself, or replaces an object on the way to it.
Overrides(src, path) == \E r \in DOMAIN src : Clash(r, path)
==============================================================================
