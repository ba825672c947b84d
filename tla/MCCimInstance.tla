--------------------------- MODULE MCCimInstance ---------------------------
(* CimInstance with a filter that lets one property through.               *)
EXTENDS CimInstance, TLC

CONSTANTS n1, n2, i1, i2, p1, p2

OneProperty == {{n1}}
NoKeys == {{}}

\* Nothing tells the instances apart, nor the paths.
Symmetry == Permutations({i1, i2}) \cup Permutations({p1, p2})

============================================================================
