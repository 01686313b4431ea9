--------------------------- MODULE MCRangeDatabase ---------------------------
(* TLC instance of RangeDatabase: all sorted lists of up to MaxLen ranges    *)
(* over the addresses 0 .. MaxIP, inverted ranges included.                  *)
EXTENDS RangeDatabase

CONSTANT MaxLen

MCInputs ==
  {s \in UNION {[1 .. n -> IPRange] : n \in 0 .. MaxLen} : SortedByStart(s)}

\* Without the inverted ranges, and without NoWrap.
MCProperInputs ==
  {s \in MCInputs : \A i \in DOMAIN s : s[i].Start <= s[i].End}

=============================================================================
