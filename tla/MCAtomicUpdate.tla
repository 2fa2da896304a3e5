------------------------- MODULE MCAtomicUpdate -------------------------
(* Locations of two bits for AtomicUpdate. *)
EXTENDS AtomicUpdate

Width == 4  \* values of a location

MCValues == 0..(Width - 1)
MCApply(k, v, a) ==
  CASE k \in {"mul_assignment"} -> (v * a) % Width
    [] k \in {"minus_assignment", "predecrement"} -> (v + Width - a) % Width
    [] OTHER -> (v + a) % Width

Statement(k, l) == [kind |-> k, lhs |-> l, rhs |-> "integral"]

\* int i: i++, i -= e, i *= e.   double d: --d, d += e.   Of a type of no
\* builtin, or with the plain assignment x = x + e: a critical region.
Integer == {Statement(k, "integral") : k \in {"postincrement", "minus_assignment",
                                              "mul_assignment"}}
Floating == {Statement(k, "floating") : k \in {"predecrement", "add_assignment"}}
Regions == {Statement("assignment", "integral"), Statement("add_assignment", "other")}
Apart == {Integer, Floating, Regions}

\* i++ here, i = i + e there.
Mixed == {{Statement("postincrement", "integral"), Statement("assignment", "integral")}}
=============================================================================
