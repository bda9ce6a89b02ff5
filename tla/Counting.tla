-------------------------------- MODULE Counting -------------------------------
(* How often a value is on a list, or on several. *)
EXTENDS Naturals, Sequences, FiniteSets

\* How many elements several sets have: f[k] is the set of k.
SizeAmong(f) == Cardinality(UNION {{k} \X f[k] : k \in DOMAIN f})

\* Where v is on the list, and how often.
Where(list, v) == {i \in DOMAIN list : list[i] = v}
Copies(list, v) == Cardinality(Where(list, v))

\* The same for several lists: h[k] is the list of k.
Spots(h, v) == UNION {{k} \X Where(h[k], v) : k \in DOMAIN h}
CopiesAmong(h, v) == Cardinality(Spots(h, v))
\* The same for the lists of K alone.
CopiesAt(h, K, v) == CopiesAmong([k \in K |-> h[k]], v)

\* How many values are on the lists altogether.
Total(h) == Cardinality(UNION {{k} \X DOMAIN h[k] : k \in DOMAIN h})
================================================================================
