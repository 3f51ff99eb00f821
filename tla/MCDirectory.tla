---------------------------- MODULE MCDirectory ----------------------------
(* Instances of Directory for TLC. *)
EXTENDS Directory

CONSTANTS Bases, Types

\* Entries of names of one and two bytes, with offsets to either side of the
\* base number.
MCEntries ==
  {[name |-> n, len |-> IF n = "a" THEN 1 ELSE 2, delta |-> d, offset |-> 5, type |-> ty] :
     n \in {"a", "bb"}, d \in {-1, 1}, ty \in Types}

Upto(S, n) == UNION {[1 .. k -> S] : k \in 1 .. n}

\* No run, one run of up to three entries, or two runs of one.
MCListings ==
  LET Run(b, es) == [base |-> b, start |-> 7, entries |-> es]
  IN  {<<>>}
        \union {<<Run(b, es)>> : b \in Bases, es \in Upto(MCEntries, 3)}
        \union {<<Run(b, es), Run(c, fs)>> :
                  b \in Bases, c \in Bases, es \in Upto(MCEntries, 1), fs \in Upto(MCEntries, 1)}

=============================================================================
