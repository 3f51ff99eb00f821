-------------------------------- MODULE Sums --------------------------------
(***************************************************************************)
(* The sum of sizes that lie one behind the other, added up from the first *)
(* as the loop of sqfs_file_block_location does (src/core/data.c).         *)
(***************************************************************************)
EXTENDS Integers

\* d[1] + ... + d[n]
Total(d, n) ==
  LET sum[i \in 0 .. n] == IF i = 0 THEN 0 ELSE sum[i - 1] + d[i]
  IN  sum[n]

=============================================================================
