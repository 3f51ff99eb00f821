--------------------------- MODULE DirectoryProofs ---------------------------
(***************************************************************************)
(* Proofs about Directory, for every listing, every first capacity and     *)
(* every allocation that fails.                                            *)
(***************************************************************************)
EXTENDS Directory, SequenceTheorems, WellFoundedInduction, TLAPS

(***************************************************************************)
(* Sums.                                                                   *)
(***************************************************************************)
\* What holds of a number whenever it holds of the one before holds of all.
LEMMA EveryNumber ==
  ASSUME NEW T, 0 \in T, \A n \in Nat : n \in T => n + 1 \in T
  PROVE  \A n \in Nat : n \in T
  <1> SUFFICES ASSUME NEW n \in Nat, n \notin T PROVE FALSE
    OBVIOUS
  <1> DEFINE R == OpToRel(<, Nat)
             Out == {m \in Nat : m \notin T}
  <1>1. IsWellFoundedOn(R, Nat)
    BY NatLessThanWellFounded
  <1>2. \A x, y \in Nat : x < y => <<x, y>> \in R
    BY DEF OpToRel
  <1>3. PICK x \in Out : \A y \in Out : ~(<<y, x>> \in R)
    <2>1. Out \subseteq Nat /\ Out # {}
      OBVIOUS
    <2> HIDE DEF R, Out
    <2> QED
      BY <1>1, <2>1, WFMin
  <1> HIDE DEF R
  <1>4. x \in Nat /\ x # 0 /\ x \notin T
    BY <1>3
  <1>5. x - 1 \in Nat /\ x - 1 < x /\ (x - 1) + 1 = x
    BY <1>4
  <1>6. x - 1 \notin Out
    BY <1>2, <1>3, <1>4, <1>5
  <1> QED
    BY <1>4, <1>5, <1>6

\* f has the sums of the first 0, 1, ... n numbers of d.
IsSum(d, f, n) == f = [i \in 0 .. n |-> IF i = 0 THEN 0 ELSE f[i - 1] + d[i]]

LEMMA SumsExist ==
  ASSUME NEW d, NEW N \in Nat, \A i \in 1 .. N : d[i] \in Nat
  PROVE  \A n \in 0 .. N : \E f \in [0 .. n -> Nat] : IsSum(d, f, n)
  <1> DEFINE T == {n \in Nat : n <= N => \E f \in [0 .. n -> Nat] : IsSum(d, f, n)}
  <1>1. 0 \in T
    <2> DEFINE f == [i \in 0 .. 0 |-> 0]
    <2>1. f \in [0 .. 0 -> Nat] /\ IsSum(d, f, 0)
      BY DEF IsSum
    <2> QED
      BY <2>1
  <1>2. ASSUME NEW n \in Nat, n \in T PROVE n + 1 \in T
    <2> SUFFICES ASSUME n + 1 <= N
                 PROVE  \E f \in [0 .. n + 1 -> Nat] : IsSum(d, f, n + 1)
      OBVIOUS
    <2>1. PICK f \in [0 .. n -> Nat] : IsSum(d, f, n)
      BY <1>2
    <2>2. \A i \in 0 .. n : f[i] = IF i = 0 THEN 0 ELSE f[i - 1] + d[i]
      BY <2>1 DEF IsSum
    <2> DEFINE g == [i \in 0 .. n + 1 |-> IF i = n + 1 THEN f[n] + d[n + 1] ELSE f[i]]
    <2>3. d[n + 1] \in Nat /\ f[n] \in Nat
      <3>1. n + 1 \in 1 .. N
        OBVIOUS
      <3> QED
        BY <2>1, <3>1
    <2>4. g \in [0 .. n + 1 -> Nat]
      BY <2>1, <2>3
    <2>5. ASSUME NEW i \in 0 .. n + 1
          PROVE  g[i] = IF i = 0 THEN 0 ELSE g[i - 1] + d[i]
      <3>1. CASE i = n + 1
        BY <3>1
      <3>2. CASE i \in 0 .. n
        BY <2>2, <3>2
      <3> QED
        BY <3>1, <3>2
    <2>6. IsSum(d, g, n + 1)
      <3>1. DOMAIN g = 0 .. n + 1
        OBVIOUS
      <3> HIDE DEF g
      <3> QED
        BY <2>4, <2>5 DEF IsSum
    <2> QED
      BY <2>4, <2>6
  <1> HIDE DEF T
  <1>3. \A n \in Nat : n \in T
    BY <1>1, <1>2, EveryNumber
  <1>4. ASSUME NEW n \in 0 .. N PROVE \E f \in [0 .. n -> Nat] : IsSum(d, f, n)
    <2>1. n \in T /\ n <= N
      BY <1>3
    <2> QED
      BY <2>1 DEF T
  <1> QED
    BY <1>4

LEMMA SumsAgree ==
  ASSUME NEW d, NEW m \in Nat, NEW n \in Nat, NEW f, NEW g, IsSum(d, f, m), IsSum(d, g, n)
  PROVE  \A i \in Nat : i <= m /\ i <= n => f[i] = g[i]
  <1> DEFINE T == {i \in Nat : i <= m /\ i <= n => f[i] = g[i]}
  <1>f. \A i \in 0 .. m : f[i] = IF i = 0 THEN 0 ELSE f[i - 1] + d[i]
    BY DEF IsSum
  <1>g. \A i \in 0 .. n : g[i] = IF i = 0 THEN 0 ELSE g[i - 1] + d[i]
    BY DEF IsSum
  <1>1. 0 \in T
    BY <1>f, <1>g
  <1>2. ASSUME NEW i \in Nat, i \in T PROVE i + 1 \in T
    <2> SUFFICES ASSUME i + 1 <= m, i + 1 <= n PROVE f[i + 1] = g[i + 1]
      OBVIOUS
    <2>1. f[i + 1] = f[i] + d[i + 1] /\ g[i + 1] = g[i] + d[i + 1]
      BY <1>f, <1>g
    <2> QED
      BY <1>2, <2>1
  <1> HIDE DEF T
  <1>3. \A i \in Nat : i \in T
    BY <1>1, <1>2, EveryNumber
  <1> QED
    BY <1>3 DEF T

\* One number more.
LEMMA TotalFacts ==
  ASSUME NEW d, NEW N \in Nat, \A i \in 1 .. N : d[i] \in Nat
  PROVE  /\ Total(d, 0) = 0
         /\ \A n \in 0 .. N : Total(d, n) \in Nat
         /\ \A n \in 1 .. N : Total(d, n) = Total(d, n - 1) + d[n]
  <1> DEFINE F(n) == CHOOSE f : IsSum(d, f, n)
  <1>1. ASSUME NEW n PROVE Total(d, n) = F(n)[n]
    BY DEF Total, IsSum
  <1>2. ASSUME NEW n \in 0 .. N PROVE IsSum(d, F(n), n) /\ F(n)[n] \in Nat
    <2>1. PICK f \in [0 .. n -> Nat] : IsSum(d, f, n)
      BY SumsExist
    <2>2. IsSum(d, F(n), n)
      BY <2>1
    <2> HIDE DEF F
    <2>3. F(n)[n] = f[n]
      BY <2>1, <2>2, SumsAgree
    <2> QED
      BY <2>1, <2>2, <2>3
  <1> HIDE DEF F
  <1>3. Total(d, 0) = 0
    <2>1. 0 \in 0 .. N
      OBVIOUS
    <2>2. IsSum(d, F(0), 0) /\ Total(d, 0) = F(0)[0]
      BY <1>1, <1>2, <2>1
    <2>3. F(0)[0] = 0
      BY <2>2 DEF IsSum
    <2> QED
      BY <2>2, <2>3
  <1>4. ASSUME NEW n \in 1 .. N PROVE Total(d, n) = Total(d, n - 1) + d[n]
    <2>1. n \in 0 .. N /\ n - 1 \in 0 .. N /\ n # 0
      OBVIOUS
    <2>2. IsSum(d, F(n), n) /\ IsSum(d, F(n - 1), n - 1)
      BY <1>2, <2>1
    <2>3. F(n)[n] = F(n)[n - 1] + d[n]
      BY <2>1, <2>2 DEF IsSum
    <2>4. F(n)[n - 1] = F(n - 1)[n - 1]
      <3>1. n \in Nat /\ n - 1 \in Nat /\ n - 1 <= n /\ n - 1 <= n - 1
        OBVIOUS
      <3> QED
        BY <2>2, <3>1, SumsAgree
    <2> QED
      BY <1>1, <2>3, <2>4
  <1> QED
    BY <1>1, <1>2, <1>3, <1>4

\* Later sums are larger.
LEMMA TotalGrows ==
  ASSUME NEW d, NEW N \in Nat, \A i \in 1 .. N : d[i] \in Nat
  PROVE  \A m, n \in 0 .. N : m <= n => Total(d, m) <= Total(d, n)
  <1> SUFFICES ASSUME NEW m \in 0 .. N
               PROVE  \A n \in 0 .. N : m <= n => Total(d, m) <= Total(d, n)
    OBVIOUS
  <1> DEFINE T == {k \in Nat : m + k <= N => Total(d, m) <= Total(d, m + k)}
  <1>1. 0 \in T
    <2>1. Total(d, m) \in Nat /\ m + 0 = m
      BY TotalFacts
    <2> QED
      BY <2>1
  <1>2. ASSUME NEW k \in Nat, k \in T PROVE k + 1 \in T
    <2> SUFFICES ASSUME m + (k + 1) <= N PROVE Total(d, m) <= Total(d, m + (k + 1))
      OBVIOUS
    <2>1. m + (k + 1) \in 1 .. N /\ (m + (k + 1)) - 1 = m + k /\ m + k \in 0 .. N
      OBVIOUS
    <2>2. Total(d, m + (k + 1)) = Total(d, m + k) + d[m + (k + 1)]
      BY <2>1, TotalFacts
    <2>3. Total(d, m) \in Nat /\ Total(d, m + k) \in Nat /\ d[m + (k + 1)] \in Nat
      BY <2>1, TotalFacts
    <2>4. Total(d, m) <= Total(d, m + k)
      BY <1>2, <2>1
    <2> QED
      BY <2>2, <2>3, <2>4
  <1> HIDE DEF T
  <1>3. \A k \in Nat : k \in T
    BY <1>1, <1>2, EveryNumber
  <1>4. ASSUME NEW n \in 0 .. N, m <= n PROVE Total(d, m) <= Total(d, n)
    <2>1. n - m \in Nat /\ m + (n - m) = n
      BY <1>4
    <2>2. n - m \in T
      BY <1>3, <2>1
    <2> QED
      BY <2>1, <2>2 DEF T
  <1> QED
    BY <1>4

-----------------------------------------------------------------------------
(***************************************************************************)
(* The array and its names.                                                *)
(***************************************************************************)
\* The array is a sequence with its names, in a buffer that is large enough: the
\* growth test makes room for one more.  Between two calls there is no array.
NamesInv ==
  /\ \E S : result \in Seq(S)
  /\ capacity \in Nat
  /\ pc = "idle" => result = <<>>
  /\ NamesOwned

\* One entry more, and the capacity after the growth test.
LEMMA OneMore ==
  ASSUME NamesInv, NEW e, result' = Append(result, e), capacity' = Grown,
         names' = names + 1, pc' # "idle"
  PROVE  NamesInv'
  <1>1. PICK S : result \in Seq(S)
    BY DEF NamesInv
  <1>2. result \in Seq(S \union {e})
    <2>1. result \in [1 .. Len(result) -> S] /\ Len(result) \in Nat
      BY <1>1, LenProperties
    <2>2. result \in [1 .. Len(result) -> S \union {e}]
      BY <2>1
    <2> QED
      BY <2>1, <2>2, SeqDef
  <1>3. result' \in Seq(S \union {e}) /\ Len(result') = Len(result) + 1
    BY <1>2, AppendProperties
  <1>4. Len(result) \in Nat /\ names = Len(result) /\ Len(result) <= capacity /\ capacity \in Nat
    BY <1>1, LenProperties DEF NamesInv, NamesOwned
  <1>5. Grown \in Nat /\ Len(result) + 1 <= Grown
    BY <1>4, DirectorySizes DEF Grown
  <1> QED
    BY <1>3, <1>4, <1>5 DEF NamesInv, NamesOwned

\* The names are freed with the array.
LEMMA AllFreed ==
  ASSUME NamesInv, result' = <<>>, capacity' = 0, names' = names - Len(result)
  PROVE  NamesInv'
  <1>1. Len(result) \in Nat /\ names = Len(result)
    BY LenProperties DEF NamesInv, NamesOwned
  <1>2. result' \in Seq({}) /\ Len(result') = 0
    BY EmptySeq
  <1> QED
    BY <1>1, <1>2 DEF NamesInv, NamesOwned

LEMMA NamesNext == NamesInv /\ [Next]_vars => NamesInv'
  <1> SUFFICES ASSUME NamesInv, [Next]_vars PROVE NamesInv'
    OBVIOUS
  <1>1. CASE Header \/ EndOfData \/ UNCHANGED vars
    <2>1. UNCHANGED <<result, capacity, names>> /\ (pc' = "idle" => pc = "idle")
      BY <1>1 DEF Header, EndOfData, vars
    <2> QED
      BY <2>1 DEF NamesInv, NamesOwned
  <1>2. CASE ParseEntry
    BY <1>2, OneMore DEF ParseEntry
  <1>3. CASE BadDir \/ NoMemory \/ NoData
    BY <1>3, AllFreed DEF BadDir, NoMemory, NoData, Abort
  <1>4. CASE Free
    BY <1>4, AllFreed DEF Free
  <1>5. CASE Read
    <2>1. names - Len(result) = names
      BY <1>5, EmptySeq DEF Read, NamesInv, NamesOwned
    <2> QED
      BY <1>5, <2>1, AllFreed DEF Read
  <1> QED
    BY <1>1, <1>2, <1>3, <1>4, <1>5 DEF Next

\* Whatever allocation fails, and wherever a listing is cut, no name is lost or
\* freed twice, and no entry is written behind the array (sqfs_dir_read,
\* sqfs_dirent_free).
THEOREM NamesCorrect == Spec => []NamesOwned
  <1>1. Init => NamesInv
    <2> SUFFICES ASSUME Init PROVE NamesInv
      OBVIOUS
    <2>1. result \in Seq({}) /\ Len(result) = 0
      BY EmptySeq DEF Init
    <2> QED
      BY <2>1 DEF Init, NamesInv, NamesOwned
  <1> QED
    BY <1>1, NamesNext, PTL DEF Spec, NamesInv

-----------------------------------------------------------------------------
(***************************************************************************)
(* The listing.                                                            *)
(***************************************************************************)
\* Every inode number of a run is one below 2^31 plus an offset, and a word.  Of
\* others the code makes a different number (README, section 6).
NumbersFit ==
  \A l \in Listings : \A r \in DOMAIN l :
    /\ l[r].base < WORD \div 2
    /\ \A i \in DOMAIN l[r].entries : l[r].base + l[r].entries[i].delta \in 0 .. WORD - 1

\* Where the listing goes on after i entries of run r.
At(l, r, i) == Total(RunSizes(l), r - 1) + HEADER_BYTES + Total(EntrySizes(l[r]), i)

\* How many entries of the present run have been parsed.
Taken == Counts(listing)[run] - left

Place ==
  /\ run = 0 => left = 0 /\ ptr = 0 /\ Len(result) = 0
  /\ run > 0 => /\ left \in 0 .. Counts(listing)[run]
                /\ ptr = At(listing, run, Taken)
                /\ Len(result) = Total(Counts(listing), run - 1) + Taken

SoFar ==
  \A r \in 1 .. run : \A i \in DOMAIN listing[r].entries :
    (r = run => i <= Taken) =>
      result[Total(Counts(listing), r - 1) + i] = Meant(listing[r], listing[r].entries[i])

\* Where the parser is, and what it has.
ListInv ==
  /\ listing \in Listings
  /\ pc \in {"idle", "runs", "done"} /\ (pc # "done" => ret = "ok")
  /\ pc = "runs" =>
       /\ run \in 0 .. Len(listing) /\ size = DirSize(kind, DiskSize(listing))
       /\ Place /\ SoFar
  /\ ListingComplete

LEMMA EntryLayout ==
  ASSUME listing \in Listings, NEW r \in 1 .. Len(listing)
  PROVE  LET n == Len(listing[r].entries) IN
         /\ n \in Nat /\ Counts(listing)[r] = n /\ DOMAIN listing[r].entries = 1 .. n
         /\ \A i \in 1 .. n : EntrySizes(listing[r])[i] = EntryBytes(listing[r].entries[i])
         /\ \A i \in 1 .. n : EntrySizes(listing[r])[i] \in Nat
         /\ RunSizes(listing)[r] = HEADER_BYTES + Total(EntrySizes(listing[r]), n)
         /\ Total(EntrySizes(listing[r]), n) \in Nat
  <1> DEFINE n == Len(listing[r].entries)
  <1>1. DOMAIN listing = 1 .. Len(listing)
    BY ListingTypes
  <1>2. /\ n \in Nat /\ DOMAIN listing[r].entries = 1 .. n
        /\ \A i \in 1 .. n : listing[r].entries[i].len \in Nat
    BY <1>1, ListingTypes
  <1>3. \A i \in 1 .. n : EntrySizes(listing[r])[i] = EntryBytes(listing[r].entries[i])
    BY <1>2 DEF EntrySizes
  <1>4. \A i \in 1 .. n : EntrySizes(listing[r])[i] \in Nat
    BY <1>2, <1>3, DirectorySizes DEF EntryBytes
  <1>5. Total(EntrySizes(listing[r]), n) \in Nat
    <2>1. n \in Nat /\ n \in 0 .. n
      BY <1>2
    <2> HIDE DEF n
    <2> QED
      BY <1>4, <2>1, TotalFacts
  <1> QED
    BY <1>1, <1>2, <1>3, <1>4, <1>5 DEF Counts, RunSizes, RunBytes

LEMMA RunLayout ==
  ASSUME listing \in Listings
  PROVE  /\ Len(listing) \in Nat /\ DOMAIN listing = 1 .. Len(listing)
         /\ \A r \in 1 .. Len(listing) : RunSizes(listing)[r] \in Nat /\ Counts(listing)[r] \in Nat
  <1>1. Len(listing) \in Nat /\ DOMAIN listing = 1 .. Len(listing)
    BY ListingTypes
  <1>2. ASSUME NEW r \in 1 .. Len(listing)
        PROVE  RunSizes(listing)[r] \in Nat /\ Counts(listing)[r] \in Nat
    <2>1. /\ Len(listing[r].entries) \in Nat /\ Counts(listing)[r] = Len(listing[r].entries)
          /\ RunSizes(listing)[r]
               = HEADER_BYTES + Total(EntrySizes(listing[r]), Len(listing[r].entries))
          /\ Total(EntrySizes(listing[r]), Len(listing[r].entries)) \in Nat
      BY EntryLayout
    <2> QED
      BY <2>1, DirectorySizes
  <1> QED
    BY <1>1, <1>2

\* A run is through when all of its entries are.
LEMMA RunEnds ==
  ASSUME listing \in Listings, NEW r \in 1 .. Len(listing)
  PROVE  At(listing, r, Counts(listing)[r]) = Total(RunSizes(listing), r)
  <1>0. Len(listing) \in Nat /\ \A q \in 1 .. Len(listing) : RunSizes(listing)[q] \in Nat
    BY RunLayout
  <1>1. Total(RunSizes(listing), r) = Total(RunSizes(listing), r - 1) + RunSizes(listing)[r]
    BY <1>0, TotalFacts
  <1>2. Total(RunSizes(listing), r - 1) \in Nat
    <2>1. r - 1 \in 0 .. Len(listing)
      BY RunLayout
    <2> QED
      BY <1>0, <2>1, TotalFacts
  <1> QED
    BY <1>1, <1>2, EntryLayout, DirectorySizes DEF At

\* Between two runs.
LEMMA BetweenRuns ==
  ASSUME ListInv, InRuns
  PROVE  ptr = Total(RunSizes(listing), run) /\ Len(result) = Total(Counts(listing), run)
  <1>1. CASE run = 0
    BY <1>1, RunLayout, TotalFacts DEF ListInv, InRuns, Place
  <1>2. CASE run > 0
    <2>1. run \in 1 .. Len(listing) /\ listing \in Listings
      BY <1>2, RunLayout DEF ListInv, InRuns
    <2>2. Taken = Counts(listing)[run] /\ Counts(listing)[run] \in Nat
      BY <2>1, RunLayout DEF InRuns, Taken
    <2>3. Total(Counts(listing), run) = Total(Counts(listing), run - 1) + Counts(listing)[run]
      BY <2>1, RunLayout, TotalFacts
    <2> QED
      BY <1>2, <2>1, <2>2, <2>3, RunEnds DEF ListInv, InRuns, Place
  <1> QED
    BY <1>1, <1>2, RunLayout DEF ListInv, InRuns

\* The size in memory is that of the listing, or three more.
LEMMA SizeFacts ==
  ASSUME listing \in Listings
  PROVE  /\ ListingBytes(listing) \in Nat
         /\ DirSize(kind, DiskSize(listing)) \in Nat
         /\ ListingBytes(listing) <= DirSize(kind, DiskSize(listing))
         /\ kind = "dir" => DirSize(kind, DiskSize(listing)) = ListingBytes(listing)
  <1>0. /\ Len(listing) \in Nat /\ Len(listing) \in 0 .. Len(listing)
        /\ \A q \in 1 .. Len(listing) : RunSizes(listing)[q] \in Nat
    BY RunLayout
  <1>1. ListingBytes(listing) \in Nat
    BY <1>0, TotalFacts DEF ListingBytes
  <1> QED
    BY <1>1 DEF DirSize, DiskSize

\* A run that is not through has all of its bytes in the listing.
LEMMA RunFits ==
  ASSUME listing \in Listings, NEW r \in 1 .. Len(listing)
  PROVE  /\ Total(RunSizes(listing), r) <= ListingBytes(listing)
         /\ Total(RunSizes(listing), r) \in Nat /\ Total(RunSizes(listing), r - 1) \in Nat
         /\ Total(RunSizes(listing), r - 1) + HEADER_BYTES <= Total(RunSizes(listing), r)
  <1>0. /\ Len(listing) \in Nat /\ Len(listing) \in 0 .. Len(listing)
        /\ r \in 0 .. Len(listing) /\ r - 1 \in 0 .. Len(listing) /\ r <= Len(listing)
        /\ \A q \in 1 .. Len(listing) : RunSizes(listing)[q] \in Nat
    BY RunLayout
  <1>1. Total(RunSizes(listing), r) <= ListingBytes(listing)
    BY <1>0, TotalGrows DEF ListingBytes
  <1>2. Total(RunSizes(listing), r) \in Nat /\ Total(RunSizes(listing), r - 1) \in Nat
    BY <1>0, TotalFacts
  <1>3. Total(RunSizes(listing), r) = Total(RunSizes(listing), r - 1) + RunSizes(listing)[r]
    BY <1>0, TotalFacts
  <1> QED
    BY <1>1, <1>2, <1>3, EntryLayout, DirectorySizes

\* The next entry of a run lies in it.
LEMMA EntryFits ==
  ASSUME listing \in Listings, NEW r \in 1 .. Len(listing), NEW i \in 1 .. Counts(listing)[r]
  PROVE  /\ At(listing, r, i) = At(listing, r, i - 1) + EntryBytes(listing[r].entries[i])
         /\ At(listing, r, i) <= Total(RunSizes(listing), r)
         /\ At(listing, r, i) \in Nat /\ At(listing, r, i - 1) \in Nat
         /\ EntryBytes(listing[r].entries[i]) \in Nat
  <1> DEFINE d == EntrySizes(listing[r])
             n == Counts(listing)[r]
  <1>1. n \in Nat /\ \A j \in 1 .. n : d[j] \in Nat /\ d[j] = EntryBytes(listing[r].entries[j])
    BY EntryLayout
  <1>2. i \in 0 .. n /\ i - 1 \in 0 .. n /\ n \in 0 .. n /\ i <= n
    BY <1>1
  <1> HIDE DEF d, n
  <1>3. Total(d, i) = Total(d, i - 1) + d[i] /\ Total(d, i) <= Total(d, n)
    <2>1. i \in 1 .. n
      BY DEF n
    <2> QED
      BY <1>1, <1>2, <2>1, TotalFacts, TotalGrows
  <1>4. Total(d, i) \in Nat /\ Total(d, i - 1) \in Nat /\ Total(d, n) \in Nat
    BY <1>1, <1>2, TotalFacts
  <1> DEFINE before == Total(RunSizes(listing), r - 1)
             step == EntryBytes(listing[r].entries[i])
  <1>5. before \in Nat /\ HEADER_BYTES \in Nat
    BY RunFits, DirectorySizes
  <1>6. /\ At(listing, r, i) = before + HEADER_BYTES + Total(d, i)
        /\ At(listing, r, i - 1) = before + HEADER_BYTES + Total(d, i - 1)
        /\ At(listing, r, n) = before + HEADER_BYTES + Total(d, n)
    BY DEF At, d
  <1>7. At(listing, r, n) = Total(RunSizes(listing), r)
    BY RunEnds DEF n
  <1>8. d[i] = step /\ d[i] \in Nat
    <2>1. i \in 1 .. n
      BY DEF n
    <2> QED
      BY <1>1, <2>1
  <1> HIDE DEF before, step, At
  <1> DEFINE u == Total(d, i)
             v == Total(d, i - 1)
             w == Total(d, n)
  <1>9. u \in Nat /\ v \in Nat /\ w \in Nat /\ step \in Nat /\ u = v + step /\ u <= w
    BY <1>3, <1>4, <1>8
  <1> HIDE DEF u, v, w
  <1>10. /\ before + HEADER_BYTES + u = before + HEADER_BYTES + v + step
         /\ before + HEADER_BYTES + u <= before + HEADER_BYTES + w
         /\ before + HEADER_BYTES + u \in Nat /\ before + HEADER_BYTES + v \in Nat
    BY <1>5, <1>9
  <1> QED
    BY <1>6, <1>7, <1>9, <1>10 DEF u, v, w, step

\* What is said of the listing stays.
LEMMA SameListing ==
  ASSUME UNCHANGED input
  PROVE  /\ listing' = listing /\ kind' = kind /\ size' = size
         /\ DirSize(kind, DiskSize(listing))' = DirSize(kind, DiskSize(listing))
         /\ WellFormed' = WellFormed
  BY DEF input, RunSizes, RunBytes, EntrySizes, DirSize, DiskSize, ListingBytes, WellFormed

LEMMA HeaderStep == ASSUME ListInv, Header PROVE ListInv'
  <1> DEFINE R == run + 1
  <1>1. /\ pc = "runs" /\ InRuns /\ pc' = pc /\ ret' = ret /\ ret = "ok" /\ result' = result
        /\ run' = R /\ ptr' = ptr + HEADER_BYTES /\ left' = Len(listing[R].entries)
        /\ run \in 0 .. Len(listing) /\ run < Len(listing) /\ listing \in Listings
        /\ size = DirSize(kind, DiskSize(listing)) /\ Place /\ SoFar /\ UNCHANGED input
    BY DEF ListInv, Header, InRuns
  <1>2. R \in 1 .. Len(listing) /\ R \in Nat /\ R > 0 /\ R - 1 = run
    BY <1>1, RunLayout
  <1> HIDE DEF R
  <1>3. /\ Counts(listing)[R] \in Nat /\ Counts(listing)[R] = Len(listing[R].entries)
        /\ left' = Counts(listing)[R]
    BY <1>1, <1>2, EntryLayout
  <1>s. listing' = listing
    BY <1>1, SameListing
  <1>4. Taken' = 0
    <2>1. Taken' = Counts(listing')[run'] - left'
      BY DEF Taken
    <2> QED
      BY <1>1, <1>3, <1>s, <2>1
  <1>5. ptr' = At(listing, R, 0)
    <2>1. Total(EntrySizes(listing[R]), 0) = 0
      <3>1. /\ Len(listing[R].entries) \in Nat
            /\ \A j \in 1 .. Len(listing[R].entries) : EntrySizes(listing[R])[j] \in Nat
        BY <1>1, <1>2, EntryLayout
      <3> QED
        BY <3>1, TotalFacts
    <2>2. ptr = Total(RunSizes(listing), R - 1) /\ Total(RunSizes(listing), R - 1) \in Nat
      BY <1>1, <1>2, BetweenRuns, RunFits
    <2> QED
      BY <1>1, <2>1, <2>2, DirectorySizes DEF At
  <1>6. Len(result) = Total(Counts(listing), R - 1) + 0
    <2>1. Len(result) = Total(Counts(listing), R - 1)
      BY <1>1, <1>2, BetweenRuns
    <2>2. Total(Counts(listing), R - 1) \in Nat
      <3>1. R - 1 \in 0 .. Len(listing)
        BY <1>1, <1>2
      <3> QED
        BY <1>1, <3>1, RunLayout, TotalFacts
    <2> QED
      BY <2>1, <2>2
  <1>7. Place'
    <2>1. /\ ptr' = At(listing', run', Taken')
          /\ Len(result') = Total(Counts(listing'), run' - 1) + Taken'
      BY <1>1, <1>4, <1>5, <1>6, SameListing
    <2>2. left' \in 0 .. Counts(listing')[run'] /\ run' > 0
      BY <1>1, <1>2, <1>3, <1>s
    <2> QED
      BY <2>1, <2>2 DEF Place
  <1>8. SoFar'
    <2> SUFFICES ASSUME NEW r \in 1 .. R, NEW i \in DOMAIN listing[r].entries, r = R => i <= 0
                 PROVE  result[Total(Counts(listing), r - 1) + i]
                          = Meant(listing[r], listing[r].entries[i])
      BY <1>1, <1>4, SameListing DEF SoFar
    <2>1. r \in 1 .. Len(listing)
      BY <1>1, <1>2
    <2>2. i \in 1 .. Counts(listing)[r] /\ Counts(listing)[r] \in Nat
      BY <1>1, <2>1, EntryLayout
    <2>3. r \in 1 .. run
      BY <1>1, <1>2, <2>2
    <2>4. r = run => i <= Taken
      BY <1>1, <2>2 DEF Taken, InRuns
    <2> QED
      BY <1>1, <2>3, <2>4 DEF SoFar
  <1> QED
    BY <1>1, <1>2, <1>7, <1>8, SameListing DEF ListInv, ListingComplete

\* The number the code makes of a run's base and an entry's offset.
LEMMA NumberMeant ==
  ASSUME NumbersFit, listing \in Listings, NEW r \in DOMAIN listing,
         NEW i \in DOMAIN listing[r].entries
  PROVE  InodeNumber(listing[r].base, listing[r].entries[i].delta)
           = listing[r].base + listing[r].entries[i].delta
  <1> DEFINE b == listing[r].base
             x == listing[r].base + listing[r].entries[i].delta
  <1>1. b < WORD \div 2 /\ x \in 0 .. WORD - 1
    BY DEF NumbersFit
  <1>2. b \in Nat /\ WORD \in Nat \ {0}
    BY ListingTypes, DirectorySizes
  <1>3. AsInt(b) = b
    <2>1. WORD \div 2 \in Int
      BY <1>2
    <2> HIDE DEF b
    <2> QED
      BY <1>1, <1>2, <2>1 DEF AsInt
  <1>4. InodeNumber(b, listing[r].entries[i].delta) = x % (WORD * WORD)
    BY <1>3 DEF InodeNumber
  <1> HIDE DEF b, x
  <1>5. WORD * WORD \in Nat \ {0} /\ WORD <= WORD * WORD
    <2>1. WORD - 1 \in Nat /\ WORD * WORD = WORD + WORD * (WORD - 1)
      BY <1>2
    <2>2. WORD * (WORD - 1) \in Nat
      BY <1>2, <2>1
    <2> HIDE DEF x
    <2> QED
      BY <1>2, <2>1, <2>2
  <1>6. x % (WORD * WORD) = x
    <2> DEFINE W == WORD * WORD
    <2>1. W \in Nat \ {0} /\ x \in Nat /\ x < W
      BY <1>1, <1>2, <1>5
    <2> HIDE DEF W
    <2>2. x % W = x
      BY <2>1
    <2> QED
      BY <2>2 DEF W
  <1> QED
    BY <1>4, <1>6 DEF b, x

\* What the parser knows in the middle of a run.
LEMMA InARun ==
  ASSUME ListInv, pc = "runs", left > 0
  PROVE  /\ listing \in Listings /\ run \in 1 .. Len(listing) /\ run > 0
         /\ Len(listing) \in Nat
         /\ Taken \in Nat /\ Taken + 1 \in 1 .. Counts(listing)[run]
         /\ Counts(listing)[run] = Len(listing[run].entries)
         /\ Counts(listing)[run] \in Nat /\ left \in Nat /\ left <= Counts(listing)[run]
         /\ DOMAIN listing[run].entries = 1 .. Counts(listing)[run]
         /\ Entry = listing[run].entries[Taken + 1]
         /\ ptr = At(listing, run, Taken)
         /\ Len(result) = Total(Counts(listing), run - 1) + Taken
         /\ size = DirSize(kind, DiskSize(listing)) /\ ret = "ok" /\ SoFar
  <1>1. /\ listing \in Listings /\ Place /\ SoFar /\ run \in 0 .. Len(listing)
        /\ size = DirSize(kind, DiskSize(listing)) /\ ret = "ok"
    BY DEF ListInv
  <1>2. Len(listing) \in Nat
    BY <1>1, RunLayout
  <1>3. run \in 1 .. Len(listing) /\ run > 0
    BY <1>1, <1>2 DEF Place
  <1>4. /\ Counts(listing)[run] = Len(listing[run].entries) /\ Counts(listing)[run] \in Nat
        /\ DOMAIN listing[run].entries = 1 .. Counts(listing)[run]
    BY <1>1, <1>3, EntryLayout
  <1>5. left \in 0 .. Counts(listing)[run]
    BY <1>1, <1>3 DEF Place
  <1>6. /\ Taken \in Nat /\ Taken + 1 \in 1 .. Counts(listing)[run]
        /\ left \in Nat /\ left <= Counts(listing)[run]
    BY <1>4, <1>5 DEF Taken
  <1>7. Entry = listing[run].entries[Taken + 1]
    BY <1>4 DEF Entry, Taken
  <1> QED
    BY <1>1, <1>2, <1>3, <1>4, <1>6, <1>7 DEF Place

\* Room for the entries of the runs before, and of this one.
LEMMA Earlier ==
  ASSUME listing \in Listings, NEW q \in 1 .. Len(listing), NEW t \in 0 .. Counts(listing)[q],
         NEW r \in 1 .. q, NEW i \in 1 .. Counts(listing)[r], r = q => i <= t
  PROVE  Total(Counts(listing), r - 1) + i \in 1 .. Total(Counts(listing), q - 1) + t
  <1> DEFINE C == Counts(listing)
  <1>1. Len(listing) \in Nat /\ \A j \in 1 .. Len(listing) : C[j] \in Nat
    BY RunLayout
  <1> DEFINE N == Len(listing)
  <1>2. /\ r \in 1 .. N /\ r \in 0 .. N /\ r - 1 \in 0 .. N /\ q - 1 \in 0 .. N
        /\ C[r] \in Nat /\ C[q] \in Nat /\ t \in Nat /\ i \in Nat /\ i >= 1 /\ i <= C[r]
    BY <1>1
  <1> HIDE DEF C, N
  <1>3. /\ Total(C, r) = Total(C, r - 1) + C[r]
        /\ Total(C, r - 1) \in Nat /\ Total(C, q - 1) \in Nat /\ Total(C, r) \in Nat
    BY <1>1, <1>2, TotalFacts DEF N
  <1>4. CASE r = q
    BY <1>2, <1>3, <1>4 DEF C
  <1>5. CASE r # q
    <2>1. r <= q - 1
      BY <1>1, <1>5 DEF N
    <2>2. Total(C, r) <= Total(C, q - 1)
      BY <1>1, <1>2, <2>1, TotalGrows DEF N
    <2> DEFINE x == Total(C, r - 1)
               y == Total(C, q - 1)
               c == C[r]
    <2>3. /\ x \in Nat /\ y \in Nat /\ c \in Nat /\ x + c <= y
          /\ t \in Nat /\ i \in Nat /\ i >= 1 /\ i <= c
      BY <1>2, <1>3, <2>2
    <2> HIDE DEF x, y, c
    <2>4. x + i \in 1 .. y + t
      BY <2>3
    <2> QED
      BY <2>4 DEF x, y, C
  <1> QED
    BY <1>4, <1>5

LEMMA ParseStep == ASSUME NumbersFit, ListInv, NamesInv, ParseEntry PROVE ListInv'
  <1> DEFINE T == Taken + 1
             L == listing
  <1>1. /\ pc = "runs" /\ left > 0 /\ pc' = pc /\ ret' = ret /\ run' = run
        /\ left' = left - 1 /\ ptr' = ptr + EntryBytes(Entry)
        /\ result' = Append(result, Parsed(Entry)) /\ UNCHANGED input
    BY DEF ParseEntry
  <1>2. /\ L \in Listings /\ run \in 1 .. Len(L) /\ run > 0 /\ Len(L) \in Nat
        /\ Taken \in Nat /\ T \in 1 .. Counts(L)[run]
        /\ Counts(L)[run] \in Nat /\ left \in Nat /\ left <= Counts(L)[run]
        /\ Entry = L[run].entries[T] /\ ptr = At(L, run, Taken)
        /\ DOMAIN L[run].entries = 1 .. Counts(L)[run]
        /\ Len(result) = Total(Counts(L), run - 1) + Taken
        /\ size = DirSize(kind, DiskSize(L)) /\ ret = "ok" /\ SoFar
    BY <1>1, InARun
  <1>3. Taken' = T
    <2>1. Taken' = Counts(listing')[run'] - left'
      BY DEF Taken
    <2> QED
      BY <1>1, <1>2, <2>1, SameListing DEF Taken
  <1>4. Total(Counts(L), run - 1) \in Nat
    <2>1. run - 1 \in 0 .. Len(L)
      BY <1>2
    <2> QED
      BY <1>2, <2>1, RunLayout, TotalFacts
  <1>5. PICK S : result \in Seq(S)
    BY DEF NamesInv
  <1>6. /\ Len(result') = Len(result) + 1
        /\ \A k \in 1 .. Len(result) : result'[k] = result[k]
        /\ result'[Len(result) + 1] = Parsed(Entry)
    <2>1. result \in Seq(S \union {Parsed(Entry)})
      <3>1. result \in [1 .. Len(result) -> S] /\ Len(result) \in Nat
        BY <1>5, LenProperties
      <3>2. result \in [1 .. Len(result) -> S \union {Parsed(Entry)}]
        BY <3>1
      <3> QED
        BY <3>1, <3>2, SeqDef
    <2> QED
      BY <1>1, <2>1, AppendProperties
  <1>7. Parsed(Entry) = Meant(L[run], L[run].entries[T])
    <2>1. InodeNumber(L[run].base, L[run].entries[T].delta) = L[run].base + L[run].entries[T].delta
      BY <1>2, NumberMeant, RunLayout
    <2> QED
      BY <1>2, <2>1 DEF Parsed, Meant
  <1> HIDE DEF T
  <1>8. ptr' = At(L, run, T)
    <2>1. At(L, run, T) = At(L, run, T - 1) + EntryBytes(L[run].entries[T])
      BY <1>2, EntryFits
    <2>2. T - 1 = Taken
      BY <1>2 DEF T
    <2> QED
      BY <1>1, <1>2, <2>1, <2>2
  <1>9. Place'
    <2>1. Len(result') = Total(Counts(L), run - 1) + T
      BY <1>2, <1>4, <1>6 DEF T
    <2>2. left' \in 0 .. Counts(L)[run]
      BY <1>1, <1>2
    <2> QED
      BY <1>1, <1>2, <1>3, <1>8, <2>1, <2>2, SameListing DEF Place
  <1>10. SoFar'
    <2> SUFFICES ASSUME NEW r \in 1 .. run, NEW i \in DOMAIN L[r].entries, r = run => i <= T
                 PROVE  result'[Total(Counts(L), r - 1) + i] = Meant(L[r], L[r].entries[i])
      BY <1>1, <1>3, SameListing DEF SoFar
    <2>1. r \in 1 .. Len(L)
      BY <1>2
    <2>2. i \in 1 .. Counts(L)[r] /\ Counts(L)[r] \in Nat
      BY <1>2, <2>1, EntryLayout
    <2>3. CASE r = run /\ i = T
      <3>1. Total(Counts(L), r - 1) + i = Len(result) + 1
        BY <1>2, <1>4, <2>3 DEF T
      <3> QED
        BY <1>6, <1>7, <2>3, <3>1
    <2>4. CASE r # run \/ i # T
      <3>1. r = run => i <= Taken
        BY <1>2, <2>2, <2>4 DEF T
      <3>2. Taken \in 0 .. Counts(L)[run]
        BY <1>2 DEF T
      <3>3. Total(Counts(L), r - 1) + i \in 1 .. Len(result)
        BY <1>2, <2>2, <3>1, <3>2, Earlier
      <3>4. result[Total(Counts(L), r - 1) + i] = Meant(L[r], L[r].entries[i])
        BY <1>2, <3>1 DEF SoFar
      <3> QED
        BY <1>6, <3>3, <3>4
    <2> QED
      BY <2>3, <2>4
  <1> QED
    BY <1>1, <1>2, <1>9, <1>10, SameListing DEF ListInv, ListingComplete

\* A basic directory is never found to be too short.
LEMMA LongEnough ==
  ASSUME ListInv, kind = "dir"
  PROVE  ~Truncated
  <1>1. ASSUME InRuns, ptr < size, size - ptr < HEADER_BYTES PROVE FALSE
    <2>1. /\ listing \in Listings /\ run \in 0 .. Len(listing) /\ Len(listing) \in Nat
          /\ size = ListingBytes(listing) /\ size \in Nat
      BY <1>1, SizeFacts, RunLayout DEF ListInv, InRuns
    <2>2. ptr = Total(RunSizes(listing), run)
      BY <1>1, BetweenRuns
    <2>3. run # Len(listing)
      BY <1>1, <2>1, <2>2 DEF ListingBytes
    <2>4. run + 1 \in 1 .. Len(listing) /\ (run + 1) - 1 = run
      BY <2>1, <2>3
    <2>5. /\ Total(RunSizes(listing), run + 1) <= size
          /\ Total(RunSizes(listing), run + 1) \in Nat /\ ptr \in Nat
          /\ ptr + HEADER_BYTES <= Total(RunSizes(listing), run + 1)
      BY <2>1, <2>2, <2>4, RunFits
    <2> QED
      BY <1>1, <2>1, <2>5, DirectorySizes
  <1>2. ASSUME pc = "runs", left > 0, size - ptr < EntryBytes(Entry) PROVE FALSE
    <2> DEFINE T == Taken + 1
    <2>1. /\ listing \in Listings /\ run \in 1 .. Len(listing)
          /\ T \in 1 .. Counts(listing)[run] /\ T - 1 = Taken
          /\ Entry = listing[run].entries[T] /\ ptr = At(listing, run, Taken)
          /\ size = ListingBytes(listing) /\ size \in Nat
      BY <1>2, InARun, SizeFacts
    <2> HIDE DEF T
    <2>2. /\ At(listing, run, T) = ptr + EntryBytes(Entry)
          /\ At(listing, run, T) <= Total(RunSizes(listing), run)
          /\ At(listing, run, T) \in Nat /\ ptr \in Nat /\ EntryBytes(Entry) \in Nat
      BY <2>1, EntryFits
    <2>3. Total(RunSizes(listing), run) <= size /\ Total(RunSizes(listing), run) \in Nat
      BY <2>1, RunFits
    <2> DEFINE e == EntryBytes(Entry)
               u == At(listing, run, T)
               w == Total(RunSizes(listing), run)
    <2>4. /\ u = ptr + e /\ u <= w /\ w <= size /\ size - ptr < e
          /\ u \in Nat /\ ptr \in Nat /\ e \in Nat /\ w \in Nat /\ size \in Nat
      BY <1>2, <2>1, <2>2, <2>3
    <2> HIDE DEF e, u, w
    <2> QED
      BY <2>4
  <1> QED
    BY <1>1, <1>2 DEF Truncated

LEMMA BadStep == ASSUME ListInv, BadDir PROVE ListInv'
  <1>1. ret' = "bad_dir" /\ pc' = "done" /\ UNCHANGED input
    BY DEF BadDir, Abort
  <1>2. ASSUME WellFormed, kind = "dir" PROVE FALSE
    <2>1. pc = "runs" /\ left > 0 /\ Entry.type \notin 1 .. 7
      BY <1>2, LongEnough DEF BadDir
    <2>2. /\ Entry = listing[run].entries[Taken + 1] /\ run \in DOMAIN listing
          /\ Taken + 1 \in DOMAIN listing[run].entries
      BY <2>1, InARun, RunLayout
    <2> QED
      BY <1>2, <2>1, <2>2 DEF WellFormed
  <1> QED
    BY <1>1, <1>2, SameListing DEF ListInv, ListingComplete

\* All bytes are consumed only after the last run.
LEMMA EndStep == ASSUME ListInv, EndOfData PROVE ListInv'
  <1>1. /\ InRuns /\ pc = "runs" /\ ptr >= size /\ pc' = "done" /\ ret' = ret /\ ret = "ok"
        /\ result' = result /\ UNCHANGED input
        /\ listing \in Listings /\ run \in 0 .. Len(listing) /\ SoFar
        /\ size = DirSize(kind, DiskSize(listing))
    BY DEF EndOfData, ListInv, InRuns
  <1>2. /\ ptr = Total(RunSizes(listing), run) /\ Len(result) = Total(Counts(listing), run)
    BY <1>1, BetweenRuns
  <1>3. Len(listing) \in Nat /\ DOMAIN listing = 1 .. Len(listing)
    BY <1>1, RunLayout
  <1>4. run = Len(listing)
    <2> SUFFICES ASSUME run # Len(listing) PROVE FALSE
      OBVIOUS
    <2>1. run + 1 \in 1 .. Len(listing) /\ (run + 1) - 1 = run
      <3>1. run \in 0 .. Len(listing) /\ Len(listing) \in Nat
        BY <1>1, <1>3
      <3> QED
        BY <3>1
    <2>2. /\ Total(RunSizes(listing), run + 1) <= ListingBytes(listing)
          /\ Total(RunSizes(listing), run + 1) \in Nat /\ ptr \in Nat
          /\ ptr + HEADER_BYTES <= Total(RunSizes(listing), run + 1)
      BY <1>1, <1>2, <2>1, RunFits
    <2>3. ListingBytes(listing) \in Nat /\ size \in Nat /\ ListingBytes(listing) <= size
      BY <1>1, SizeFacts
    <2> QED
      BY <1>1, <2>2, <2>3, DirectorySizes
  <1>5. Everything
    <2> SUFFICES ASSUME NEW r \in DOMAIN listing, NEW i \in DOMAIN listing[r].entries
                 PROVE  result[Total(Counts(listing), r - 1) + i]
                          = Meant(listing[r], listing[r].entries[i])
      BY <1>2, <1>4 DEF Everything
    <2>1. r \in 1 .. Len(listing) /\ i \in 1 .. Counts(listing)[r]
      BY <1>1, <1>3, EntryLayout
    <2>2. r = run => i <= Taken
      <3>1. left = 0 /\ Counts(listing)[r] \in Nat
        BY <1>1, <2>1, RunLayout DEF InRuns
      <3> QED
        BY <2>1, <3>1 DEF Taken
    <2> QED
      BY <1>1, <1>4, <2>1, <2>2 DEF SoFar
  <1>6. Everything'
    BY <1>1, <1>5, SameListing DEF Everything
  <1> QED
    BY <1>1, <1>6, SameListing DEF ListInv, ListingComplete

LEMMA ReadStep == ASSUME ListInv, Read PROVE ListInv'
  <1>1. /\ listing' = listing /\ kind' = kind /\ size' = DirSize(kind, DiskSize(listing))
        /\ ptr' = 0 /\ run' = 0 /\ left' = 0 /\ result' = <<>> /\ pc' = "runs" /\ ret' = "ok"
        /\ listing \in Listings
    BY DEF Read, ListInv
  <1>2. DirSize(kind, DiskSize(listing))' = DirSize(kind, DiskSize(listing))
    BY <1>1 DEF DirSize, DiskSize, ListingBytes, RunSizes, RunBytes, EntrySizes
  <1>3. run' \in 0 .. Len(listing)
    BY <1>1, RunLayout
  <1>4. Len(result') = 0
    BY <1>1, EmptySeq
  <1>5. Place' /\ SoFar'
    BY <1>1, <1>4 DEF Place, SoFar
  <1> QED
    BY <1>1, <1>2, <1>3, <1>5 DEF ListInv, ListingComplete

LEMMA ListNext ==
  ASSUME NumbersFit PROVE ListInv /\ NamesInv /\ [Next]_vars => ListInv'
  <1> SUFFICES ASSUME ListInv, NamesInv, [Next]_vars PROVE ListInv'
    OBVIOUS
  <1>1. CASE NoMemory \/ NoData
    <2>1. pc' = "done" /\ ret' = "no_memory" /\ UNCHANGED input
      BY <1>1 DEF NoMemory, NoData, Abort
    <2> QED
      BY <2>1, SameListing DEF ListInv, ListingComplete
  <1>2. CASE Free
    BY <1>2 DEF Free, ListInv, ListingComplete
  <1>3. CASE UNCHANGED vars
    <2>1. /\ UNCHANGED <<ptr, run, left, result, pc, ret>> /\ UNCHANGED input
          /\ Taken' = Taken
      BY <1>3, SameListing DEF vars, input, Taken, Counts
    <2>2. /\ Place' = Place /\ SoFar' = SoFar /\ Everything' = Everything
      BY <2>1, SameListing DEF Place, SoFar, Everything
    <2>3. ListingComplete' = ListingComplete
      BY <2>1, <2>2, SameListing DEF ListingComplete
    <2> QED
      BY <2>1, <2>2, <2>3, SameListing DEF ListInv
  <1> QED
    BY <1>1, <1>2, <1>3, HeaderStep, ParseStep, BadStep, EndStep, ReadStep DEF Next

\* For every listing whose inode numbers stay below 2^31 before their offset is
\* added: when sqfs_dir_read accepts it, the array has every entry of every run,
\* in order and with its own name, reference, type and inode number; and it
\* accepts every well-formed listing of a basic directory.
THEOREM ListingCorrect == ASSUME NumbersFit PROVE Spec => []ListingComplete
  <1>1. Init => ListInv /\ NamesInv
    <2> SUFFICES ASSUME Init PROVE ListInv /\ NamesInv
      OBVIOUS
    <2>1. result \in Seq({}) /\ Len(result) = 0
      BY EmptySeq DEF Init
    <2> QED
      BY <2>1 DEF Init, ListInv, ListingComplete, NamesInv, NamesOwned
  <1>2. ListInv /\ NamesInv /\ [Next]_vars => ListInv' /\ NamesInv'
    BY ListNext, NamesNext
  <1> QED
    BY <1>1, <1>2, PTL DEF Spec, ListInv

=============================================================================
