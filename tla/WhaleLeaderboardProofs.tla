----------------------- MODULE WhaleLeaderboardProofs -----------------------
(***************************************************************************)
(* Theorems about WhaleLeaderboard, for any wallets, rankings, holdings,   *)
(* page sizes and reaches, and a server that changes at will.              *)
(***************************************************************************)
EXTENDS WhaleLeaderboard, FiniteSetTheorems, SequenceTheorems, TLAPS

USE DEF vars, server, Goto

(* The bodies of the loops, as FoldTheorems has them.                       *)
AbsorbRow(p, q, a, k) == Absorb(a, q[k])

Loop == INSTANCE FoldTheorems WITH Step <- AbsorbRow, Pick <- Max

AddNth(w, q, a, k) == AddItem(a, w, q[k])

Items == INSTANCE FoldTheorems WITH Step <- AddNth, Pick <- Max

AddNthWallet(results, q, a, k) == AddWallet(results, a, q[k])

Wallets == INSTANCE FoldTheorems WITH Step <- AddNthWallet, Pick <- Max

TaskStates == {"none", "asking", "done", "failed", "cancelled"}

LEMMA Limits ==
    /\ WalletCount \in Nat \ {0} /\ LeaderboardLimit \in Nat \ {0}
    /\ PositionLimit \in Nat \ {0}
    /\ LeaderboardReach \in Nat /\ PositionReach \in Nat
<1>1. \A n \in {WalletCount, LeaderboardLimit, PositionLimit} : n \in Nat \ {0}
  BY ConstantAssumption
<1>2. \A n \in {LeaderboardReach, PositionReach, MaxChanges} : n \in Nat
  BY ConstantAssumption
<1> QED
  BY <1>1, <1>2

---------------------------------------------------------------------------
(* Lists and the ranks of a ranking.                                        *)

(* A list without repetitions has as many members as elements.              *)
LEMMA DistinctElements ==
    ASSUME NEW S, NEW list \in Seq(S),
           \A i, j \in DOMAIN list : list[i] = list[j] => i = j
    PROVE  IsFiniteSet(ToSet(list)) /\ Cardinality(ToSet(list)) = Len(list)
<1>1. Len(list) \in Nat /\ DOMAIN list = 1..Len(list)
  BY LenProperties
<1>2. list \in [1..Len(list) -> ToSet(list)]
  BY <1>1, LenProperties DEF ToSet
<1>3. list \in Bijection(1..Len(list), ToSet(list))
  BY <1>1, <1>2 DEF Bijection, Injection, IsInjective, Surjection, ToSet
<1>4. ExistsBijection(1..Len(list), ToSet(list))
  BY <1>3 DEF ExistsBijection
<1> QED
  BY <1>1, <1>4, FS_NatBijection, FS_CountingElements

LEMMA SeenGrows ==
    ASSUME NEW ranking, NEW n \in Nat
    PROVE  /\ Seen(ranking, 0) = {}
           /\ Seen(ranking, n + 1) = Seen(ranking, n) \cup {WalletOf[ranking[n + 1]]}
<1>1. 1..0 = {} /\ 1..n + 1 = (1..n) \cup {n + 1}
  OBVIOUS
<1> QED
  BY <1>1, Zenon DEF Seen

LEMMA WalletsOfRows ==
    ASSUME NEW ranking \in Seq(Row), NEW i \in DOMAIN ranking
    PROVE  WalletOf[ranking[i]] \in Wallet \cup {NoWallet}
<1>1. ranking[i] \in Row
  BY LenProperties, ElementOfSeq
<1> QED
  BY <1>1, ConstantAssumption

(* How the first n rows of a ranking have been read.                        *)
Ranked(list, ranking, n) ==
    /\ ToSet(list) = Seen(ranking, n)
    /\ \A i \in DOMAIN list : Rank(ranking, list[i]) = i

LEMMA RankedIsDistinct ==
    ASSUME NEW list \in Seq(Wallet), NEW ranking, NEW n, Ranked(list, ranking, n)
    PROVE  /\ IsFiniteSet(Seen(ranking, n)) /\ Cardinality(Seen(ranking, n)) = Len(list)
           /\ \A i, j \in DOMAIN list : list[i] = list[j] => i = j
<1>1. \A i, j \in DOMAIN list : list[i] = list[j] => i = j
  BY DEF Ranked
<1>2. IsFiniteSet(ToSet(list)) /\ Cardinality(ToSet(list)) = Len(list)
  BY <1>1, DistinctElements
<1> QED
  BY <1>1, <1>2 DEF Ranked

LEMMA EmptyIsRanked ==
    ASSUME NEW ranking
    PROVE  Ranked(<<>>, ranking, 0) /\ <<>> \in Seq(Wallet) /\ Len(<<>>) = 0
<1>1. <<>> \in Seq(Wallet) /\ Len(<<>>) = 0
  BY EmptySeq
<1>2. DOMAIN <<>> = {}
  BY <1>1, LenProperties
<1> QED
  BY <1>1, <1>2, SeenGrows DEF Ranked, ToSet

(* A wallet that has not been seen in n rows and is that of the next one    *)
(* ranks after all that have been seen.                                     *)
LEMMA RankOfNext ==
    ASSUME NEW ranking \in Seq(Row), NEW n \in Nat, n < Len(ranking),
           WalletOf[ranking[n + 1]] \notin Seen(ranking, n), IsFiniteSet(Seen(ranking, n))
    PROVE  Rank(ranking, WalletOf[ranking[n + 1]]) = Cardinality(Seen(ranking, n)) + 1
<1> DEFINE w == WalletOf[ranking[n + 1]]
           above == {i \in DOMAIN ranking : \A j \in 1..i - 1 : WalletOf[ranking[j]] # w}
<1>1. Len(ranking) \in Nat /\ DOMAIN ranking = 1..Len(ranking)
  BY LenProperties
<1>2. \A j \in 1..n : WalletOf[ranking[j]] # w
  BY DEF Seen
<1>3. above = 1..n + 1
  <2>1. ASSUME NEW i \in above PROVE i \in 1..n + 1
    <3>1. i \in 1..Len(ranking) /\ (n + 1 \in 1..i - 1 => WalletOf[ranking[n + 1]] # w)
      BY <1>1, <2>1
    <3> QED
      BY <3>1
  <2>2. ASSUME NEW i \in 1..n + 1 PROVE i \in above
    <3>1. i \in DOMAIN ranking /\ \A j \in 1..i - 1 : j \in 1..n
      BY <1>1
    <3> QED
      BY <1>2, <3>1
  <2> QED
    BY <2>1, <2>2
<1>4. {WalletOf[ranking[i]] : i \in above} = Seen(ranking, n) \cup {w}
  <2>1. {WalletOf[ranking[i]] : i \in above} = Seen(ranking, n + 1)
    BY <1>3, Zenon DEF Seen
  <2> QED
    BY <2>1, SeenGrows
<1>5. Cardinality(Seen(ranking, n) \cup {w}) = Cardinality(Seen(ranking, n)) + 1
  BY FS_AddElement
<1> QED
  BY <1>4, <1>5 DEF Rank

(* One more row of a ranking.                                               *)
LEMMA RankedNext ==
    ASSUME NEW ranking \in Seq(Row), NEW n \in Nat, n < Len(ranking),
           NEW list \in Seq(Wallet), Ranked(list, ranking, n),
           NEW w \in Wallet, w = WalletOf[ranking[n + 1]]
    PROVE  IF w \in ToSet(list)
           THEN Ranked(list, ranking, n + 1)
           ELSE /\ Append(list, w) \in Seq(Wallet) /\ Len(Append(list, w)) = Len(list) + 1
                /\ Ranked(Append(list, w), ranking, n + 1)
<1>1. Seen(ranking, n + 1) = ToSet(list) \cup {w}
  BY SeenGrows DEF Ranked
<1>2. CASE w \in ToSet(list)
  BY <1>1, <1>2 DEF Ranked
<1>3. CASE w \notin ToSet(list)
  <2> DEFINE more == Append(list, w)
  <2>1. /\ more \in Seq(Wallet) /\ Len(more) = Len(list) + 1
        /\ \A i \in 1..Len(list) : more[i] = list[i]
        /\ more[Len(list) + 1] = w
    BY AppendProperties
  <2> HIDE DEF more
  <2>2. /\ Len(list) \in Nat /\ DOMAIN list = 1..Len(list)
        /\ DOMAIN more = (DOMAIN list) \cup {Len(list) + 1}
    <3>1. Len(list) \in Nat /\ DOMAIN list = 1..Len(list) /\ DOMAIN more = 1..Len(more)
      BY <2>1, LenProperties
    <3> QED
      BY <2>1, <3>1
  <2>3. ToSet(more) = ToSet(list) \cup {w}
    <3>1. \A v : v \in ToSet(more) <=> \E i \in DOMAIN more : v = more[i]
      BY DEF ToSet
    <3>2. \A v : v \in ToSet(list) <=> \E i \in DOMAIN list : v = list[i]
      BY DEF ToSet
    <3> QED
      BY <2>1, <2>2, <3>1, <3>2
  <2>4. Rank(ranking, w) = Len(list) + 1
    <3>1. w \notin Seen(ranking, n)
      BY <1>3 DEF Ranked
    <3>2. IsFiniteSet(Seen(ranking, n)) /\ Cardinality(Seen(ranking, n)) = Len(list)
      BY RankedIsDistinct
    <3> QED
      BY <3>1, <3>2, RankOfNext
  <2>5. \A i \in DOMAIN more : Rank(ranking, more[i]) = i
    BY <2>1, <2>2, <2>4 DEF Ranked
  <2>6. Ranked(more, ranking, n + 1)
    BY <1>1, <2>3, <2>5 DEF Ranked
  <2> QED
    BY <1>3, <2>1, <2>6 DEF more
<1> QED
  BY <1>2, <1>3

(* The rank of a wallet does not depend on what comes after it.             *)
LEMMA RankInPrefix ==
    ASSUME NEW ranking \in Seq(Row), NEW m \in 0..Len(ranking), NEW w,
           NEW k \in 1..m, WalletOf[ranking[k]] = w
    PROVE  Rank(SubSeq(ranking, 1, m), w) = Rank(ranking, w)
<1> DEFINE prefix == SubSeq(ranking, 1, m)
           Above(list) == {i \in DOMAIN list : \A j \in 1..i - 1 : WalletOf[list[j]] # w}
<1>1. Len(ranking) \in Nat /\ DOMAIN ranking = 1..Len(ranking)
  BY LenProperties
<1>2. DOMAIN prefix = 1..m /\ \A i \in 1..m : prefix[i] = ranking[i]
  <2>1. \A i \in 1..m : ranking[i] \in Row
    BY <1>1, ElementOfSeq
  <2>2. prefix \in Seq(Row) /\ Len(prefix) = m /\ \A i \in 1..m : prefix[i] = ranking[i]
    BY <1>1, <2>1, SubSeqProperties
  <2> QED
    BY <2>2, LenProperties
<1> HIDE DEF prefix
<1>3. \A i \in Above(ranking) : i \in 1..k
  BY <1>1
<1>4. \A i : i \in Above(prefix) <=> i \in Above(ranking)
  <2>1. ASSUME NEW i \in Above(prefix) PROVE i \in Above(ranking)
    BY <1>1, <1>2, <2>1
  <2>2. ASSUME NEW i \in Above(ranking) PROVE i \in Above(prefix)
    BY <1>1, <1>2, <1>3, <2>2
  <2> QED
    BY <2>1, <2>2
<1>5. \A i \in Above(ranking) : prefix[i] = ranking[i]
  BY <1>2, <1>3
<1> HIDE DEF Above
<1>6. Above(prefix) = Above(ranking)
  BY <1>4
<1>7. {WalletOf[prefix[i]] : i \in Above(prefix)} = {WalletOf[ranking[i]] : i \in Above(ranking)}
  BY <1>5, <1>6
<1> QED
  BY <1>7 DEF Rank, Above, prefix

(* A wallet that comes after the first n rows ranks after all seen there.   *)
LEMMA LateRank ==
    ASSUME NEW ranking \in Seq(Row), NEW n \in 0..Len(ranking), IsFiniteSet(Seen(ranking, n)),
           NEW w, w \notin Seen(ranking, n), NEW k \in DOMAIN ranking, WalletOf[ranking[k]] = w
    PROVE  Rank(ranking, w) \in Nat /\ Rank(ranking, w) > Cardinality(Seen(ranking, n))
<1> DEFINE above == {i \in DOMAIN ranking : \A j \in 1..i - 1 : WalletOf[ranking[j]] # w}
           values == {WalletOf[ranking[i]] : i \in above}
<1>1. Len(ranking) \in Nat /\ DOMAIN ranking = 1..Len(ranking)
  BY LenProperties
<1>2. IsFiniteSet(values)
  <2> DEFINE value == [i \in above |-> WalletOf[ranking[i]]]
  <2>1. value \in Surjection(above, values)
    BY DEF Surjection
  <2>2. IsFiniteSet(above)
    <3>1. IsFiniteSet(1..Len(ranking))
      BY <1>1, FS_Interval
    <3>2. above \in SUBSET (1..Len(ranking))
      BY <1>1
    <3> QED
      BY <3>1, <3>2, FS_Subset
  <2> HIDE DEF value, above, values
  <2> QED
    BY <2>1, <2>2, FS_Surjection
<1>3. w \in values
  <2> DEFINE rows == {i \in 1..Len(ranking) : WalletOf[ranking[i]] = w}
  <2>1. rows \in SUBSET Nat /\ rows # {}
    BY <1>1
  <2>2. PICK first \in rows : \A i \in rows : first <= i
    <3> HIDE DEF rows
    <3> QED
      BY <2>1, Loop!LeastNumber
  <2>3. first \in above
    BY <1>1, <2>2
  <2> QED
    BY <2>2, <2>3
<1>4. Seen(ranking, n) \subseteq values
  <2>1. \A i \in 1..n : i \in above
    BY <1>1 DEF Seen
  <2> QED
    BY <2>1 DEF Seen
<1> HIDE DEF values
<1>5. Seen(ranking, n) \cup {w} \in SUBSET values
  BY <1>3, <1>4
<1>6. /\ IsFiniteSet(Seen(ranking, n) \cup {w}) /\ Cardinality(Seen(ranking, n)) \in Nat
      /\ Cardinality(Seen(ranking, n) \cup {w}) = Cardinality(Seen(ranking, n)) + 1
  BY FS_AddElement, FS_CardinalityType
<1>7. Cardinality(Seen(ranking, n)) + 1 <= Cardinality(values) /\ Cardinality(values) \in Nat
  BY <1>2, <1>5, <1>6, FS_Subset, FS_CardinalityType
<1>8. Rank(ranking, w) = Cardinality(values)
  BY DEF Rank, values
<1> QED
  BY <1>6, <1>7, <1>8

\* The wallets of a list of rows that are among its best.
BestOf(rows) == {w \in Wallet : /\ \E i \in DOMAIN rows : WalletOf[rows[i]] = w
                                /\ Rank(rows, w) <= WalletCount}

(* Reading the first n rows of m, all of them unless enough was found, finds *)
(* exactly the leaders among the m rows.                                     *)
LEMMA RankedAreLeaders ==
    ASSUME NEW ranking \in Seq(Row), NEW m \in 0..Len(ranking), NEW n \in 0..m,
           NEW list \in Seq(Wallet), Ranked(list, ranking, n), Len(list) <= WalletCount,
           Len(list) < WalletCount => n = m
    PROVE  ToSet(list) = BestOf(SubSeq(ranking, 1, m))
<1> DEFINE prefix == SubSeq(ranking, 1, m)
<1>1. /\ Len(ranking) \in Nat /\ DOMAIN ranking = 1..Len(ranking)
      /\ Len(list) \in Nat /\ DOMAIN list = 1..Len(list)
  BY LenProperties
<1>2. DOMAIN prefix = 1..m /\ \A i \in 1..m : prefix[i] = ranking[i]
  <2>1. \A i \in 1..m : ranking[i] \in Row
    BY <1>1, ElementOfSeq
  <2>2. prefix \in Seq(Row) /\ Len(prefix) = m /\ \A i \in 1..m : prefix[i] = ranking[i]
    BY <1>1, <2>1, SubSeqProperties
  <2> QED
    BY <2>2, LenProperties
<1>3. \A w : (\E i \in DOMAIN prefix : WalletOf[prefix[i]] = w) => Rank(prefix, w) = Rank(ranking, w)
  BY <1>2, RankInPrefix
<1> HIDE DEF prefix
<1>4. ASSUME NEW w \in ToSet(list)
      PROVE  /\ w \in Wallet /\ \E i \in DOMAIN prefix : WalletOf[prefix[i]] = w
             /\ Rank(prefix, w) <= WalletCount
  <2>1. PICK i \in DOMAIN list : w = list[i]
    BY DEF ToSet
  <2>2. Rank(ranking, w) <= WalletCount
    BY <1>1, <2>1, Limits DEF Ranked
  <2>3. PICK j \in 1..n : WalletOf[ranking[j]] = w
    BY DEF Ranked, Seen
  <2>4. w \in Wallet
    BY <1>1, <2>1, ElementOfSeq
  <2>5. j \in DOMAIN prefix /\ WalletOf[prefix[j]] = w
    BY <1>2, <2>3
  <2> QED
    BY <1>3, <2>2, <2>4, <2>5
<1>5. ASSUME NEW w \in Wallet, NEW i \in DOMAIN prefix, WalletOf[prefix[i]] = w,
             Rank(prefix, w) <= WalletCount, w \notin ToSet(list)
      PROVE  FALSE
  <2>1. Rank(ranking, w) <= WalletCount
    BY <1>3, <1>5
  <2>2. i \in 1..m /\ i \in DOMAIN ranking /\ WalletOf[ranking[i]] = w
    BY <1>1, <1>2, <1>5
  <2>3. w \notin Seen(ranking, n)
    BY <1>5 DEF Ranked
  <2>4. n # m
    BY <2>2, <2>3 DEF Seen
  <2>5. Cardinality(Seen(ranking, n)) = WalletCount /\ IsFiniteSet(Seen(ranking, n))
    BY <1>1, <2>4, RankedIsDistinct, Limits
  <2>6. n \in 0..Len(ranking)
    BY <1>1
  <2>7. Rank(ranking, w) \in Nat /\ Rank(ranking, w) > WalletCount
    BY <2>2, <2>3, <2>5, <2>6, LateRank
  <2> QED
    BY <2>1, <2>7, Limits
<1>6. ToSet(list) = BestOf(prefix)
  BY <1>4, <1>5 DEF BestOf
<1> QED
  BY <1>6 DEF prefix

---------------------------------------------------------------------------
(* The loop over the rows of a page.                                        *)

LEMMA ReadingIsRun ==
    ASSUME NEW base, NEW page
    PROVE  FoldLeft(Absorb, base, page) = Loop!Run(0, page, base, DOMAIN page)
BY DEF FoldLeft, MapThenFoldSet, Loop!Run, AbsorbRow

LEMMA LoopOverRows ==
    ASSUME NEW S, NEW page \in Seq(S), NEW base, NEW J, base \in J[0],
           \A k \in 1..Len(page) : \A a \in J[k - 1] : Absorb(a, page[k]) \in J[k]
    PROVE  FoldLeft(Absorb, base, page) \in J[Len(page)]
<1>1. Len(page) \in Nat /\ DOMAIN page = 1..Len(page)
  BY LenProperties
<1>2. \A k \in 1..Len(page) : \A a \in J[k - 1] : AbsorbRow(0, page, a, k) \in J[k]
  BY DEF AbsorbRow
<1>3. Loop!Run(0, page, base, 1..Len(page)) \in J[Len(page)]
  BY <1>1, <1>2, Loop!LoopInvariant DEF Max, Loop!Max
<1> QED
  BY <1>1, <1>3, ReadingIsRun

Reads == [sound : BOOLEAN, wallets : Seq(Wallet)]

LEMMA ReadingTypes ==
    ASSUME NEW page \in Seq(Row), NEW base \in Reads
    PROVE  FoldLeft(Absorb, base, page) \in Reads
<1> DEFINE J == [k \in 0..Len(page) |-> Reads]
<1>1. Len(page) \in Nat /\ DOMAIN page = 1..Len(page)
  BY LenProperties
<1>2. base \in J[0] /\ J[Len(page)] = Reads
  BY <1>1
<1>3. ASSUME NEW k \in 1..Len(page), NEW a \in J[k - 1] PROVE Absorb(a, page[k]) \in J[k]
  <2>1. a \in Reads /\ J[k] = Reads
    BY <1>1, <1>3
  <2>2. WalletOf[page[k]] \in Wallet \cup {NoWallet}
    BY <1>1, WalletsOfRows
  <2>3. WalletOf[page[k]] \in Wallet => Append(a.wallets, WalletOf[page[k]]) \in Seq(Wallet)
    BY <2>1, AppendProperties DEF Reads
  <2>4. Absorb(a, page[k]) \in Reads
    BY <2>1, <2>2, <2>3 DEF Absorb, Reads
  <2> QED
    BY <2>1, <2>4
<1> HIDE DEF J
<1> QED
  BY <1>2, <1>3, LoopOverRows

(* The rows of a page are those of the ranking that come next.              *)
LEMMA RowsOfPage ==
    ASSUME NEW ranking \in Seq(Row), NEW start \in Nat, NEW limit \in Nat \ {0},
           start <= Len(ranking)
    PROVE  LET page == Page(ranking, start, limit)
           IN  /\ page \in Seq(Row) /\ Len(page) \in Nat /\ start + Len(page) <= Len(ranking)
               /\ \A k \in 1..Len(page) : page[k] = ranking[start + k]
<1> DEFINE last == Smaller(start + limit, Len(ranking))
<1>1. Len(ranking) \in Nat /\ last \in Nat /\ start <= last /\ last <= Len(ranking)
  BY LenProperties DEF Smaller
<1>2. \A i \in start + 1..last : ranking[i] \in Row
  BY <1>1, ElementOfSeq
<1> HIDE DEF last
<1>3. /\ SubSeq(ranking, start + 1, last) \in Seq(Row)
      /\ Len(SubSeq(ranking, start + 1, last)) = last - start
      /\ \A k \in 1..last - start : SubSeq(ranking, start + 1, last)[k] = ranking[start + k]
  <2>1. /\ SubSeq(ranking, start + 1, last) \in Seq(Row)
        /\ Len(SubSeq(ranking, start + 1, last)) =
              IF start + 1 <= last THEN last - (start + 1) + 1 ELSE 0
        /\ \A k \in 1..last - (start + 1) + 1 :
              SubSeq(ranking, start + 1, last)[k] = ranking[start + 1 + k - 1]
    BY <1>1, <1>2, SubSeqProperties
  <2>2. \A k \in Int : start + 1 + k - 1 = start + k
    OBVIOUS
  <2>3. last - (start + 1) + 1 = last - start
    BY <1>1
  <2> QED
    BY <1>1, <2>1, <2>2, <2>3
<1> QED
  BY <1>1, <1>3 DEF Page, last

(* A page is read to its end, or until enough wallets are found, or refused. *)
LEMMA ReadingRanks ==
    ASSUME NEW ranking \in Seq(Row), NEW start \in Nat, NEW limit \in Nat \ {0},
           start <= Len(ranking), NEW list \in Seq(Wallet), Ranked(list, ranking, start),
           Len(list) < WalletCount
    PROVE  LET page == Page(ranking, start, limit)
               read == FoldLeft(Absorb, [sound |-> TRUE, wallets |-> list], page)
           IN  read.sound =>
                  /\ read.wallets \in Seq(Wallet) /\ Len(read.wallets) <= WalletCount
                  /\ \E n \in 0..start + Len(page) :
                        /\ Ranked(read.wallets, ranking, n)
                        /\ Len(read.wallets) < WalletCount => n = start + Len(page)
<1> DEFINE page == Page(ranking, start, limit)
           Good(a, k) ==
              /\ Len(a.wallets) <= WalletCount
              /\ \E n \in 0..start + k :
                    /\ Ranked(a.wallets, ranking, n)
                    /\ Len(a.wallets) < WalletCount => n = start + k
           J == [k \in 0..Len(page) |-> {a \in Reads : a.sound => Good(a, k)}]
           base == [sound |-> TRUE, wallets |-> list]
<1>1. /\ page \in Seq(Row) /\ Len(page) \in Nat /\ start + Len(page) <= Len(ranking)
      /\ \A k \in 1..Len(page) : page[k] = ranking[start + k]
  BY RowsOfPage
<1>2. DOMAIN page = 1..Len(page) /\ Len(ranking) \in Nat
  BY <1>1, LenProperties
<1> HIDE DEF page
<1>3. base \in J[0]
  <2>1. base \in Reads
    BY DEF Reads
  <2>2. Good(base, 0)
    BY LenProperties, Limits
  <2>3. 0 \in 0..Len(page)
    BY <1>1
  <2> HIDE DEF Good, base
  <2> QED
    BY <2>1, <2>2, <2>3
<1>4. ASSUME NEW k \in 1..Len(page), NEW a \in J[k - 1] PROVE Absorb(a, page[k]) \in J[k]
  <2> DEFINE w == WalletOf[page[k]]
  <2>1. a \in Reads /\ (a.sound => Good(a, k - 1)) /\ k - 1 \in Nat
    <3>1. k - 1 \in 0..Len(page)
      BY <1>1, <1>4
    <3> HIDE DEF Good
    <3> QED
      BY <1>4, <3>1
  <2>2. J[k] = {b \in Reads : b.sound => Good(b, k)}
    BY <1>1, <1>4
  <2>3. w \in Wallet \cup {NoWallet} /\ w = WalletOf[ranking[(start + k - 1) + 1]]
    <3>1. w \in Wallet \cup {NoWallet}
      BY <1>1, <1>2, <1>4, WalletsOfRows
    <3>2. (start + k - 1) + 1 = start + k
      BY <1>1
    <3> QED
      BY <1>1, <3>1, <3>2
  <2>4. CASE ~ a.sound
    <3>1. Absorb(a, page[k]) = a
      BY <2>4 DEF Absorb
    <3> HIDE DEF Good
    <3> QED
      BY <2>1, <2>2, <2>4, <3>1
  <2>5. CASE a.sound /\ Len(a.wallets) >= WalletCount
    <3>1. Absorb(a, page[k]) = a
      BY <2>5 DEF Absorb
    <3>2. Good(a, k)
      <4>1. PICK n \in 0..start + (k - 1) : Ranked(a.wallets, ranking, n)
        BY <2>1, <2>5
      <4>2. n \in 0..start + k
        BY <1>1, <2>1, <4>1
      <4>3. Len(a.wallets) \in Nat /\ ~ (Len(a.wallets) < WalletCount)
        BY <2>1, <2>5, LenProperties, Limits DEF Reads
      <4> QED
        BY <2>1, <2>5, <4>1, <4>2, <4>3
    <3> HIDE DEF Good
    <3> QED
      BY <2>1, <2>2, <3>1, <3>2
  <2>6. CASE a.sound /\ ~(Len(a.wallets) >= WalletCount) /\ w = NoWallet
    <3>1. Absorb(a, page[k]) = [a EXCEPT !.sound = FALSE]
      BY <2>6 DEF Absorb
    <3>2. [a EXCEPT !.sound = FALSE] \in Reads /\ [a EXCEPT !.sound = FALSE].sound = FALSE
      BY <2>1 DEF Reads
    <3> HIDE DEF Good
    <3> QED
      BY <2>2, <3>1, <3>2
  <2>7. CASE a.sound /\ ~(Len(a.wallets) >= WalletCount) /\ w \in Wallet /\ w # NoWallet
    <3>1. a.wallets \in Seq(Wallet) /\ Len(a.wallets) \in Nat
      BY <2>1, LenProperties DEF Reads
    <3>2. Len(a.wallets) < WalletCount
      BY <2>7, <3>1, Limits
    <3>3. Ranked(a.wallets, ranking, start + k - 1)
      <4>1. PICK n \in 0..start + (k - 1) : Ranked(a.wallets, ranking, n) /\ n = start + (k - 1)
        BY <2>1, <2>7, <3>2
      <4>2. start + (k - 1) = start + k - 1
        BY <2>1
      <4> QED
        BY <4>1, <4>2
    <3>4. /\ start + k - 1 \in Nat /\ start + k - 1 < Len(ranking)
          /\ (start + k - 1) + 1 = start + k /\ start + k \in 0..start + k
      BY <1>1, <1>2, <1>4
    <3>5. IF w \in ToSet(a.wallets)
          THEN Ranked(a.wallets, ranking, (start + k - 1) + 1)
          ELSE /\ Append(a.wallets, w) \in Seq(Wallet)
               /\ Len(Append(a.wallets, w)) = Len(a.wallets) + 1
               /\ Ranked(Append(a.wallets, w), ranking, (start + k - 1) + 1)
      <4> HIDE DEF w
      <4> QED
        BY ONLY ranking \in Seq(Row), <2>3, <2>7, <3>1, <3>3, <3>4, RankedNext
    <3>6. CASE w \in ToSet(a.wallets)
      <4>1. Absorb(a, page[k]) = a
        BY <2>7, <3>6 DEF Absorb
      <4>2. Good(a, k)
        BY <3>1, <3>2, <3>4, <3>5, <3>6, Limits
      <4> HIDE DEF Good
      <4> QED
        BY <2>1, <2>2, <4>1, <4>2
    <3>7. CASE w \notin ToSet(a.wallets)
      <4> DEFINE b == [a EXCEPT !.wallets = Append(@, w)]
      <4>1. Absorb(a, page[k]) = b
        BY <2>7, <3>7 DEF Absorb
      <4>2. b \in Reads /\ b.wallets = Append(a.wallets, w)
        BY <2>1, <3>5, <3>7 DEF Reads
      <4> HIDE DEF b, w
      <4>3. Good(b, k)
        BY <3>1, <3>2, <3>4, <3>5, <3>7, <4>2, Limits
      <4> HIDE DEF Good
      <4> QED
        BY <2>2, <4>1, <4>2, <4>3
    <3> QED
      BY <3>6, <3>7
  <2> QED
    BY <2>3, <2>4, <2>5, <2>6, <2>7, ConstantAssumption
<1>5. FoldLeft(Absorb, base, page) \in J[Len(page)]
  <2> HIDE DEF J, base
  <2> QED
    BY <1>1, <1>3, <1>4, LoopOverRows
<1>6. Len(page) \in 0..Len(page)
  BY <1>1
<1>7. LET read == FoldLeft(Absorb, base, page)
      IN  read \in Reads /\ (read.sound => Good(read, Len(page)))
  <2> HIDE DEF Good, base
  <2> QED
    BY <1>5, <1>6
<1> QED
  BY <1>7 DEF Reads, page

---------------------------------------------------------------------------
(* Grouping the evidence by market.                                         *)

Evidence == [Condition -> Seq(Wallet \X Position)]

CountTo(list, k, item) == Cardinality({i \in 1..k : list[i] = item})

LEMMA CountOfNone == \A list, item : CountTo(list, 0, item) = 0
<1>1. 1..0 = {}
  OBVIOUS
<1> QED
  BY <1>1, FS_EmptySet DEF CountTo

LEMMA CountGrows ==
    ASSUME NEW list, NEW k \in Nat, NEW item
    PROVE  /\ CountTo(list, k, item) \in Nat
           /\ CountTo(list, k + 1, item) =
                 CountTo(list, k, item) + IF list[k + 1] = item THEN 1 ELSE 0
<1> DEFINE At(n) == {i \in 1..n : list[i] = item}
<1>2. IsFiniteSet(At(k))
  <2>1. IsFiniteSet(1..k) /\ At(k) \in SUBSET (1..k)
    BY FS_Interval
  <2> HIDE DEF At
  <2> QED
    BY <2>1, FS_Subset
<1>3. IF list[k + 1] = item THEN At(k + 1) = At(k) \cup {k + 1} ELSE At(k + 1) = At(k)
  <2>1. \A i : i \in 1..k + 1 <=> i \in 1..k \/ i = k + 1
    OBVIOUS
  <2> QED
    BY <2>1
<1>4. k + 1 \notin At(k)
  OBVIOUS
<1> HIDE DEF At
<1>5. Cardinality(At(k)) \in Nat
  BY <1>2, FS_CardinalityType
<1>6. Cardinality(At(k + 1)) = Cardinality(At(k)) + IF list[k + 1] = item THEN 1 ELSE 0
  BY <1>2, <1>3, <1>4, <1>5, FS_AddElement
<1> QED
  BY <1>5, <1>6 DEF CountTo, At

LEMMA OccurrencesAreCounted ==
    ASSUME NEW S, NEW list \in Seq(S), NEW item
    PROVE  /\ Occurrences(list, item) = CountTo(list, Len(list), item)
           /\ Occurrences(list, item) \in Nat
<1>1. Len(list) \in Nat /\ DOMAIN list = 1..Len(list)
  BY LenProperties
<1>2. Occurrences(list, item) = CountTo(list, Len(list), item)
  BY <1>1 DEF Occurrences, CountTo
<1> QED
  BY <1>1, <1>2, CountGrows

LEMMA OccurrencesInAppend ==
    ASSUME NEW S, NEW list \in Seq(S), NEW x \in S, NEW item
    PROVE  Occurrences(Append(list, x), item) =
              Occurrences(list, item) + IF x = item THEN 1 ELSE 0
<1> DEFINE more == Append(list, x)
<1>1. /\ more \in Seq(S) /\ Len(more) = Len(list) + 1 /\ Len(list) \in Nat
      /\ \A i \in 1..Len(list) : more[i] = list[i]
      /\ more[Len(list) + 1] = x
  BY AppendProperties, LenProperties
<1> HIDE DEF more
<1>2. Occurrences(more, item) = CountTo(more, Len(list) + 1, item)
  BY <1>1, OccurrencesAreCounted
<1>3. CountTo(more, Len(list) + 1, item) =
         CountTo(more, Len(list), item) + IF x = item THEN 1 ELSE 0
  <2>1. \A k \in Nat : CountTo(more, k + 1, item) =
                          CountTo(more, k, item) + IF more[k + 1] = item THEN 1 ELSE 0
    BY CountGrows
  <2> QED
    BY <1>1, <2>1
<1>4. CountTo(more, Len(list), item) = CountTo(list, Len(list), item)
  <2>1. {i \in 1..Len(list) : more[i] = item} = {i \in 1..Len(list) : list[i] = item}
    BY <1>1
  <2> QED
    BY <2>1 DEF CountTo
<1>5. CountTo(list, Len(list), item) = Occurrences(list, item)
  BY OccurrencesAreCounted
<1> QED
  BY <1>2, <1>3, <1>4, <1>5 DEF more

(* One item more.                                                           *)
LEMMA AddItemCounts ==
    ASSUME NEW evidence \in Evidence, NEW w \in Wallet, NEW p \in Position
    PROVE  /\ AddItem(evidence, w, p) \in Evidence
           /\ \A c \in Condition, v \in Wallet, q \in Position :
                 Occurrences(AddItem(evidence, w, p)[c], <<v, q>>) =
                    Occurrences(evidence[c], <<v, q>>)
                       + IF v = w /\ ConditionOf[q] = c /\ p = q THEN 1 ELSE 0
<1> DEFINE d == ConditionOf[p]
           more == AddItem(evidence, w, p)
<1>1. <<w, p>> \in Wallet \X Position
  OBVIOUS
<1>2. \A c \in Condition : evidence[c] \in Seq(Wallet \X Position)
  BY DEF Evidence
<1>3. \A c \in Condition : Append(evidence[c], <<w, p>>) \in Seq(Wallet \X Position)
  BY <1>1, <1>2, AppendProperties
<1>4. /\ more \in Evidence
      /\ \A c \in Condition :
            more[c] = IF c = d THEN Append(evidence[c], <<w, p>>) ELSE evidence[c]
  BY <1>3 DEF AddItem, Evidence
<1> HIDE DEF more
<1>5. ASSUME NEW c \in Condition, NEW v \in Wallet, NEW q \in Position
      PROVE  Occurrences(more[c], <<v, q>>) =
                Occurrences(evidence[c], <<v, q>>)
                   + IF v = w /\ ConditionOf[q] = c /\ p = q THEN 1 ELSE 0
  <2>1. Occurrences(evidence[c], <<v, q>>) \in Nat
    BY <1>2, OccurrencesAreCounted
  <2>2. CASE c = d
    <3>1. Occurrences(more[c], <<v, q>>) =
             Occurrences(evidence[c], <<v, q>>) + IF <<w, p>> = <<v, q>> THEN 1 ELSE 0
      BY <1>1, <1>2, <1>4, <2>2, OccurrencesInAppend
    <3>2. <<w, p>> = <<v, q>> <=> v = w /\ ConditionOf[q] = c /\ p = q
      BY <2>2
    <3> QED
      BY <3>1, <3>2
  <2>3. CASE c # d
    BY <1>4, <2>1, <2>3
  <2> QED
    BY <2>2, <2>3
<1> QED
  BY <1>4, <1>5 DEF more

(* All positions of one wallet.                                             *)
LEMMA AddWalletCounts ==
    ASSUME NEW results, NEW evidence \in Evidence, NEW w \in Wallet,
           w \in DOMAIN results => results[w] \in Seq(Position)
    PROVE  /\ AddWallet(results, evidence, w) \in Evidence
           /\ \A c \in Condition, v \in Wallet, q \in Position :
                 Occurrences(AddWallet(results, evidence, w)[c], <<v, q>>) =
                    Occurrences(evidence[c], <<v, q>>)
                       + IF v = w /\ w \in DOMAIN results /\ ConditionOf[q] = c
                         THEN Occurrences(results[w], q) ELSE 0
<1>1. \A c \in Condition, v \in Wallet, q \in Position :
         Occurrences(evidence[c], <<v, q>>) \in Nat
  BY OccurrencesAreCounted DEF Evidence
<1>2. CASE w \notin DOMAIN results
  <2>1. AddWallet(results, evidence, w) = evidence
    BY <1>2 DEF AddWallet
  <2> QED
    BY <1>1, <1>2, <2>1
<1>3. CASE w \in DOMAIN results
  <2> DEFINE list == results[w]
             Added(a, k) ==
                \A c \in Condition, v \in Wallet, q \in Position :
                    Occurrences(a[c], <<v, q>>) =
                       Occurrences(evidence[c], <<v, q>>)
                          + IF v = w /\ ConditionOf[q] = c THEN CountTo(list, k, q) ELSE 0
             J == [k \in 0..Len(list) |-> {a \in Evidence : Added(a, k)}]
  <2>1. list \in Seq(Position) /\ Len(list) \in Nat /\ DOMAIN list = 1..Len(list)
    BY <1>3, LenProperties
  <2>2. AddWallet(results, evidence, w) = Items!Run(w, list, evidence, 1..Len(list))
    <3>1. AddWallet(results, evidence, w) =
             FoldLeft(LAMBDA sofar, p : AddItem(sofar, w, p), evidence, list)
      BY <1>3 DEF AddWallet
    <3>2. FoldLeft(LAMBDA sofar, p : AddItem(sofar, w, p), evidence, list)
             = Items!Run(w, list, evidence, DOMAIN list)
      BY ONLY DEF FoldLeft, MapThenFoldSet, Items!Run, AddNth
    <3> QED
      BY <2>1, <3>1, <3>2
  <2> HIDE DEF list
  <2>3. evidence \in J[0]
    <3>1. Added(evidence, 0)
      <4>1. ASSUME NEW c \in Condition, NEW v \in Wallet, NEW q \in Position
            PROVE  Occurrences(evidence[c], <<v, q>>) =
                      Occurrences(evidence[c], <<v, q>>)
                         + IF v = w /\ ConditionOf[q] = c THEN CountTo(list, 0, q) ELSE 0
        <5>1. CountTo(list, 0, q) = 0 /\ Occurrences(evidence[c], <<v, q>>) \in Nat
          BY <1>1, CountOfNone
        <5> QED
          BY <5>1
      <4> QED
        BY <4>1
    <3>2. 0 \in 0..Len(list)
      BY <2>1
    <3> HIDE DEF Added
    <3> QED
      BY <3>1, <3>2
  <2>4. ASSUME NEW k \in 1..Len(list), NEW a \in J[k - 1] PROVE AddNth(w, list, a, k) \in J[k]
    <3> DEFINE more == AddItem(a, w, list[k])
    <3>1. a \in Evidence /\ Added(a, k - 1)
      <4>1. k - 1 \in 0..Len(list)
        BY <2>1, <2>4
      <4> HIDE DEF Added
      <4> QED
        BY <2>4, <4>1
    <3>2. list[k] \in Position
      BY <2>1, ElementOfSeq
    <3>3. /\ more \in Evidence
          /\ \A c \in Condition, v \in Wallet, q \in Position :
                Occurrences(more[c], <<v, q>>) =
                   Occurrences(a[c], <<v, q>>)
                      + IF v = w /\ ConditionOf[q] = c /\ list[k] = q THEN 1 ELSE 0
      BY <3>1, <3>2, AddItemCounts
    <3> HIDE DEF more
    <3>4. \A q : /\ CountTo(list, k - 1, q) \in Nat
                 /\ CountTo(list, k, q) =
                       CountTo(list, k - 1, q) + IF list[k] = q THEN 1 ELSE 0
      <4>1. k - 1 \in Nat /\ (k - 1) + 1 = k
        BY <2>1, <2>4
      <4>2. \A q : /\ CountTo(list, k - 1, q) \in Nat
                   /\ CountTo(list, (k - 1) + 1, q) =
                         CountTo(list, k - 1, q) + IF list[(k - 1) + 1] = q THEN 1 ELSE 0
        BY <4>1, CountGrows, Zenon
      <4> QED
        BY <4>1, <4>2
    <3>5. Added(more, k)
      <4>1. ASSUME NEW c \in Condition, NEW v \in Wallet, NEW q \in Position
            PROVE  Occurrences(more[c], <<v, q>>) =
                      Occurrences(evidence[c], <<v, q>>)
                         + IF v = w /\ ConditionOf[q] = c THEN CountTo(list, k, q) ELSE 0
        <5>1. Occurrences(more[c], <<v, q>>) =
                 Occurrences(a[c], <<v, q>>)
                    + IF v = w /\ ConditionOf[q] = c /\ list[k] = q THEN 1 ELSE 0
          BY <3>3
        <5>2. Occurrences(a[c], <<v, q>>) =
                 Occurrences(evidence[c], <<v, q>>)
                    + IF v = w /\ ConditionOf[q] = c THEN CountTo(list, k - 1, q) ELSE 0
          BY <3>1
        <5>3. Occurrences(evidence[c], <<v, q>>) \in Nat
          BY <1>1
        <5> QED
          BY <3>4, <5>1, <5>2, <5>3
      <4> QED
        BY <4>1
    <3>6. AddNth(w, list, a, k) = more
      BY DEF AddNth, more
    <3> HIDE DEF Added
    <3> QED
      BY <3>3, <3>5, <3>6
  <2>5. Items!Run(w, list, evidence, 1..Len(list)) \in J[Len(list)]
    <3> HIDE DEF J
    <3> QED
      BY <2>1, <2>3, <2>4, Items!LoopInvariant DEF Max, Items!Max
  <2>6. LET all == AddWallet(results, evidence, w) IN all \in Evidence /\ Added(all, Len(list))
    <3>1. Len(list) \in 0..Len(list)
      BY <2>1
    <3> HIDE DEF Added
    <3> QED
      BY <2>2, <2>5, <3>1
  <2>7. \A q : CountTo(list, Len(list), q) = Occurrences(list, q)
    BY <2>1, OccurrencesAreCounted
  <2> QED
    BY <1>3, <2>6, <2>7 DEF list
<1> QED
  BY <1>2, <1>3

(* All wallets of a ranking without repetitions.  Of any other the types.   *)
LEMMA AddWallets ==
    ASSUME NEW results, NEW leaders \in Seq(Wallet),
           \A w \in DOMAIN results : results[w] \in Seq(Position)
    PROVE  LET all == Wallets!Run(results, leaders, [c \in Condition |-> <<>>], DOMAIN leaders)
           IN  /\ all \in Evidence
               /\ (\A i, j \in DOMAIN leaders : leaders[i] = leaders[j] => i = j) =>
                     \A c \in Condition, v \in Wallet, q \in Position :
                        Occurrences(all[c], <<v, q>>) =
                           IF v \in ToSet(leaders) /\ v \in DOMAIN results /\ ConditionOf[q] = c
                           THEN Occurrences(results[v], q) ELSE 0
<1> DEFINE base == [c \in Condition |-> <<>>]
           all == Wallets!Run(results, leaders, base, DOMAIN leaders)
           distinct == \A i, j \in DOMAIN leaders : leaders[i] = leaders[j] => i = j
           Added(a, k) ==
              \A c \in Condition, v \in Wallet, q \in Position :
                  Occurrences(a[c], <<v, q>>) =
                     IF /\ \E i \in 1..k : leaders[i] = v
                        /\ v \in DOMAIN results /\ ConditionOf[q] = c
                     THEN Occurrences(results[v], q) ELSE 0
           J == [k \in 0..Len(leaders) |-> {a \in Evidence : distinct => Added(a, k)}]
<1>1. Len(leaders) \in Nat /\ DOMAIN leaders = 1..Len(leaders)
  BY LenProperties
<1>2. all = Wallets!Run(results, leaders, base, 1..Len(leaders))
  BY <1>1
<1> HIDE DEF all
<1>3. base \in J[0]
  <2>1. <<>> \in Seq(Wallet \X Position) /\ Len(<<>>) = 0
    BY EmptySeq
  <2>2. base \in Evidence
    BY <2>1 DEF Evidence
  <2>3. \A item : Occurrences(<<>>, item) = 0
    BY <2>1, OccurrencesAreCounted, CountOfNone
  <2>4. Added(base, 0)
    BY <2>3
  <2>5. 0 \in 0..Len(leaders)
    BY <1>1
  <2> HIDE DEF Added, base
  <2> QED
    BY <2>2, <2>4, <2>5
<1>4. ASSUME NEW k \in 1..Len(leaders), NEW a \in J[k - 1]
      PROVE  AddNthWallet(results, leaders, a, k) \in J[k]
  <2> DEFINE w == leaders[k]
             more == AddWallet(results, a, w)
  <2>1. a \in Evidence /\ (distinct => Added(a, k - 1))
    <3>1. k - 1 \in 0..Len(leaders)
      BY <1>1, <1>4
    <3> HIDE DEF Added
    <3> QED
      BY <1>4, <3>1
  <2>2. w \in Wallet
    BY <1>1, ElementOfSeq
  <2>3. /\ more \in Evidence
        /\ \A c \in Condition, v \in Wallet, q \in Position :
              Occurrences(more[c], <<v, q>>) =
                 Occurrences(a[c], <<v, q>>)
                    + IF v = w /\ w \in DOMAIN results /\ ConditionOf[q] = c
                      THEN Occurrences(results[w], q) ELSE 0
    BY <2>1, <2>2, AddWalletCounts
  <2> HIDE DEF more
  <2>4. ASSUME distinct, NEW c \in Condition, NEW v \in Wallet, NEW q \in Position
        PROVE  Occurrences(more[c], <<v, q>>) =
                  IF /\ \E i \in 1..k : leaders[i] = v
                     /\ v \in DOMAIN results /\ ConditionOf[q] = c
                  THEN Occurrences(results[v], q) ELSE 0
    <3>1. Occurrences(a[c], <<v, q>>) =
             IF /\ \E i \in 1..k - 1 : leaders[i] = v
                /\ v \in DOMAIN results /\ ConditionOf[q] = c
             THEN Occurrences(results[v], q) ELSE 0
      BY <2>1, <2>4
    <3>2. \A i \in 1..k : i \in 1..k - 1 \/ i = k
      BY <1>1
    <3>3. \A i \in 1..k - 1 : i \in 1..k /\ leaders[i] # leaders[k]
      BY <1>1, <2>4
    <3>4. v \in DOMAIN results => Occurrences(results[v], q) \in Nat
      BY OccurrencesAreCounted
    <3>5. CASE v = w
      <4>1. ~ \E i \in 1..k - 1 : leaders[i] = v
        BY <3>3, <3>5
      <4>2. \E i \in 1..k : leaders[i] = v
        BY <1>1, <3>5
      <4>3. Occurrences(a[c], <<v, q>>) = 0
        BY <3>1, <4>1
      <4> QED
        BY <2>3, <3>4, <3>5, <4>2, <4>3
    <3>6. CASE v # w
      <4>1. (\E i \in 1..k - 1 : leaders[i] = v) <=> (\E i \in 1..k : leaders[i] = v)
        BY <3>2, <3>3, <3>6
      <4>2. Occurrences(a[c], <<v, q>>) \in Nat
        BY <2>1, OccurrencesAreCounted DEF Evidence
      <4>3. Occurrences(more[c], <<v, q>>) = Occurrences(a[c], <<v, q>>)
        BY <2>3, <3>6, <4>2
      <4> QED
        BY <3>1, <4>1, <4>3
    <3> QED
      BY <3>5, <3>6
  <2>5. distinct => Added(more, k)
    BY <2>4
  <2>6. AddNthWallet(results, leaders, a, k) = more
    BY DEF AddNthWallet, more
  <2> HIDE DEF Added, distinct
  <2> QED
    BY <2>3, <2>5, <2>6
<1>5. Wallets!Run(results, leaders, base, 1..Len(leaders)) \in J[Len(leaders)]
  <2> HIDE DEF J, base
  <2> QED
    BY <1>1, <1>3, <1>4, Wallets!LoopInvariant DEF Max, Wallets!Max
<1>6. all \in Evidence /\ (distinct => Added(all, Len(leaders)))
  <2>1. Len(leaders) \in 0..Len(leaders)
    BY <1>1
  <2> HIDE DEF Added, distinct
  <2> QED
    BY <1>2, <1>5, <2>1
<1>7. \A v : (\E i \in 1..Len(leaders) : leaders[i] = v) <=> v \in ToSet(leaders)
  BY <1>1 DEF ToSet
<1> QED
  BY <1>6, <1>7 DEF all

---------------------------------------------------------------------------
(* Pages and tasks.                                                         *)

(* A page is a sequence of at most as many rows as were asked for, and a    *)
(* full one ends where the next begins.                                     *)
LEMMA PageProperties ==
    ASSUME NEW S, NEW list \in Seq(S), NEW start \in Nat, NEW limit \in Nat \ {0}
    PROVE  /\ Page(list, start, limit) \in Seq(S)
           /\ start <= Len(list) =>
                 /\ Len(Page(list, start, limit)) = Smaller(start + limit, Len(list)) - start
                 /\ SubSeq(list, 1, start) \o Page(list, start, limit)
                       = SubSeq(list, 1, Smaller(start + limit, Len(list)))
<1> DEFINE last == Smaller(start + limit, Len(list))
<1>1. /\ last \in Nat /\ last <= Len(list) /\ Len(list) \in Nat
      /\ start <= Len(list) => start <= last
  BY DEF Smaller
<1>2. \A i \in start + 1..last : list[i] \in S
  BY <1>1, ElementOfSeq
<1>3. SubSeq(list, start + 1, last) \in Seq(S)
  BY <1>1, <1>2, SubSeqProperties
<1>4. Len(SubSeq(list, start + 1, last)) =
         IF start + 1 <= last THEN last - (start + 1) + 1 ELSE 0
  BY <1>1, <1>2, SubSeqProperties
<1>5. ASSUME start <= Len(list)
      PROVE  SubSeq(list, 1, start) \o SubSeq(list, start + 1, last) = SubSeq(list, 1, last)
  <2>1. /\ 1 \in 1..Len(list) + 1 /\ start \in 1 - 1..Len(list) /\ last \in start..Len(list)
    BY <1>1, <1>5
  <2> QED
    BY <2>1, ConcatAdjacentSubSeq
<1> HIDE DEF last
<1>6. start <= Len(list) => Len(SubSeq(list, start + 1, last)) = last - start
  BY <1>1, <1>4
<1> QED
  BY <1>3, <1>5, <1>6 DEF Page, last

(* What a page does to its task: it fails or ends it, or asks for the next. *)
Moved(t, limit, reach) ==
    \/ task' = [task EXCEPT ![t] = "failed"] /\ offset' = offset
    \/ task' = [task EXCEPT ![t] = "done"] /\ offset' = offset
    \/ /\ task' = [task EXCEPT ![t] = "done"]
       /\ offset' = [offset EXCEPT ![t] = offset[t] + limit]
    \/ /\ task' = [task EXCEPT ![t] = "asking"]
       /\ offset' = [offset EXCEPT ![t] = offset[t] + limit]
       /\ offset[t] + limit <= reach

LEMMA TurnEffect ==
    ASSUME NEW t, NEW page, NEW limit, NEW reach, NEW more, Turn(t, page, limit, reach, more)
    PROVE  Moved(t, limit, reach)
<1>1. CASE Len(page) < limit
  BY <1>1 DEF Turn, Moved
<1>2. CASE ~(Len(page) < limit)
  <2>1. offset' = [offset EXCEPT ![t] = offset[t] + limit]
    BY <1>2 DEF Turn
  <2>2. CASE more /\ offset[t] + limit <= reach
    BY <1>2, <2>1, <2>2 DEF Turn, Moved
  <2>3. CASE ~(more /\ offset[t] + limit <= reach)
    BY <1>2, <2>1, <2>3 DEF Turn, Moved
  <2> QED
    BY <2>2, <2>3
<1> QED
  BY <1>1, <1>2

LEMMA MovedTypes ==
    ASSUME TypeOK, NEW t \in Task, NEW limit \in Nat, NEW reach, Moved(t, limit, reach)
    PROVE  /\ task' \in [Task -> TaskStates] /\ offset' \in [Task -> Nat]
           /\ task'[t] \in {"asking", "done", "failed"}
           /\ \A s \in Task : s # t => task'[s] = task[s] /\ offset'[s] = offset[s]
           /\ task'[t] = "asking" => /\ offset'[t] = offset[t] + limit
                                     /\ offset[t] + limit <= reach
<1>1. offset[t] + limit \in Nat
  BY DEF TypeOK
<1>2. CASE offset' = offset /\ (task' = [task EXCEPT ![t] = "failed"]
                                \/ task' = [task EXCEPT ![t] = "done"])
  BY <1>2 DEF TypeOK, TaskStates
<1>3. CASE /\ task' = [task EXCEPT ![t] = "done"]
           /\ offset' = [offset EXCEPT ![t] = offset[t] + limit]
  BY <1>1, <1>3 DEF TypeOK, TaskStates
<1>4. CASE /\ task' = [task EXCEPT ![t] = "asking"]
           /\ offset' = [offset EXCEPT ![t] = offset[t] + limit]
           /\ offset[t] + limit <= reach
  BY <1>1, <1>4 DEF TypeOK, TaskStates
<1> QED
  BY <1>2, <1>3, <1>4 DEF Moved

(* A page of a ranking touches its own task only.                           *)
LEMMA LeaderboardPageEffect ==
    ASSUME TypeOK, NEW o \in Order, LeaderboardPage(o)
    PROVE  /\ task[o] = "asking" /\ UNCHANGED <<server, pc, positions, observations>>
           /\ task' \in [Task -> TaskStates] /\ offset' \in [Task -> Nat]
           /\ task'[o] \in {"asking", "done", "failed"}
           /\ \A s \in Task : s # o => task'[s] = task[s] /\ offset'[s] = offset[s]
           /\ task'[o] = "asking" => offset'[o] <= LeaderboardReach
<1> DEFINE page == Page(board[o], offset[o], LeaderboardLimit)
           read == Reading(o, page)
<1>1. task[o] = "asking" /\ UNCHANGED <<server, pc, positions, observations>>
  BY DEF LeaderboardPage
<1>2. \/ Turn(o, page, LeaderboardLimit, LeaderboardReach, Len(read.wallets) < WalletCount)
      \/ Goto(o, "failed") /\ UNCHANGED <<wallets, offset>>
  <2> HIDE DEF Goto
  <2> QED
    BY Zenon DEF LeaderboardPage
<1>3. Moved(o, LeaderboardLimit, LeaderboardReach)
  <2>1. CASE Turn(o, page, LeaderboardLimit, LeaderboardReach, Len(read.wallets) < WalletCount)
    <3> HIDE DEF page, read
    <3> QED
      BY <2>1, TurnEffect
  <2>2. CASE Goto(o, "failed") /\ UNCHANGED <<wallets, offset>>
    BY <2>2 DEF Moved
  <2> QED
    BY <1>2, <2>1, <2>2
<1> HIDE DEF page, read
<1>4. o \in Task
  BY DEF Task
<1> QED
  BY <1>1, <1>3, <1>4, MovedTypes, Limits

(* A page of positions is added to those read, or fails its task.           *)
LEMMA PositionsPageEffect ==
    ASSUME TypeOK, NEW w \in Wallet, PositionsPage(w)
    PROVE  /\ task[w] = "asking" /\ UNCHANGED <<server, pc, wallets, observations>>
           /\ task' \in [Task -> TaskStates] /\ offset' \in [Task -> Nat]
           /\ task'[w] \in {"asking", "done", "failed"}
           /\ \A s \in Task : s # w => task'[s] = task[s] /\ offset'[s] = offset[s]
           /\ task'[w] = "asking" => /\ offset'[w] = offset[w] + PositionLimit
                                     /\ offset[w] + PositionLimit <= PositionReach
           /\ \/ task'[w] = "failed" /\ positions' = positions
              \/ LET page == Page(held[w], offset[w], PositionLimit)
                 IN  /\ positions' = [positions EXCEPT ![w] = @ \o page]
                     /\ Turn(w, page, PositionLimit, PositionReach, TRUE)
<1> DEFINE page == Page(held[w], offset[w], PositionLimit)
<1>1. task[w] = "asking" /\ UNCHANGED <<server, pc, wallets, observations>>
  BY DEF PositionsPage
<1>2. \/ /\ positions' = [positions EXCEPT ![w] = @ \o page]
         /\ Turn(w, page, PositionLimit, PositionReach, TRUE)
      \/ Goto(w, "failed") /\ UNCHANGED <<positions, offset>>
  BY Zenon DEF PositionsPage
<1>3. w \in Task
  BY DEF Task
<1>4. Moved(w, PositionLimit, PositionReach)
  <2>1. CASE Turn(w, page, PositionLimit, PositionReach, TRUE)
    <3> HIDE DEF page
    <3> QED
      BY <2>1, TurnEffect
  <2>2. CASE Goto(w, "failed") /\ UNCHANGED <<positions, offset>>
    BY <2>2 DEF Moved
  <2> QED
    BY <1>2, <2>1, <2>2
<1>5. task' = [task EXCEPT ![w] = "failed"] => task'[w] = "failed"
  BY <1>3 DEF TypeOK
<1> HIDE DEF page
<1>6. /\ task' \in [Task -> TaskStates] /\ offset' \in [Task -> Nat]
      /\ task'[w] \in {"asking", "done", "failed"}
      /\ \A s \in Task : s # w => task'[s] = task[s] /\ offset'[s] = offset[s]
      /\ task'[w] = "asking" => /\ offset'[w] = offset[w] + PositionLimit
                                /\ offset[w] + PositionLimit <= PositionReach
  BY <1>3, <1>4, MovedTypes, Limits
<1> QED
  BY <1>1, <1>2, <1>5, <1>6 DEF page

(* What a page of a ranking leaves there.                                   *)
LEMMA LeaderboardPageReads ==
    ASSUME TypeOK, NEW o \in Order, LeaderboardPage(o)
    PROVE  LET page == Page(board[o], offset[o], LeaderboardLimit)
               read == Reading(o, page)
           IN  /\ read \in Reads
               /\ \/ task'[o] = "failed" /\ wallets' = wallets
                  \/ /\ read.sound /\ wallets' = [wallets EXCEPT ![o] = read.wallets]
                     /\ Turn(o, page, LeaderboardLimit, LeaderboardReach,
                             Len(read.wallets) < WalletCount)
<1> DEFINE page == Page(board[o], offset[o], LeaderboardLimit)
           read == Reading(o, page)
<1>1. o \in Task /\ board[o] \in Seq(Row) /\ offset[o] \in Nat /\ wallets[o] \in Seq(Wallet)
  BY DEF TypeOK, Task
<1>2. page \in Seq(Row)
  BY <1>1, PageProperties, Limits
<1>3. read \in Reads
  <2>1. [sound |-> TRUE, wallets |-> wallets[o]] \in Reads
    BY <1>1 DEF Reads
  <2> HIDE DEF page
  <2> QED
    BY <1>2, <2>1, ReadingTypes DEF Reading
<1>4. \/ /\ read.sound /\ wallets' = [wallets EXCEPT ![o] = read.wallets]
         /\ Turn(o, page, LeaderboardLimit, LeaderboardReach, Len(read.wallets) < WalletCount)
      \/ Goto(o, "failed") /\ UNCHANGED <<wallets, offset>>
  <2> HIDE DEF Goto
  <2> QED
    BY Zenon DEF LeaderboardPage
<1>5. Goto(o, "failed") => task'[o] = "failed"
  BY <1>1 DEF TypeOK
<1> HIDE DEF page, read
<1>6. \/ task'[o] = "failed" /\ wallets' = wallets
      \/ /\ read.sound /\ wallets' = [wallets EXCEPT ![o] = read.wallets]
         /\ Turn(o, page, LeaderboardLimit, LeaderboardReach, Len(read.wallets) < WalletCount)
  BY <1>4, <1>5
<1> QED
  BY <1>3, <1>6 DEF page, read

(* The result has the type of evidence, and counts every position.          *)
LEMMA GroupedCounts ==
    ASSUME TypeOK
    PROVE  /\ Grouped \in Evidence
           /\ (\A i, j \in DOMAIN wallets["PNL"] :
                    wallets["PNL"][i] = wallets["PNL"][j] => i = j) =>
                 \A c \in Condition, v \in Wallet, q \in Position :
                    Occurrences(Grouped[c], <<v, q>>) =
                       IF v \in Selected /\ ConditionOf[q] = c
                       THEN Occurrences(positions[v], q) ELSE 0
<1>1. wallets["PNL"] \in Seq(Wallet)
  BY DEF TypeOK, Order
<1>2. DOMAIN Collected = Selected /\ \A w \in Selected : Collected[w] = positions[w]
  BY DEF Collected
<1>3. \A w \in DOMAIN Collected : Collected[w] \in Seq(Position)
  BY <1>2 DEF TypeOK, Selected
<1>4. \A w \in Selected : w \in ToSet(wallets["PNL"])
  BY DEF Selected, Order
<1> DEFINE all == Wallets!Run(Collected, wallets["PNL"], [c \in Condition |-> <<>>],
                              DOMAIN wallets["PNL"])
<1>5. /\ all \in Evidence
      /\ (\A i, j \in DOMAIN wallets["PNL"] :
               wallets["PNL"][i] = wallets["PNL"][j] => i = j) =>
            \A c \in Condition, v \in Wallet, q \in Position :
               Occurrences(all[c], <<v, q>>) =
                  IF v \in ToSet(wallets["PNL"]) /\ v \in DOMAIN Collected /\ ConditionOf[q] = c
                  THEN Occurrences(Collected[v], q) ELSE 0
  BY ONLY <1>1, <1>3, AddWallets
<1>6. Grouped = all
  BY ONLY DEF Grouped, FoldLeft, MapThenFoldSet, Wallets!Run, AddNthWallet
<1> HIDE DEF all
<1> QED
  BY <1>2, <1>4, <1>5, <1>6

---------------------------------------------------------------------------
(* The types survive every step.                                            *)
LEMMA TypeStep ==
    ASSUME TypeOK, [Next]_vars
    PROVE  TypeOK'
<1> USE ConstantAssumption DEF TypeOK, TaskStates, Task, Awaiting, Ended
<1>1. ASSUME NEW o \in Order, LeaderboardPage(o) PROVE TypeOK'
  <2>1. /\ task' \in [Task -> TaskStates] /\ offset' \in [Task -> Nat]
        /\ UNCHANGED <<board, held, changes, pc, positions, observations>>
    BY <1>1, LeaderboardPageEffect
  <2>2. PICK list \in Seq(Wallet) : wallets' = wallets \/ wallets' = [wallets EXCEPT ![o] = list]
    <3> DEFINE read == Reading(o, Page(board[o], offset[o], LeaderboardLimit))
    <3>1. read \in Reads /\ (wallets' = wallets \/ wallets' = [wallets EXCEPT ![o] = read.wallets])
      BY ONLY TypeOK, <1>1, LeaderboardPageReads
    <3> HIDE DEF read
    <3>2. read.wallets \in Seq(Wallet)
      BY <3>1 DEF Reads
    <3> QED
      BY <3>1, <3>2
  <2>3. wallets' \in [Order -> Seq(Wallet)]
    <3>1. wallets \in [Order -> Seq(Wallet)]
      BY DEF TypeOK
    <3> QED
      BY ONLY <2>2, <3>1
  <2> QED
    BY ONLY TypeOK, <2>1, <2>3 DEF TypeOK
<1>2. ASSUME NEW w \in Wallet, PositionsPage(w) PROVE TypeOK'
  <2> DEFINE page == Page(held[w], offset[w], PositionLimit)
  <2>1. page \in Seq(Position)
    BY PageProperties, Limits
  <2> HIDE DEF page
  <2>2. positions[w] \o page \in Seq(Position)
    BY <2>1, ConcatProperties
  <2>3. positions' \in [Wallet -> Seq(Position)]
    BY <1>2, <2>2 DEF PositionsPage, page
  <2>4. task' \in [Task -> TaskStates] /\ offset' \in [Task -> Nat]
    BY <1>2, PositionsPageEffect
  <2> QED
    BY <1>2, <2>3, <2>4 DEF PositionsPage
<1>3. ASSUME NEW t \in Task, RequestFails(t) PROVE TypeOK'
  BY <1>3 DEF RequestFails
<1>4. CASE SelectWallets \/ Raise
  BY <1>4 DEF SelectWallets, Raise
<1>5. CASE Return
  <2>1. Grouped \in [Condition -> Seq(Wallet \X Position)]
    BY GroupedCounts DEF Evidence
  <2> QED
    BY <1>5, <2>1 DEF Return
<1>6. CASE Cancel \/ CloseLoop
  <2>1. Stopped \in [Task -> TaskStates]
    BY DEF Stopped
  <2>2. task' = task \/ task' = Stopped
    BY <1>6 DEF Cancel, CloseLoop
  <2>3. /\ UNCHANGED <<board, held, changes, offset, wallets, positions, observations>>
        /\ pc' \in {pc, "cancelled"}
    BY <1>6 DEF Cancel, CloseLoop
  <2> QED
    BY ONLY TypeOK, <2>1, <2>2, <2>3 DEF TypeOK, TaskStates
<1>7. CASE ServerChanges
  <2>1. held' = held \/ \E w \in Wallet, holding \in Seq(Position) :
                           held' = [held EXCEPT ![w] = holding]
    BY <1>7 DEF ServerChanges
  <2>2. held' \in [Wallet -> Seq(Position)]
    <3>1. held \in [Wallet -> Seq(Position)]
      BY DEF TypeOK
    <3> QED
      BY ONLY <2>1, <3>1
  <2>3. board' = board \/ \E o \in Order, ranking \in Seq(Row) :
                            board' = [board EXCEPT ![o] = ranking]
    BY <1>7 DEF ServerChanges
  <2>4. board' \in [Order -> Seq(Row)]
    <3>1. board \in [Order -> Seq(Row)]
      BY DEF TypeOK
    <3> QED
      BY ONLY <2>3, <3>1
  <2>5. changes' \in Nat /\ UNCHANGED <<pc, task, offset, wallets, positions, observations>>
    BY <1>7 DEF ServerChanges
  <2> QED
    BY ONLY TypeOK, <2>2, <2>4, <2>5 DEF TypeOK
<1>8. CASE Finished \/ UNCHANGED vars
  BY <1>8 DEF Finished
<1> QED
  BY <1>1, <1>2, <1>3, <1>4, <1>5, <1>6, <1>7, <1>8 DEF Next, TaskStep

LEMMA TypeInit == Init => TypeOK /\ TasksAreGathered
<1> SUFFICES ASSUME Init PROVE TypeOK /\ TasksAreGathered
  OBVIOUS
<1>1. <<>> \in Seq(Position)
  BY EmptySeq
<1> QED
  BY <1>1, ConstantAssumption
     DEF Init, TypeOK, TaskStates, Task, Order, Awaiting, TasksAreGathered, ResultsAreWhole

---------------------------------------------------------------------------
(* The steps of tasks and of discover keep the tasks gathered.              *)
LEMMA GatheredStep ==
    ASSUME TypeOK, TasksAreGathered, [Next]_vars
    PROVE  TasksAreGathered'
<1> USE ConstantAssumption DEF TypeOK, TaskStates, Task, TasksAreGathered, ResultsAreWhole
<1>1. ASSUME NEW o \in Order, LeaderboardPage(o) PROVE TasksAreGathered'
  <2>1. pc # "positions" /\ pc # "returned"
    BY <1>1, LeaderboardPageEffect
  <2> QED
    BY <1>1, <2>1, LeaderboardPageEffect
<1>2. ASSUME NEW w \in Wallet, PositionsPage(w) PROVE TasksAreGathered'
  <2>1. pc # "leaderboards" /\ pc # "returned" /\ task[w] = "asking"
    BY <1>2 DEF PositionsPage
  <2>2. Selected' = Selected
    BY <1>2 DEF PositionsPage, Selected
  <2>3. \E status \in {"asking", "done", "failed"} : task' = [task EXCEPT ![w] = status]
    BY <1>2 DEF PositionsPage, Turn
  <2> QED
    BY <1>2, <2>1, <2>2, <2>3 DEF PositionsPage
<1>3. ASSUME NEW t \in Task, RequestFails(t) PROVE TasksAreGathered'
  <2>1. Selected' = Selected
    BY <1>3 DEF RequestFails, Selected
  <2>2. pc # "returned" /\ task[t] = "asking" /\ (t \notin Order \/ pc # "positions")
    BY <1>3 DEF RequestFails
  <2> QED
    BY <1>3, <2>1, <2>2 DEF RequestFails
<1>4. CASE SelectWallets
  <2>1. Selected' = Selected /\ pc' = "positions" /\ Selected \subseteq Wallet
    BY <1>4 DEF SelectWallets, Selected
  <2>2. \A t \in Task : task'[t] = IF t \in Selected THEN "asking" ELSE task[t]
    BY <1>4 DEF SelectWallets
  <2>3. \A o \in Order : task[o] = "done"
    BY <1>4 DEF SelectWallets
  <2>4. \A w \in Wallet : task[w] = "none"
    BY <1>4 DEF SelectWallets
  <2> QED
    BY <2>1, <2>2, <2>3, <2>4
<1>5. CASE Return
  <2>1. Selected' = Selected
    BY <1>5 DEF Return, Selected
  <2> QED
    BY <1>5, <2>1 DEF Return
<1>6. CASE Raise
  BY <1>6 DEF Raise
<1>7. CASE Cancel
  BY <1>7 DEF Cancel
<1>8. CASE CloseLoop
  <2>1. Selected' = Selected /\ pc' = pc /\ pc \in Ended /\ task' = Stopped
    BY <1>8 DEF CloseLoop, Selected
  <2>2. pc = "returned" => task' = task
    BY <2>1 DEF Stopped
  <2> QED
    BY <2>1, <2>2 DEF Ended
<1>9. CASE ServerChanges \/ Finished \/ UNCHANGED vars
  <2>1. Selected' = Selected /\ pc' = pc /\ task' = task
    BY <1>9 DEF ServerChanges, Finished, Selected
  <2> QED
    BY <2>1
<1> QED
  BY <1>1, <1>2, <1>3, <1>4, <1>5, <1>6, <1>7, <1>8, <1>9 DEF Next, TaskStep

(* A result has waited for both rankings and for every wallet on both, and  *)
(* leaves no request behind, whatever fails, is cancelled or changes.       *)
THEOREM ResultsWhole == Spec => []ResultsAreWhole
<1>1. TypeOK /\ TasksAreGathered /\ [Next]_vars => (TypeOK /\ TasksAreGathered)'
  BY TypeStep, GatheredStep
<1>2. TasksAreGathered => ResultsAreWhole
  BY DEF TasksAreGathered
<1> QED
  BY <1>1, <1>2, TypeInit, PTL DEF Spec

---------------------------------------------------------------------------
(* Every other step leaves what is read alone: it fails, cancels or starts  *)
(* tasks, or changes the server and says so.                                *)
LEMMA OtherSteps ==
    ASSUME TypeOK, TasksAreGathered, [Next]_vars,
           \A o \in Order : ~ LeaderboardPage(o), \A w \in Wallet : ~ PositionsPage(w)
    PROVE  /\ UNCHANGED <<offset, wallets, positions>>
           /\ \A t \in Task :
                 \/ task'[t] = task[t]
                 \/ task'[t] \in {"failed", "cancelled"}
                 \/ t \in Wallet /\ task[t] = "none" /\ task'[t] = "asking"
           /\ changes' = 0 => changes = 0 /\ held' = held /\ board' = board
<1> USE ConstantAssumption DEF TypeOK, TaskStates, Task
<1>1. CASE \E t \in Task : RequestFails(t)
  BY <1>1 DEF RequestFails
<1>2. CASE SelectWallets
  <2>1. \A t \in Task : task'[t] = IF t \in Selected THEN "asking" ELSE task[t]
    BY <1>2 DEF SelectWallets
  <2>2. \A w \in Wallet : task[w] = "none"
    BY <1>2 DEF SelectWallets, TasksAreGathered
  <2>3. Selected \subseteq Wallet
    BY DEF Selected
  <2>4. UNCHANGED <<offset, wallets, positions, changes, held, board>>
    BY <1>2 DEF SelectWallets
  <2> QED
    BY <2>1, <2>2, <2>3, <2>4
<1>3. CASE Return \/ Raise \/ Finished \/ UNCHANGED vars
  BY <1>3 DEF Return, Raise, Finished
<1>4. CASE Cancel \/ CloseLoop
  <2>1. (task' = task \/ task' = Stopped) /\ UNCHANGED <<offset, wallets, positions, changes, held, board>>
    BY <1>4 DEF Cancel, CloseLoop
  <2> QED
    BY <2>1 DEF Stopped
<1>5. CASE ServerChanges
  <2>1. UNCHANGED <<offset, wallets, positions, task>> /\ changes' = changes + 1
    BY <1>5 DEF ServerChanges
  <2> QED
    BY <2>1
<1> QED
  BY <1>1, <1>2, <1>3, <1>4, <1>5 DEF Next, TaskStep

(* Tasks ask at the beginning of a page within reach.                       *)
LEMMA OffsetsStep ==
    ASSUME TypeOK, TasksAreGathered, OffsetsAreInReach, [Next]_vars
    PROVE  OffsetsAreInReach'
<1> USE ConstantAssumption DEF TypeOK, TaskStates, Task
<1>1. ASSUME NEW o \in Order, LeaderboardPage(o) PROVE OffsetsAreInReach'
  <2>1. \A t \in Task : t # o => task'[t] = task[t] /\ offset'[t] = offset[t]
    BY <1>1, LeaderboardPageEffect
  <2>2. task'[o] = "asking" => offset'[o] <= LeaderboardReach
    BY <1>1, LeaderboardPageEffect
  <2>3. \A w \in Wallet : w # o
    OBVIOUS
  <2> QED
    BY <2>1, <2>2, <2>3 DEF OffsetsAreInReach
<1>2. ASSUME NEW w \in Wallet, PositionsPage(w) PROVE OffsetsAreInReach'
  <2>1. \A t \in Task : t # w => task'[t] = task[t] /\ offset'[t] = offset[t]
    BY <1>2, PositionsPageEffect
  <2>2. task[w] = "asking" /\ task'[w] # "none"
    BY <1>2, PositionsPageEffect
  <2>3. ASSUME task'[w] = "asking"
        PROVE  /\ offset'[w] <= PositionReach
               /\ \E k \in 0..offset'[w] : offset'[w] = k * PositionLimit
    <3>1. offset'[w] = offset[w] + PositionLimit /\ offset[w] + PositionLimit <= PositionReach
      BY <1>2, <2>3, PositionsPageEffect
    <3>2. PICK k \in 0..offset[w] : offset[w] = k * PositionLimit
      BY <2>2 DEF OffsetsAreInReach
    <3>3. k + 1 \in 0..offset[w] + PositionLimit
      <4>1. offset[w] \in Nat /\ k \in Nat /\ k <= offset[w]
        BY <3>2
      <4> QED
        BY ONLY <4>1, Limits
    <3>4. (k + 1) * PositionLimit = k * PositionLimit + PositionLimit
      BY <3>2, Limits
    <3>5. k + 1 \in 0..offset'[w] /\ offset'[w] = (k + 1) * PositionLimit
      BY <3>1, <3>2, <3>3, <3>4
    <3> QED
      BY <3>1, <3>5
  <2>4. \A o \in Order : w # o
    OBVIOUS
  <2> QED
    BY <2>1, <2>2, <2>3, <2>4 DEF OffsetsAreInReach
<1>3. CASE (\A o \in Order : ~ LeaderboardPage(o)) /\ (\A w \in Wallet : ~ PositionsPage(w))
  <2>1. /\ offset' = offset
        /\ \A t \in Task : \/ task'[t] = task[t]
                           \/ task'[t] \in {"failed", "cancelled"}
                           \/ t \in Wallet /\ task[t] = "none" /\ task'[t] = "asking"
    BY <1>3, OtherSteps
  <2>2. \A o \in Order : task'[o] = "asking" => task[o] = "asking"
    BY <2>1
  <2>3. ASSUME NEW w \in Wallet, task'[w] = "asking", task[w] = "none"
        PROVE  offset[w] <= PositionReach /\ \E k \in 0..offset[w] : offset[w] = k * PositionLimit
    <3>1. offset[w] = 0 /\ 0 * PositionLimit = 0
      BY <2>3, Limits DEF OffsetsAreInReach
    <3> QED
      BY <3>1, Limits
  <2> QED
    BY <2>1, <2>2, <2>3 DEF OffsetsAreInReach
<1> QED
  BY <1>1, <1>2, <1>3

(* No page is asked for beyond the largest offset the parameters accept.    *)
THEOREM RequestsAdmissible == Spec => []RequestsAreAdmissible
<1>1. Init => OffsetsAreInReach
  BY ConstantAssumption, Limits DEF Init, OffsetsAreInReach, Task, Order
<1>2. TypeOK /\ OffsetsAreInReach => RequestsAreAdmissible
  <2> SUFFICES ASSUME TypeOK, OffsetsAreInReach, NEW t \in Task, task[t] = "asking"
               PROVE  offset[t] <= OffsetBound[t]
    BY DEF RequestsAreAdmissible
  <2>1. CASE t \in Order
    BY <2>1, Limits, ConstantAssumption DEF TypeOK, OffsetsAreInReach, Task
  <2>2. CASE t \in Wallet
    BY <2>2, Limits, ConstantAssumption DEF TypeOK, OffsetsAreInReach, Task
  <2> QED
    BY <2>1, <2>2 DEF Task
<1>3. /\ TypeOK /\ TasksAreGathered /\ OffsetsAreInReach /\ [Next]_vars
         => (TypeOK /\ TasksAreGathered /\ OffsetsAreInReach)'
  BY TypeStep, GatheredStep, OffsetsStep
<1> QED
  BY <1>1, <1>2, <1>3, TypeInit, PTL DEF Spec

---------------------------------------------------------------------------
(* Full pages up to an offset, and the last page the reach allows.          *)
LEMMA PagesInReach ==
    ASSUME NEW reach \in Nat, NEW limit \in Nat \ {0}, NEW k \in Nat, k * limit <= reach
    PROVE  /\ k * limit + limit <= (reach \div limit + 1) * limit
           /\ k * limit + limit > reach => (reach \div limit + 1) * limit = k * limit + limit
<1> DEFINE q == reach \div limit
<1>1. q \in Nat /\ q * limit <= reach /\ reach < q * limit + limit
  BY Z3
<1> HIDE DEF q
<1>2. (q + 1) * limit = q * limit + limit /\ (k + 1) * limit = k * limit + limit
  BY <1>1
<1>3. ASSUME k > q PROVE FALSE
  <2>1. PICK d \in Nat : k = q + 1 + d
    <3>1. k - q - 1 \in Nat /\ k = q + 1 + (k - q - 1)
      BY <1>1, <1>3
    <3> QED
      BY <3>1
  <2>2. k * limit = (q + 1) * limit + d * limit /\ d * limit >= 0
    BY <1>1, <2>1
  <2> QED
    BY <1>1, <1>2, <2>2
<1>4. PICK d \in Nat : q = k + d
  <2>1. q - k \in Nat /\ q = k + (q - k)
    BY <1>1, <1>3
  <2> QED
    BY <2>1
<1>5. q * limit = k * limit + d * limit /\ d * limit >= 0
  BY <1>1, <1>4
<1>6. d > 0 => d * limit >= limit
  OBVIOUS
<1>7. k * limit + limit > reach => d = 0
  BY <1>1, <1>5, <1>6
<1> QED
  BY <1>1, <1>2, <1>5, <1>7 DEF q

(* A page of a still list extends what has been read by what comes next,    *)
(* and the task is done exactly when nothing in reach is left.              *)
LEMMA PositionsStep ==
    ASSUME TypeOK, TasksAreGathered, OffsetsAreInReach, PositionsAreRead,
           PositionsAreComplete, [Next]_vars
    PROVE  PositionsAreRead' /\ PositionsAreComplete'
<1> USE ConstantAssumption DEF TypeOK, TaskStates, Task
<1>1. ASSUME NEW o \in Order, LeaderboardPage(o) PROVE PositionsAreRead' /\ PositionsAreComplete'
  <2>1. \A w \in Wallet : task'[w] = task[w] /\ offset'[w] = offset[w]
    BY <1>1, LeaderboardPageEffect
  <2>2. UNCHANGED <<held, changes, positions>>
    BY <1>1, LeaderboardPageEffect
  <2> QED
    BY <2>1, <2>2 DEF PositionsAreRead, PositionsAreComplete, InReach
<1>2. ASSUME NEW w \in Wallet, PositionsPage(w) PROVE PositionsAreRead' /\ PositionsAreComplete'
  <2> DEFINE page == Page(held[w], offset[w], PositionLimit)
             last == Smaller(offset[w] + PositionLimit, Len(held[w]))
  <2>1. UNCHANGED <<held, changes>>
    BY <1>2, PositionsPageEffect
  <2>2. \A v \in Wallet : v # w =>
            task'[v] = task[v] /\ offset'[v] = offset[v] /\ positions'[v] = positions[v]
    <3>1. \A v \in Wallet : v # w => task'[v] = task[v] /\ offset'[v] = offset[v]
      BY <1>2, PositionsPageEffect
    <3>2. positions' = positions \/ positions' = [positions EXCEPT ![w] = @ \o page]
      BY <1>2, PositionsPageEffect
    <3> HIDE DEF page
    <3>3. \A v \in Wallet : v # w => positions'[v] = positions[v]
      BY <3>2
    <3> QED
      BY <3>1, <3>3
  <2>3. task[w] = "asking" /\ task'[w] # "none"
    BY <1>2, PositionsPageEffect
  <2>4. ASSUME changes = 0, task'[w] # "failed"
        PROVE  /\ task'[w] = "asking" => /\ offset'[w] <= Len(held[w])
                                         /\ positions'[w] = SubSeq(held[w], 1, offset'[w])
               /\ task'[w] = "done" =>
                     positions'[w] = InReach(held[w], PositionLimit, PositionReach)
    <3>1. offset[w] <= Len(held[w]) /\ positions[w] = SubSeq(held[w], 1, offset[w])
      BY <2>3, <2>4 DEF PositionsAreRead
    <3>2. PICK k \in Nat : offset[w] = k * PositionLimit /\ k * PositionLimit <= PositionReach
      BY <2>3 DEF OffsetsAreInReach
    <3>3. /\ positions' = [positions EXCEPT ![w] = @ \o page]
          /\ Turn(w, page, PositionLimit, PositionReach, TRUE)
      BY <1>2, <2>4, PositionsPageEffect
    <3>4. /\ Len(page) = last - offset[w]
          /\ SubSeq(held[w], 1, offset[w]) \o page = SubSeq(held[w], 1, last)
      <4>1. held[w] \in Seq(Position) /\ offset[w] \in Nat
        OBVIOUS
      <4>2. offset[w] <= Len(held[w]) =>
               /\ Len(page) = Smaller(offset[w] + PositionLimit, Len(held[w])) - offset[w]
               /\ SubSeq(held[w], 1, offset[w]) \o page
                     = SubSeq(held[w], 1, Smaller(offset[w] + PositionLimit, Len(held[w])))
        BY ONLY <4>1, Limits, PageProperties, Zenon
      <4> QED
        BY <3>1, <4>2
    <3>5. positions'[w] = SubSeq(held[w], 1, last)
      <4> HIDE DEF page, last
      <4> QED
        BY <3>1, <3>3, <3>4
    <3>6. Len(held[w]) \in Nat
      BY LenProperties
    <3> DEFINE whole == (PositionReach \div PositionLimit + 1) * PositionLimit
    <3>7. /\ whole \in Int
          /\ offset[w] + PositionLimit <= whole
          /\ offset[w] + PositionLimit > PositionReach => whole = offset[w] + PositionLimit
      <4>1. PositionReach \div PositionLimit \in Int
        BY Limits, Z3
      <4>2. whole \in Int
        BY <4>1, Limits
      <4>3. /\ k * PositionLimit + PositionLimit <= whole
            /\ k * PositionLimit + PositionLimit > PositionReach
                  => whole = k * PositionLimit + PositionLimit
        BY ONLY <3>2, PagesInReach, Limits
      <4> HIDE DEF whole
      <4> QED
        BY <3>2, <4>2, <4>3
    <3>8. CASE Len(page) < PositionLimit
      <4>1. task'[w] = "done"
        BY <3>3, <3>8 DEF Turn
      <4>2. last = Len(held[w]) /\ Len(held[w]) < offset[w] + PositionLimit
        <5> HIDE DEF page
        <5> QED
          BY <3>1, <3>4, <3>6, <3>8, Limits DEF Smaller
      <4>3. Smaller(whole, Len(held[w])) = Len(held[w])
        <5> HIDE DEF whole
        <5> QED
          BY <3>6, <3>7, <4>2, Limits DEF Smaller
      <4> QED
        BY <3>5, <4>1, <4>2, <4>3 DEF InReach
    <3>9. CASE ~(Len(page) < PositionLimit)
      <4>1. last = offset[w] + PositionLimit /\ last <= Len(held[w])
        <5> HIDE DEF page
        <5> QED
          BY <3>1, <3>4, <3>6, <3>9, Limits DEF Smaller
      <4>2. offset'[w] = offset[w] + PositionLimit
        BY <3>3, <3>9 DEF Turn
      <4>3. task'[w] = IF offset[w] + PositionLimit <= PositionReach THEN "asking" ELSE "done"
        BY <3>3, <3>9 DEF Turn
      <4>4. CASE offset[w] + PositionLimit <= PositionReach
        <5> HIDE DEF last
        <5> QED
          BY <3>5, <4>1, <4>2, <4>3, <4>4
      <4>5. CASE ~(offset[w] + PositionLimit <= PositionReach)
        <5>1. whole = offset[w] + PositionLimit
          BY <3>7, <4>5, Limits
        <5>2. Smaller(whole, Len(held[w])) = last
          <6> HIDE DEF whole, last
          <6> QED
            BY <5>1, <4>1 DEF Smaller
        <5> QED
          BY <3>5, <4>3, <4>5, <5>2 DEF InReach
      <4> QED
        BY <4>4, <4>5
    <3> QED
      BY <3>8, <3>9
  <2> HIDE DEF page, last
  <2> QED
    BY <2>1, <2>2, <2>3, <2>4 DEF PositionsAreRead, PositionsAreComplete, InReach
<1>3. CASE (\A o \in Order : ~ LeaderboardPage(o)) /\ (\A w \in Wallet : ~ PositionsPage(w))
  <2>1. UNCHANGED <<offset, positions>> /\ (changes' = 0 => changes = 0 /\ held' = held)
    BY <1>3, OtherSteps
  <2>2. \A w \in Wallet : \/ task'[w] = task[w]
                          \/ task'[w] \in {"failed", "cancelled"}
                          \/ task[w] = "none" /\ task'[w] = "asking"
    BY <1>3, OtherSteps
  <2>3. ASSUME NEW w \in Wallet, task[w] = "none"
        PROVE  /\ offset[w] = 0 /\ positions[w] = <<>> /\ 0 <= Len(held[w])
               /\ SubSeq(held[w], 1, 0) = <<>>
    <3>1. SubSeq(held[w], 1, 0) = <<>>
      BY SubSeqEmpty
    <3>2. 0 <= Len(held[w])
      BY LenProperties
    <3> QED
      BY <2>3, <3>1, <3>2 DEF OffsetsAreInReach, PositionsAreRead
  <2> QED
    BY <2>1, <2>2, <2>3 DEF PositionsAreRead, PositionsAreComplete, InReach
<1> QED
  BY <1>1, <1>2, <1>3

(* A wallet's positions on a server that keeps still are read completely,   *)
(* in order and once, for any page size, reach and number of rows.          *)
THEOREM PositionsComplete == Spec => []PositionsAreComplete
<1>1. Init => OffsetsAreInReach
  BY ConstantAssumption, Limits DEF Init, OffsetsAreInReach, Task, Order
<1>2. Init => PositionsAreRead /\ PositionsAreComplete
  BY ConstantAssumption DEF Init, PositionsAreRead, PositionsAreComplete, Task, Order
<1> DEFINE IInv == /\ TypeOK /\ TasksAreGathered /\ OffsetsAreInReach
                   /\ PositionsAreRead /\ PositionsAreComplete
<1>3. IInv /\ [Next]_vars => IInv'
  BY TypeStep, GatheredStep, OffsetsStep, PositionsStep
<1>4. Init => IInv
  BY <1>1, <1>2, TypeInit
<1> QED
  BY <1>3, <1>4, PTL DEF Spec

---------------------------------------------------------------------------
(* Rankings.                                                                *)

(* A task that goes on has not found enough, and stands one page further.   *)
LEMMA RankingTurn ==
    ASSUME TypeOK, NEW o \in Order, LeaderboardPage(o), task'[o] = "asking"
    PROVE  /\ Len(wallets'[o]) < WalletCount
           /\ offset'[o] = offset[o] + LeaderboardLimit
<1> DEFINE page == Page(board[o], offset[o], LeaderboardLimit)
           read == Reading(o, page)
<1>1. /\ wallets' = [wallets EXCEPT ![o] = read.wallets]
      /\ Turn(o, page, LeaderboardLimit, LeaderboardReach, Len(read.wallets) < WalletCount)
  BY LeaderboardPageReads
<1>2. o \in Task /\ wallets'[o] = read.wallets
  BY <1>1 DEF TypeOK, Task
<1> HIDE DEF read, page
<1>3. Len(read.wallets) < WalletCount /\ offset' = [offset EXCEPT ![o] = @ + LeaderboardLimit]
  BY <1>1, <1>2 DEF Turn, TypeOK
<1> QED
  BY <1>2, <1>3 DEF TypeOK

(* A page of a still ranking extends what has been read; the leaders are    *)
(* found when enough has been read or nothing in reach is left.             *)
LEMMA RankingPage ==
    ASSUME TypeOK, OffsetsAreInReach, RankingsAreRead, NEW o \in Order, LeaderboardPage(o),
           changes = 0, task'[o] # "failed"
    PROVE  /\ task'[o] = "asking" => /\ offset'[o] <= Len(board[o])
                                     /\ Ranked(wallets'[o], board[o], offset'[o])
           /\ task'[o] = "done" => /\ ToSet(wallets'[o]) = Leaders(o)
                                   /\ \A i \in DOMAIN wallets'[o] : Rank(board[o], wallets'[o][i]) = i
<1> DEFINE page == Page(board[o], offset[o], LeaderboardLimit)
           read == Reading(o, page)
           list == read.wallets
           whole == (LeaderboardReach \div LeaderboardLimit + 1) * LeaderboardLimit
           last == offset[o] + Len(page)
           all == Smaller(whole, Len(board[o]))
<1>1. /\ task[o] = "asking" /\ o \in Task /\ offset[o] \in Nat
      /\ board[o] \in Seq(Row) /\ wallets[o] \in Seq(Wallet) /\ Len(board[o]) \in Nat
  <2>1. task[o] = "asking"
    BY LeaderboardPageEffect
  <2>2. board[o] \in Seq(Row) /\ o \in Task
    BY DEF TypeOK, Task
  <2> QED
    BY <2>1, <2>2, LenProperties DEF TypeOK
<1>2. /\ offset[o] <= LeaderboardReach /\ offset[o] <= Len(board[o])
      /\ Ranked(wallets[o], board[o], offset[o]) /\ Len(wallets[o]) < WalletCount
  BY <1>1 DEF OffsetsAreInReach, RankingsAreRead, Ranked
<1>3. PICK k \in Nat : offset[o] = k * LeaderboardLimit
  BY <1>1 DEF RankingsAreRead
<1>4. /\ read.sound /\ read \in Reads
      /\ wallets' = [wallets EXCEPT ![o] = list]
      /\ Turn(o, page, LeaderboardLimit, LeaderboardReach, Len(list) < WalletCount)
  BY LeaderboardPageReads
<1>5. wallets'[o] = list /\ list \in Seq(Wallet) /\ Len(list) \in Nat
  <2>1. list \in Seq(Wallet)
    BY <1>4 DEF Reads
  <2>2. Len(list) \in Nat
    BY <2>1, LenProperties
  <2> HIDE DEF read
  <2> QED
    BY <1>4, <2>1, <2>2 DEF TypeOK
<1>6. Len(list) <= WalletCount /\ \E n \in 0..last :
          Ranked(list, board[o], n) /\ (Len(list) < WalletCount => n = last)
  <2> DEFINE fold == FoldLeft(Absorb, [sound |-> TRUE, wallets |-> wallets[o]], page)
  <2>1. fold.sound =>
           /\ fold.wallets \in Seq(Wallet) /\ Len(fold.wallets) <= WalletCount
           /\ \E n \in 0..offset[o] + Len(page) :
                 /\ Ranked(fold.wallets, board[o], n)
                 /\ Len(fold.wallets) < WalletCount => n = offset[o] + Len(page)
    BY ONLY <1>1, <1>2, ReadingRanks, Limits
  <2>2. read = fold
    BY DEF Reading
  <2> HIDE DEF fold, page
  <2> QED
    BY <1>4, <2>1, <2>2
<1>7. /\ Len(page) \in Nat /\ last <= Len(board[o])
      /\ Len(page) = Smaller(offset[o] + LeaderboardLimit, Len(board[o])) - offset[o]
  <2>1. Len(page) \in Nat /\ last <= Len(board[o])
    BY <1>1, <1>2, RowsOfPage, Limits
  <2>2. Len(page) = Smaller(offset[o] + LeaderboardLimit, Len(board[o])) - offset[o]
    BY <1>1, <1>2, PageProperties, Limits
  <2> QED
    BY <2>1, <2>2
<1>8. /\ whole \in Int
      /\ offset[o] + LeaderboardLimit <= whole
      /\ offset[o] + LeaderboardLimit > LeaderboardReach => whole = offset[o] + LeaderboardLimit
  <2>1. LeaderboardReach \div LeaderboardLimit \in Int
    BY Limits, Z3
  <2>2. whole \in Int
    BY <2>1, Limits
  <2>3. k * LeaderboardLimit <= LeaderboardReach
    BY <1>2, <1>3
  <2>4. /\ k * LeaderboardLimit + LeaderboardLimit <= whole
        /\ k * LeaderboardLimit + LeaderboardLimit > LeaderboardReach
              => whole = k * LeaderboardLimit + LeaderboardLimit
    BY ONLY <1>3, <2>3, PagesInReach, Limits
  <2> HIDE DEF whole
  <2> QED
    BY <1>3, <2>2, <2>4
<1> HIDE DEF page, read, whole
<1>9. /\ last \in Nat /\ all \in 0..Len(board[o]) /\ last <= all
      /\ Len(page) < LeaderboardLimit => last = all
      /\ ~(Len(page) < LeaderboardLimit) => Len(page) = LeaderboardLimit
      /\ ~(Len(page) < LeaderboardLimit) /\ ~(offset[o] + LeaderboardLimit <= LeaderboardReach)
            => last = all
  <2>1. last = Smaller(offset[o] + LeaderboardLimit, Len(board[o])) /\ last \in Nat
    BY <1>1, <1>7, Limits DEF Smaller
  <2>2. all \in 0..Len(board[o])
    BY <1>1, <1>8, Limits DEF Smaller
  <2> HIDE DEF last
  <2>3. Len(page) = last - offset[o]
    BY <1>7, <2>1
  <2>4. last <= all
    BY <1>1, <1>8, <2>1, Limits DEF Smaller
  <2>5. CASE last = Len(board[o])
    BY <1>1, <1>7, <1>8, <2>1, <2>2, <2>3, <2>4, <2>5, Limits DEF Smaller
  <2>6. CASE last = offset[o] + LeaderboardLimit
    <3>1. Len(page) = LeaderboardLimit
      BY <1>1, <1>7, <2>1, <2>3, <2>6, Limits
    <3>2. ~(offset[o] + LeaderboardLimit <= LeaderboardReach) => last = all
      BY <1>1, <1>8, <2>1, <2>6, Limits DEF Smaller
    <3> QED
      BY <2>1, <2>2, <2>4, <3>1, <3>2, Limits
  <2> QED
    BY <1>1, <2>1, <2>5, <2>6, Limits DEF Smaller
<1>10. /\ offset[o] + LeaderboardLimit \in Nat
       /\ task'[o] = "asking" => /\ ~(Len(page) < LeaderboardLimit)
                                 /\ Len(list) < WalletCount
                                 /\ offset'[o] = offset[o] + LeaderboardLimit
       /\ task'[o] = "done" => \/ Len(page) < LeaderboardLimit
                               \/ ~(Len(list) < WalletCount)
                               \/ ~(offset[o] + LeaderboardLimit <= LeaderboardReach)
  <2>1. offset[o] + LeaderboardLimit \in Nat
    BY <1>1, Limits
  <2>2. CASE Len(page) < LeaderboardLimit
    <3>1. task'[o] = "done"
      BY <1>1, <1>4, <2>2 DEF Turn, TypeOK
    <3> QED
      BY <2>1, <2>2, <3>1
  <2>3. CASE ~(Len(page) < LeaderboardLimit)
    <3>1. /\ offset'[o] = offset[o] + LeaderboardLimit
          /\ task'[o] = IF Len(list) < WalletCount /\ offset[o] + LeaderboardLimit <= LeaderboardReach
                        THEN "asking" ELSE "done"
      BY <1>1, <1>4, <2>3 DEF Turn, TypeOK
    <3> QED
      BY <2>1, <2>3, <3>1
  <2> QED
    BY <2>2, <2>3
<1>11. ASSUME task'[o] = "asking"
       PROVE  offset'[o] <= Len(board[o]) /\ Ranked(wallets'[o], board[o], offset'[o])
  <2>1. offset'[o] = last
    BY <1>9, <1>10, <1>11
  <2> QED
    BY <1>5, <1>6, <1>7, <1>10, <1>11, <2>1
<1>12. ASSUME task'[o] = "done"
       PROVE  /\ ToSet(wallets'[o]) = Leaders(o)
              /\ \A i \in DOMAIN wallets'[o] : Rank(board[o], wallets'[o][i]) = i
  <2>1. Len(list) < WalletCount => last = all
    BY <1>9, <1>10, <1>12
  <2>2. PICK n \in 0..last :
           Ranked(list, board[o], n) /\ (Len(list) < WalletCount => n = last)
    BY <1>6
  <2>3. n \in 0..all /\ (Len(list) < WalletCount => n = all)
    <3> HIDE DEF last, all
    <3> QED
      BY <1>9, <2>1, <2>2
  <2> DEFINE prefix == SubSeq(board[o], 1, all)
  <2>4. ToSet(list) = BestOf(prefix)
    <3> HIDE DEF last, all, list
    <3>1. /\ board[o] \in Seq(Row) /\ all \in 0..Len(board[o]) /\ list \in Seq(Wallet)
          /\ Ranked(list, board[o], n) /\ Len(list) <= WalletCount
      BY <1>1, <1>5, <1>6, <1>9, <2>2
    <3> QED
      BY ONLY <2>3, <3>1, RankedAreLeaders
  <2>5. ToSet(list) = Leaders(o)
    BY <2>4, Zenon DEF Leaders, InReach, whole, BestOf
  <2>6. \A i \in DOMAIN list : Rank(board[o], list[i]) = i
    BY <2>2 DEF Ranked
  <2> HIDE DEF list
  <2> QED
    BY <1>5, <2>5, <2>6
<1> QED
  BY <1>11, <1>12

(* Rankings are read as far as their tasks have come, and to the end.       *)
LEMMA RankingsStep ==
    ASSUME TypeOK, TasksAreGathered, OffsetsAreInReach, RankingsAreRead,
           LeaderboardsAreRanked, [Next]_vars
    PROVE  RankingsAreRead' /\ LeaderboardsAreRanked'
<1> USE ConstantAssumption
<1>1. Order \subseteq Task /\ Wallet \subseteq Task /\ \A w \in Wallet : w \notin Order
  BY DEF Task
<1>2. ASSUME NEW w \in Wallet, PositionsPage(w) PROVE RankingsAreRead' /\ LeaderboardsAreRanked'
  <2>1. /\ UNCHANGED <<board, changes, wallets>>
        /\ \A o \in Order : task'[o] = task[o] /\ offset'[o] = offset[o]
    BY <1>1, <1>2, PositionsPageEffect
  <2>2. \A o \in Order : Leaders(o)' = Leaders(o)
    BY <2>1 DEF Leaders
  <2> QED
    BY <2>1, <2>2 DEF RankingsAreRead, LeaderboardsAreRanked
<1>3. ASSUME NEW o \in Order, LeaderboardPage(o) PROVE RankingsAreRead' /\ LeaderboardsAreRanked'
  <2>1. /\ task[o] = "asking" /\ UNCHANGED <<board, changes>>
        /\ task'[o] \in {"asking", "done", "failed"}
        /\ \A r \in Order : r # o => task'[r] = task[r] /\ offset'[r] = offset[r]
    BY <1>1, <1>3, LeaderboardPageEffect
  <2>2. \A r \in Order : r # o => wallets'[r] = wallets[r]
    <3>1. PICK list : wallets' = wallets \/ wallets' = [wallets EXCEPT ![o] = list]
      BY <1>3, LeaderboardPageReads
    <3> QED
      BY <3>1 DEF TypeOK
  <2>3. \A r \in Order : Leaders(r)' = Leaders(r)
    BY <2>1 DEF Leaders
  <2>4. ASSUME task'[o] = "asking"
        PROVE  /\ \E k \in 0..offset'[o] : offset'[o] = k * LeaderboardLimit
               /\ Len(wallets'[o]) < WalletCount
    <3>1. /\ Len(wallets'[o]) < WalletCount
          /\ offset'[o] = offset[o] + LeaderboardLimit
      BY <1>3, <2>4, RankingTurn
    <3>2. PICK k \in 0..offset[o] : offset[o] = k * LeaderboardLimit
      BY <2>1 DEF RankingsAreRead
    <3>3. offset[o] \in Nat
      BY <1>1 DEF TypeOK
    <3>4. k + 1 \in 0..offset[o] + LeaderboardLimit
      BY ONLY <3>2, <3>3, Limits
    <3>5. (k + 1) * LeaderboardLimit = k * LeaderboardLimit + LeaderboardLimit
      BY ONLY <3>2, <3>3, Limits
    <3> QED
      BY <3>1, <3>2, <3>4, <3>5
  <2>5. ASSUME changes = 0, task'[o] # "failed"
        PROVE  /\ task'[o] = "asking" => /\ offset'[o] <= Len(board[o])
                                         /\ Ranked(wallets'[o], board[o], offset'[o])
               /\ task'[o] = "done" =>
                     /\ ToSet(wallets'[o]) = Leaders(o)
                     /\ \A i \in DOMAIN wallets'[o] : Rank(board[o], wallets'[o][i]) = i
    BY <1>3, <2>5, RankingPage
  <2>6. RankingsAreRead'
    BY <2>1, <2>2, <2>4, <2>5 DEF RankingsAreRead, Ranked
  <2>7. LeaderboardsAreRanked'
    BY <2>1, <2>2, <2>3, <2>5 DEF LeaderboardsAreRanked
  <2> QED
    BY <2>6, <2>7
<1>4. CASE (\A o \in Order : ~ LeaderboardPage(o)) /\ (\A w \in Wallet : ~ PositionsPage(w))
  <2>1. /\ UNCHANGED <<offset, wallets>> /\ (changes' = 0 => changes = 0 /\ board' = board)
        /\ \A o \in Order : task'[o] = task[o] \/ task'[o] \in {"failed", "cancelled"}
    BY <1>1, <1>4, OtherSteps
  <2>2. changes' = 0 => \A o \in Order : Leaders(o)' = Leaders(o)
    BY <2>1 DEF Leaders
  <2> QED
    BY <2>1, <2>2 DEF RankingsAreRead, LeaderboardsAreRanked
<1> QED
  BY <1>2, <1>3, <1>4

LEMMA RankingsInit == Init => RankingsAreRead /\ LeaderboardsAreRanked
<1> SUFFICES ASSUME Init, NEW o \in Order
             PROVE  /\ offset[o] = 0 /\ wallets[o] = <<>> /\ task[o] = "asking"
                    /\ \E k \in 0..0 : 0 = k * LeaderboardLimit
                    /\ Len(wallets[o]) < WalletCount /\ 0 <= Len(board[o])
                    /\ Ranked(wallets[o], board[o], 0)
  BY DEF RankingsAreRead, LeaderboardsAreRanked, Ranked
<1>1. o \in Task /\ board[o] \in Seq(Row)
  BY ConstantAssumption DEF Init, Task
<1>2. offset[o] = 0 /\ wallets[o] = <<>> /\ task[o] = "asking"
  BY <1>1 DEF Init
<1>3. \E k \in 0..0 : 0 = k * LeaderboardLimit
  <2>1. 0 \in 0..0 /\ 0 = 0 * LeaderboardLimit
    BY Limits
  <2> QED
    BY <2>1
<1>4. Ranked(<<>>, board[o], 0) /\ Len(<<>>) = 0 /\ 0 <= Len(board[o])
  BY <1>1, EmptyIsRanked, LenProperties
<1> QED
  BY <1>2, <1>3, <1>4, Limits

LEMMA OffsetsInit == Init => OffsetsAreInReach
BY ConstantAssumption, Limits DEF Init, OffsetsAreInReach, Task, Order

(* On a ranking that keeps still the wallets found are the leaders, in      *)
(* order and each once, for rankings of any length with any repetitions and *)
(* pages of any size.                                                       *)
THEOREM LeaderboardsRanked == Spec => []LeaderboardsAreRanked
<1> DEFINE IInv == /\ TypeOK /\ TasksAreGathered /\ OffsetsAreInReach
                   /\ RankingsAreRead /\ LeaderboardsAreRanked
<1>1. Init => IInv
  BY TypeInit, OffsetsInit, RankingsInit
<1>2. IInv /\ [Next]_vars => IInv'
  BY TypeStep, GatheredStep, OffsetsStep, RankingsStep
<1> QED
  BY <1>1, <1>2, PTL DEF Spec

---------------------------------------------------------------------------
(* From end to end.                                                         *)

(* A result is made of complete positions of exactly the leaders of both.   *)
LEMMA EvidenceStep ==
    ASSUME TypeOK, TasksAreGathered, PositionsAreComplete, LeaderboardsAreRanked,
           EvidenceIsComplete, [Next]_vars
    PROVE  EvidenceIsComplete'
<1> DEFINE Complete(evidence) ==
              \A c \in Condition, w \in Wallet, p \in Position :
                  Occurrences(evidence[c], <<w, p>>) =
                      IF w \in Leaders("PNL") \cap Leaders("VOL") /\ ConditionOf[p] = c
                      THEN Occurrences(InReach(held[w], PositionLimit, PositionReach), p)
                      ELSE 0
<1>1. ASSUME Return, changes = 0 PROVE Complete(Grouped)
  <2>1. /\ \A o \in Order : ToSet(wallets[o]) = Leaders(o)
        /\ \A i \in DOMAIN wallets["PNL"] : Rank(board["PNL"], wallets["PNL"][i]) = i
    BY <1>1 DEF LeaderboardsAreRanked, TasksAreGathered, Return, Order
  <2>2. \A i, j \in DOMAIN wallets["PNL"] : wallets["PNL"][i] = wallets["PNL"][j] => i = j
    BY <2>1
  <2>3. \A w \in Wallet : w \in Selected <=> w \in Leaders("PNL") \cap Leaders("VOL")
    BY <2>1 DEF Selected, Order
  <2>4. \A w \in Selected :
           positions[w] = InReach(held[w], PositionLimit, PositionReach)
    BY <1>1 DEF PositionsAreComplete, Return, Selected
  <2>5. \A c \in Condition, w \in Wallet, p \in Position :
           Occurrences(Grouped[c], <<w, p>>) =
              IF w \in Selected /\ ConditionOf[p] = c THEN Occurrences(positions[w], p) ELSE 0
    BY <2>2, GroupedCounts
  <2> QED
    BY <2>3, <2>4, <2>5
<1>2. ASSUME pc' = "returned", changes' = 0
      PROVE  /\ Return \/ (pc = "returned" /\ observations' = observations)
             /\ changes = 0 /\ board' = board /\ held' = held
  <2>1. CASE \E t \in Task : TaskStep(t)
    <3>1. PICK t \in Task : TaskStep(t)
      BY <2>1
    <3>2. task[t] = "asking" /\ UNCHANGED <<pc, observations, changes, board, held>>
      BY <3>1 DEF TaskStep, LeaderboardPage, PositionsPage, RequestFails
    <3> QED
      BY <1>2, <3>2
  <2>2. CASE SelectWallets \/ Raise \/ Cancel
    BY <1>2, <2>2 DEF SelectWallets, Raise, Cancel
  <2>5. CASE Return
    <3>1. changes' = changes /\ board' = board /\ held' = held
      BY <2>5 DEF Return
    <3> QED
      BY ONLY <1>2, <2>5, <3>1, Zenon
  <2>3. CASE CloseLoop \/ Finished \/ UNCHANGED vars
    BY <1>2, <2>3 DEF CloseLoop, Finished
  <2>4. CASE ServerChanges
    BY <1>2, <2>4 DEF ServerChanges, TypeOK
  <2> QED
    BY <2>1, <2>2, <2>3, <2>4, <2>5 DEF Next
<1>3. ASSUME pc' = "returned", changes' = 0 PROVE Complete(observations')
  <2>1. CASE Return
    <3>1. observations' = Grouped
      BY <2>1 DEF Return
    <3> QED
      BY <1>1, <1>2, <1>3, <2>1, <3>1
  <2>2. CASE pc = "returned" /\ observations' = observations
    BY <1>2, <1>3, <2>2 DEF EvidenceIsComplete
  <2> QED
    BY <1>2, <1>3, <2>1, <2>2
<1>4. pc' = "returned" /\ changes' = 0 =>
         /\ \A o \in Order : Leaders(o)' = Leaders(o)
         /\ held' = held
  BY <1>2 DEF Leaders
<1>5. pc' = "returned" /\ changes' = 0 =>
         Leaders("PNL")' = Leaders("PNL") /\ Leaders("VOL")' = Leaders("VOL")
  BY <1>4 DEF Order
<1> QED
  BY <1>3, <1>4, <1>5 DEF EvidenceIsComplete

(* The result for a server that keeps still: every position of every wallet *)
(* that leads both rankings, under its market, as often as the wallet holds  *)
(* it, and nothing else; whatever order the pages arrive in.                *)
THEOREM EvidenceComplete == Spec => []EvidenceIsComplete
<1> DEFINE IInv == /\ TypeOK /\ TasksAreGathered /\ OffsetsAreInReach
                   /\ PositionsAreRead /\ PositionsAreComplete
                   /\ RankingsAreRead /\ LeaderboardsAreRanked /\ EvidenceIsComplete
<1>1. Init => PositionsAreRead /\ PositionsAreComplete /\ EvidenceIsComplete
  BY ConstantAssumption
     DEF Init, PositionsAreRead, PositionsAreComplete, EvidenceIsComplete, Task, Order
<1>2. Init => IInv
  BY <1>1, TypeInit, OffsetsInit, RankingsInit
<1>3. IInv /\ [Next]_vars => IInv'
  BY TypeStep, GatheredStep, OffsetsStep, PositionsStep, RankingsStep, EvidenceStep
<1> QED
  BY <1>2, <1>3, PTL DEF Spec

(* Every variable keeps its type, the grouped evidence included.            *)
THEOREM TypeCorrect == Spec => []TypeOK
<1>1. TypeOK /\ [Next]_vars => TypeOK'
  BY TypeStep
<1>2. Init => TypeOK
  BY TypeInit
<1> QED
  BY <1>1, <1>2, PTL DEF Spec
=============================================================================
