---------------------------- MODULE ParserLoadProofs ----------------------------
(***************************************************************************)
(* Proof that LoadAveragePowerFromFile loads the CPU speed table of every *)
(* well-formed file of at most ten clusters as the file gives it.  Up to  *)
(* ten clusters the cluster numbers are single digits, the name order of  *)
(* the speed keys is the numeric order, and getMemberNames() lists the    *)
(* awake scalar, the cluster array and then cluster 0, 1, ... in turn.     *)
(***************************************************************************)
EXTENDS ParserLoad, FiniteSetTheorems, TLAPS

\* The members of a file of n clusters, in name order.
Order(n) ==
  [j \in 1..(n + 2) |->
     IF j = 1 THEN Awake ELSE IF j = 2 THEN ClusterKey ELSE SpeedKey(j - 3)]

\* What the loop has done after the members before index i: the cluster
\* count is read at index 2, the speed counts of clusters 0..i-4 are in
\* speedNum_, and every array before i is in averageVecMap_.
LoopInv(n, steps) ==
  /\ file = FileOf(n, steps)
  /\ status = "init" =>
       /\ i = 1 /\ clusterNum = 0 /\ speedNum = <<>> /\ averageVecMap = <<>>
  /\ status \in {"loading", "loaded"} =>
       /\ members = Order(n)
       /\ i \in 1..(n + 3)
       /\ status = "loaded" => i = n + 3
       /\ clusterNum = IF i > 2 THEN n ELSE 0
       /\ speedNum = [c \in 1..(i - 3) |-> steps[c - 1]]
       /\ DOMAIN averageVecMap = {Order(n)[j] : j \in 2..(i - 1)}
       /\ \A x \in DOMAIN averageVecMap : averageVecMap[x] = file[x].items

\* The inductive invariant of the load.
IInv ==
  /\ status \in {"init", "loading", "loaded", "failed"}
  /\ \E n \in 1..MaxClusters :
       \E steps \in [0..(n - 1) -> 1..MaxSteps] : LoopInv(n, steps)
-----------------------------------------------------------------------------
(* The name order of a file's members.                                     *)

\* The kinds rank in the order Kinds lists them.
LEMMA RankOfKinds ==
  /\ Rank("cpu_awake") = 1
  /\ Rank("cpu_clusters") = 2
  /\ Rank("cpu_speed_cluster") = 3
<1>1. DOMAIN Kinds = 1..3
  BY DEF Kinds
<1>2. \A j \in 1..3 : /\ Kinds[j] = "cpu_awake" <=> j = 1
                      /\ Kinds[j] = "cpu_clusters" <=> j = 2
                      /\ Kinds[j] = "cpu_speed_cluster" <=> j = 3
  BY DEF Kinds
<1>. QED
  BY <1>1, <1>2 DEF Rank

\* Two one-digit strings are in byte order when their digits are.
LEMMA OneDigitBefore ==
  ASSUME NEW x \in Int, NEW y \in Int
  PROVE  DigitsBefore(<<x>>, <<y>>) <=> x < y
<1>1. SubSeq(<<x>>, 1, 0) = <<>> /\ SubSeq(<<y>>, 1, 0) = <<>>
  OBVIOUS
<1>. QED
  BY <1>1 DEF DigitsBefore

\* The members of a file of up to ten clusters are listed by Order in
\* name order.
LEMMA NameOrder ==
  ASSUME NEW n \in 1..10, NEW a \in 1..(n + 2), NEW b \in 1..(n + 2)
  PROVE  NameBefore(Order(n)[a], Order(n)[b]) <=> a < b
<1> DEFINE kr(j) == IF j = 1 THEN 1 ELSE IF j = 2 THEN 2 ELSE 3
          cl(j) == IF j <= 2 THEN 0 ELSE j - 3
<1>1. ASSUME NEW j \in 1..(n + 2)
      PROVE  /\ Order(n)[j].kind \in {"cpu_awake", "cpu_clusters",
                                       "cpu_speed_cluster"}
             /\ Rank(Order(n)[j].kind) = kr(j)
             /\ Digits(Order(n)[j].cluster) = <<cl(j)>>
  <2>1. cl(j) \in 0..9
    OBVIOUS
  <2>2. Order(n)[j].cluster = cl(j)
    BY DEF Order, Awake, ClusterKey, SpeedKey
  <2>3. Order(n)[j].kind = IF j = 1 THEN "cpu_awake"
                           ELSE IF j = 2 THEN "cpu_clusters"
                           ELSE "cpu_speed_cluster"
    BY DEF Order, Awake, ClusterKey, SpeedKey
  <2>. QED
    BY <2>1, <2>2, <2>3, RankOfKinds, ParserAssumption
<1>2. Order(n)[a].kind = Order(n)[b].kind <=> kr(a) = kr(b)
  BY <1>1, RankOfKinds
<1>3. DigitsBefore(<<cl(a)>>, <<cl(b)>>) <=> cl(a) < cl(b)
  BY OneDigitBefore
<1>. QED
  BY <1>1, <1>2, <1>3 DEF NameBefore

\* Order lists distinct names.
LEMMA OrderInjective ==
  ASSUME NEW n \in Nat, NEW a \in 1..(n + 2), NEW b \in 1..(n + 2),
         Order(n)[a] = Order(n)[b]
  PROVE  a = b
BY DEF Order, Awake, ClusterKey, SpeedKey

\* The members of a file are the names Order lists.
LEMMA FileMembers ==
  ASSUME NEW n \in Nat, NEW steps
  PROVE  DOMAIN FileOf(n, steps) = {Order(n)[j] : j \in 1..(n + 2)}
<1>1. \A j \in 1..(n + 2) :
        Order(n)[j] \in {Awake, ClusterKey} \cup {SpeedKey(c) : c \in 0..(n - 1)}
  BY DEF Order
<1>2. \A k \in {Awake, ClusterKey} \cup {SpeedKey(c) : c \in 0..(n - 1)} :
        \E j \in 1..(n + 2) : Order(n)[j] = k
  <2>1. Order(n)[1] = Awake /\ Order(n)[2] = ClusterKey
    BY DEF Order
  <2>2. \A c \in 0..(n - 1) : Order(n)[c + 3] = SpeedKey(c)
    BY DEF Order
  <2>. QED
    BY <2>1, <2>2
<1>. QED
  BY <1>1, <1>2 DEF FileOf
\* Up to ten clusters, the k-th member in Order has k - 1 names before it.
LEMMA CountBefore ==
  ASSUME NEW n \in 1..10, NEW steps, NEW k \in 1..(n + 2)
  PROVE  Cardinality({y \in DOMAIN FileOf(n, steps) :
                        NameBefore(y, Order(n)[k])}) = k - 1
<1> DEFINE B == {y \in DOMAIN FileOf(n, steps) : NameBefore(y, Order(n)[k])}
           f == [j \in 1..(k - 1) |-> Order(n)[j]]
<1>0. DOMAIN FileOf(n, steps) = {Order(n)[j] : j \in 1..(n + 2)}
  <2>1. n \in Nat
    OBVIOUS
  <2>. QED
    BY <2>1, FileMembers, Zenon
<1>1. ASSUME NEW j \in 1..(n + 2)
      PROVE  NameBefore(Order(n)[j], Order(n)[k]) <=> j < k
  BY NameOrder
<1>2. ASSUME NEW y \in B PROVE \E j \in 1..(k - 1) : f[j] = y
  <2>1. PICK j \in 1..(n + 2) : y = Order(n)[j]
    BY <1>0
  <2>2. j < k
    BY <1>1, <2>1
  <2>. QED
    BY <2>1, <2>2
<1>3. ASSUME NEW j \in 1..(k - 1) PROVE f[j] \in B
  <2>1. Order(n)[j] \in DOMAIN FileOf(n, steps)
    BY <1>0
  <2>. QED
    BY <1>1, <2>1
<1>4. f \in Bijection(1..(k - 1), B)
  <2>1. f \in [1..(k - 1) -> B]
    BY <1>3
  <2>2. \A a, b \in 1..(k - 1) : f[a] = f[b] => a = b
    BY OrderInjective
  <2>3. f \in Injection(1..(k - 1), B)
    BY <2>1, <2>2 DEF Injection, IsInjective
  <2>4. f \in Surjection(1..(k - 1), B)
    BY <1>2, <2>1 DEF Surjection
  <2>. QED
    BY <2>3, <2>4 DEF Bijection
<1>. QED
  BY <1>4, FS_CountingElements DEF ExistsBijection

\* A file of n clusters has n + 2 members.
LEMMA CountMembers ==
  ASSUME NEW n \in Nat, NEW steps
  PROVE  Cardinality(DOMAIN FileOf(n, steps)) = n + 2
<1>0. DOMAIN FileOf(n, steps) = {Order(n)[j] : j \in 1..(n + 2)}
  <2>1. n \in Nat
    OBVIOUS
  <2>. QED
    BY <2>1, FileMembers, Zenon
<1>1. Order(n) \in [1..(n + 2) -> DOMAIN FileOf(n, steps)]
  <2>1. \A j \in 1..(n + 2) : Order(n)[j] \in DOMAIN FileOf(n, steps)
    BY <1>0
  <2>. QED
    BY <2>1 DEF Order
<1>2. \A a, b \in 1..(n + 2) : Order(n)[a] = Order(n)[b] => a = b
  BY OrderInjective
<1>3. \A y \in DOMAIN FileOf(n, steps) : \E j \in 1..(n + 2) : Order(n)[j] = y
  BY <1>0
<1>4. Order(n) \in Bijection(1..(n + 2), DOMAIN FileOf(n, steps))
  <2>1. Order(n) \in Injection(1..(n + 2), DOMAIN FileOf(n, steps))
    BY <1>1, <1>2 DEF Injection, IsInjective
  <2>2. Order(n) \in Surjection(1..(n + 2), DOMAIN FileOf(n, steps))
    BY <1>1, <1>3 DEF Surjection
  <2>. QED
    BY <2>1, <2>2 DEF Bijection
<1>. QED
  BY <1>4, FS_CountingElements DEF ExistsBijection

\* getMemberNames() on a file of up to ten clusters lists the awake
\* scalar, the cluster array and the speed arrays of clusters 0, 1, ...
LEMMA MemberOrder ==
  ASSUME NEW n \in 1..10, NEW steps
  PROVE  MemberNames(FileOf(n, steps)) = Order(n)
<1> DEFINE S == DOMAIN FileOf(n, steps)
<1>0. S = {Order(n)[j] : j \in 1..(n + 2)}
  <2>1. n \in Nat
    OBVIOUS
  <2>. QED
    BY <2>1, FileMembers, Zenon
<1>1. Cardinality(S) = n + 2
  BY CountMembers
<1>2. ASSUME NEW k \in 1..(n + 2)
      PROVE  (CHOOSE x \in S : Cardinality({y \in S : NameBefore(y, x)}) = k - 1)
               = Order(n)[k]
  <2>1. Order(n)[k] \in S
    BY <1>0
  <2>2. ASSUME NEW x \in S,
               Cardinality({y \in S : NameBefore(y, x)}) = k - 1
        PROVE  x = Order(n)[k]
    <3>1. PICK j \in 1..(n + 2) : x = Order(n)[j]
      BY <1>0
    <3>2. Cardinality({y \in S : NameBefore(y, Order(n)[j])}) = j - 1
      BY CountBefore
    <3>. QED
      BY <2>2, <3>1, <3>2
  <2>3. Cardinality({y \in S : NameBefore(y, Order(n)[k])}) = k - 1
    BY CountBefore
  <2>. QED
    BY <2>1, <2>2, <2>3
<1>. QED
  BY <1>1, <1>2 DEF MemberNames, Order
-----------------------------------------------------------------------------
(* The values of a file and the maps the loop fills.                       *)

\* The j-th member of a file in name order: the awake scalar, the cluster
\* array of n entries, then the speed array of cluster j - 3.
LEMMA FileAt ==
  ASSUME NEW n \in Nat, NEW steps \in [0..(n - 1) -> Nat],
         NEW j \in 1..(n + 2)
  PROVE  /\ FileOf(n, steps)[Order(n)[j]].isArray <=> j >= 2
         /\ Size(FileOf(n, steps)[Order(n)[j]]) =
              IF j = 2 THEN n ELSE IF j >= 3 THEN steps[j - 3] ELSE 0
<1>0. DOMAIN FileOf(n, steps) = {Order(n)[j2] : j2 \in 1..(n + 2)}
  BY FileMembers, Zenon
<1>1. Order(n)[j] \in DOMAIN FileOf(n, steps)
  BY <1>0
<1>2. CASE j = 1
  <2>1. FileOf(n, steps)[Order(n)[j]] = Scalar(5)
    BY <1>1, <1>2 DEF FileOf, Order, Awake, ClusterKey
  <2>. QED
    BY <1>2, <2>1 DEF Scalar, Size
<1>3. CASE j = 2
  <2>1. FileOf(n, steps)[Order(n)[j]] = Array([i2 \in 1..n |-> 1])
    BY <1>1, <1>3 DEF FileOf, Order, Awake, ClusterKey
  <2>. QED
    BY <1>3, <2>1 DEF Array, Size
<1>4. CASE j >= 3
  <2>1. Order(n)[j] = SpeedKey(j - 3) /\ j - 3 \in 0..(n - 1)
    BY <1>4 DEF Order
  <2>2. FileOf(n, steps)[Order(n)[j]] =
          Array([l \in 1..steps[j - 3] |-> 10 * (j - 3) + l])
    <3>1. FileOf(n, steps)[SpeedKey(j - 3)] =
            Array([l \in 1..steps[j - 3] |-> 10 * (j - 3) + l])
      BY <2>1 DEF FileOf, Awake, ClusterKey, SpeedKey
    <3>. QED
      BY <2>1, <3>1
  <2>3. steps[j - 3] \in Nat
    BY <2>1
  <2>. QED
    BY <1>4, <2>2, <2>3 DEF Array, Size
<1>. QED
  BY <1>2, <1>3, <1>4

-----------------------------------------------------------------------------
(* The load loop.                                                          *)

\* Every well-formed file starts the load with nothing read.
LEMMA LoadInit == Init => IInv
<1> SUFFICES ASSUME Init PROVE IInv
  OBVIOUS
<1>1. PICK n \in 1..MaxClusters :
        \E steps \in [0..(n - 1) -> 1..MaxSteps] : file = FileOf(n, steps)
  BY DEF Init, Files
<1>2. PICK steps \in [0..(n - 1) -> 1..MaxSteps] : file = FileOf(n, steps)
  BY <1>1
<1>. QED
  BY <1>1, <1>2 DEF Init, IInv, LoopInv

\* In a loaded state the lookups give the file's table.
LEMMA LoadedTable == IInv => SpeedTableMatchesFile
<1> SUFFICES ASSUME IInv, status = "loaded"
             PROVE  /\ GetClusterNum = Size(file[ClusterKey])
                    /\ \A c \in 0..(GetClusterNum - 1) :
                         /\ GetSpeedNum(c) = Size(file[SpeedKey(c)])
                         /\ \A l \in 0..(GetSpeedNum(c) - 1) :
                              GetAveragePowerMa(SpeedKey(c), l) =
                                file[SpeedKey(c)].items[l + 1]
  BY DEF SpeedTableMatchesFile
<1>1. PICK n \in 1..MaxClusters :
        \E steps \in [0..(n - 1) -> 1..MaxSteps] : LoopInv(n, steps)
  BY DEF IInv
<1>2. PICK steps \in [0..(n - 1) -> 1..MaxSteps] : LoopInv(n, steps)
  BY <1>1
<1>3. /\ file = FileOf(n, steps)
      /\ clusterNum = n
      /\ speedNum = [c \in 1..n |-> steps[c - 1]]
      /\ DOMAIN averageVecMap = {Order(n)[j] : j \in 2..(n + 2)}
      /\ \A x \in DOMAIN averageVecMap : averageVecMap[x] = file[x].items
  BY <1>2 DEF LoopInv
<1>4. steps \in [0..(n - 1) -> Nat]
  BY ParserAssumption
<1>5. GetClusterNum = Size(file[ClusterKey])
  <2>1. Size(FileOf(n, steps)[Order(n)[2]]) = n
    BY <1>4, FileAt
  <2>2. Order(n)[2] = ClusterKey
    BY DEF Order
  <2>. QED
    BY <1>3, <2>1, <2>2 DEF GetClusterNum
<1>6. ASSUME NEW c \in 0..(GetClusterNum - 1)
      PROVE  /\ GetSpeedNum(c) = Size(file[SpeedKey(c)])
             /\ \A l \in 0..(GetSpeedNum(c) - 1) :
                  GetAveragePowerMa(SpeedKey(c), l) =
                    file[SpeedKey(c)].items[l + 1]
  <2>1. c \in 0..(n - 1) /\ Order(n)[c + 3] = SpeedKey(c)
    BY <1>3 DEF GetClusterNum, Order
  <2>2. /\ FileOf(n, steps)[Order(n)[c + 3]].isArray
        /\ Size(FileOf(n, steps)[Order(n)[c + 3]]) = steps[c]
    BY <1>4, <2>1, FileAt
  <2>3. Len(file[SpeedKey(c)].items) = steps[c]
    BY <1>3, <2>1, <2>2 DEF Size
  <2>4. GetSpeedNum(c) = steps[c]
    BY <1>3, <2>1 DEF GetSpeedNum
  <2>5. SpeedKey(c) \in DOMAIN averageVecMap
    BY <1>3, <2>1
  <2>6. ASSUME NEW l \in 0..(steps[c] - 1)
        PROVE  GetAveragePowerMa(SpeedKey(c), l) =
                 file[SpeedKey(c)].items[l + 1]
    <3>1. averageVecMap[SpeedKey(c)] = file[SpeedKey(c)].items
      BY <1>3, <2>5
    <3>2. l < Len(averageVecMap[SpeedKey(c)])
      BY <1>4, <2>1, <2>3, <3>1
    <3>. QED
      BY <2>5, <3>1, <3>2 DEF GetAveragePowerMa
  <2>. QED
    BY <1>3, <2>1, <2>2, <2>4, <2>6
<1>. QED
  BY <1>5, <1>6
\* Each step of the load, for files of at most ten clusters, keeps the
\* loop invariant.
LEMMA LoadStep ==
  ASSUME MaxClusters <= 10
  PROVE  IInv /\ [Next]_vars => IInv'
<1> SUFFICES ASSUME IInv, [Next]_vars PROVE IInv'
  OBVIOUS
<1>1. PICK n \in 1..MaxClusters :
        \E steps \in [0..(n - 1) -> 1..MaxSteps] : LoopInv(n, steps)
  BY DEF IInv
<1>2. PICK steps \in [0..(n - 1) -> 1..MaxSteps] : LoopInv(n, steps)
  BY <1>1
<1>3. steps \in [0..(n - 1) -> Nat] /\ n \in 1..10
  BY ParserAssumption
<1> SUFFICES /\ status' \in {"init", "loading", "loaded", "failed"}
             /\ LoopInv(n, steps)'
  BY <1>1, <1>2 DEF IInv
<1>4. CASE LoadOpen
  <2>1. /\ status = "init"
        /\ status' \in {"loading", "failed"}
        /\ status' = "loading" => members' = MemberNames(file)
        /\ UNCHANGED <<file, i, clusterNum, speedNum, averageVecMap>>
    BY <1>4 DEF LoadOpen
  <2>2. /\ file = FileOf(n, steps)
        /\ i = 1 /\ clusterNum = 0 /\ speedNum = <<>> /\ averageVecMap = <<>>
    BY <1>2, <2>1 DEF LoopInv
  <2>3. MemberNames(file) = Order(n)
    BY <1>3, <2>2, MemberOrder
  <2>4. speedNum = [c \in 1..(i - 3) |-> steps[c - 1]]
    BY <2>2
  <2>5. DOMAIN averageVecMap = {Order(n)[j] : j \in 2..(i - 1)}
    BY <2>2
  <2>. QED
    BY <2>1, <2>2, <2>3, <2>4, <2>5 DEF LoopInv
<1>5. CASE LoadMember
  <2>1. /\ status = "loading"
        /\ members = Order(n)
        /\ i \in 1..(n + 3)
        /\ file = FileOf(n, steps)
        /\ clusterNum = IF i > 2 THEN n ELSE 0
        /\ speedNum = [c \in 1..(i - 3) |-> steps[c - 1]]
        /\ DOMAIN averageVecMap = {Order(n)[j] : j \in 2..(i - 1)}
        /\ \A x \in DOMAIN averageVecMap : averageVecMap[x] = file[x].items
    BY <1>2, <1>5 DEF LoadMember, LoopInv
  <2>2. i \in 1..(n + 2)
    BY <1>5, <2>1 DEF LoadMember, Order
  <2> DEFINE type == Order(n)[i]
             value == file[type]
  <2>3. /\ value.isArray <=> i >= 2
        /\ Size(value) = IF i = 2 THEN n ELSE IF i >= 3 THEN steps[i - 3] ELSE 0
    <3>1. /\ FileOf(n, steps)[Order(n)[i]].isArray <=> i >= 2
          /\ Size(FileOf(n, steps)[Order(n)[i]]) =
               IF i = 2 THEN n ELSE IF i >= 3 THEN steps[i - 3] ELSE 0
      BY <1>3, <2>2, FileAt
    <3>. QED
      BY <2>1, <3>1
  <2>4. /\ type = ClusterKey <=> i = 2
        /\ type.kind = "cpu_speed_cluster" <=> i >= 3
    BY <2>2 DEF Order, Awake, ClusterKey, SpeedKey
  <2>5. /\ clusterNum' = IF type = ClusterKey THEN Size(value) ELSE clusterNum
        /\ speedNum' = IF type.kind = "cpu_speed_cluster"
                         THEN Append(speedNum, Size(value)) ELSE speedNum
        /\ averageVecMap' = IF value.isArray
                              THEN Insert(averageVecMap, type, value.items)
                              ELSE averageVecMap
        /\ i' = i + 1
        /\ UNCHANGED <<file, status, members>>
    BY <1>5, <2>1 DEF LoadMember
  <2>6. clusterNum' = IF i' > 2 THEN n ELSE 0
    BY <2>1, <2>3, <2>4, <2>5
  <2>7. speedNum' = [c \in 1..(i' - 3) |-> steps[c - 1]]
    <3>1. CASE i >= 3
      <4>1. i - 3 \in Nat /\ steps[i - 3] \in Nat
        BY <1>3, <2>2, <3>1
      <4>. QED
        BY <2>1, <2>3, <2>4, <2>5, <3>1, <4>1
    <3>2. CASE i < 3
      BY <2>1, <2>2, <2>4, <2>5, <3>2
    <3>. QED
      BY <2>2, <3>1, <3>2
  <2>8. /\ DOMAIN averageVecMap' = {Order(n)[j] : j \in 2..(i' - 1)}
        /\ \A x \in DOMAIN averageVecMap' :
             averageVecMap'[x] = file'[x].items
    <3>1. CASE i >= 2
      <4>1. type \notin DOMAIN averageVecMap
        <5>1. SUFFICES ASSUME NEW j \in 2..(i - 1), Order(n)[j] = type
                       PROVE  FALSE
          BY <2>1
        <5>2. j \in 1..(n + 2) /\ n \in Nat
          BY <1>3, <2>2
        <5>. QED
          BY <2>2, <5>1, <5>2, OrderInjective
      <4>2. averageVecMap' = Insert(averageVecMap, type, value.items)
        BY <2>3, <2>5, <3>1
      <4>3. {Order(n)[j] : j \in 2..(i' - 1)} =
              {Order(n)[j] : j \in 2..(i - 1)} \cup {type}
        <5>1. 2..(i' - 1) = 2..(i - 1) \cup {i}
          BY <2>2, <2>5, <3>1
        <5>. QED
          BY <5>1
      <4>4. /\ DOMAIN averageVecMap' = DOMAIN averageVecMap \cup {type}
            /\ \A y \in DOMAIN averageVecMap :
                 averageVecMap'[y] = averageVecMap[y]
            /\ averageVecMap'[type] = value.items
        BY <4>1, <4>2 DEF Insert
      <4>. QED
        BY <2>1, <2>5, <4>3, <4>4
    <3>2. CASE i = 1
      BY <2>1, <2>3, <2>5, <3>2
    <3>. QED
      BY <2>2, <3>1, <3>2
  <2>9. /\ status' = "loading"
        /\ members' = Order(n)
        /\ file' = FileOf(n, steps)
        /\ i' \in 1..(n + 3)
    BY <2>1, <2>2, <2>5
  <2>. QED
    BY <2>6, <2>7, <2>8, <2>9 DEF LoopInv
<1>6. CASE LoadDone
  <2>1. /\ status = "loading"
        /\ members = Order(n)
        /\ i \in 1..(n + 3)
    BY <1>2, <1>6 DEF LoadDone, LoopInv
  <2>2. i = n + 3
    BY <1>6, <2>1 DEF LoadDone, Order
  <2>. QED
    BY <1>2, <1>6, <2>1, <2>2 DEF LoadDone, LoopInv
<1>7. CASE UNCHANGED vars
  BY <1>2, <1>7, IInv DEF vars, LoopInv, IInv
<1>. QED
  BY <1>4, <1>5, <1>6, <1>7 DEF Next
\* LoadAveragePowerFromFile (battery_stats_parser.cpp:52-100) followed by
\* GetClusterNum, GetSpeedNum and GetAveragePowerMa(type, level): for
\* every well-formed file of at most ten clusters, once the load returns
\* true the CPU entity is given each cluster's own speed-step count and
\* per-step currents, whatever the file's counts.  parser_wide shows that
\* the bound is needed: at eleven clusters the name order is not the
\* numeric order.
THEOREM SpeedTableLoaded ==
  ASSUME MaxClusters <= 10
  PROVE  Spec => []SpeedTableMatchesFile
<1>1. Init => IInv
  BY LoadInit
<1>2. IInv /\ [Next]_vars => IInv'
  BY LoadStep
<1>3. IInv => SpeedTableMatchesFile
  BY LoadedTable
<1>. QED
  BY <1>1, <1>2, <1>3, PTL DEF Spec

\* At every step of LoadAveragePowerFromFile's loop over the members of a
\* well-formed file of at most ten clusters, clusterNum_, speedNum_ and
\* averageVecMap_ hold exactly what the members read so far give them:
\* the cluster count once "cluster" is read, one step count per speed
\* member read, and each array member's own values.
THEOREM LoopInvariant ==
  ASSUME MaxClusters <= 10
  PROVE  Spec => []IInv
<1>1. Init => IInv
  BY LoadInit
<1>2. IInv /\ [Next]_vars => IInv'
  BY LoadStep
<1>. QED
  BY <1>1, <1>2, PTL DEF Spec

=============================================================================
