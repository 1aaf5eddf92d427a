------------------------------ MODULE ParserLoad ------------------------------
(***************************************************************************)
(* BatteryStatsParser::LoadAveragePowerFromFile and the lookups that read  *)
(* its result (battery_stats_parser.cpp).                                  *)
(*                                                                         *)
(* The file is a JSON object.  jsoncpp keeps an object's members in a map  *)
(* ordered by name, so getMemberNames() yields them in byte order of the   *)
(* names.  The loop sets clusterNum_ from the size of the cluster key,     *)
(* appends the size of every CPU-speed key to speedNum_, and stores arrays *)
(* in averageVecMap_ and scalars in averageMap_.  GetSpeedNum(cluster)     *)
(* returns speedNum_[cluster]: the size of the cluster-th speed key in     *)
(* name order.                                                             *)
(*                                                                         *)
(* Member names are abstracted to their kind and, for the per-cluster      *)
(* speed keys (StatsUtils::CURRENT_CPU_SPEED followed by the cluster       *)
(* number), the cluster number, whose decimal digits take part in the      *)
(* name order.  The loop runs one member per step.  The digits are a       *)
(* constant operator, defined recursively in MCParserLoad.                 *)
(***************************************************************************)
EXTENDS Integers, Sequences, FiniteSets

CONSTANTS
  MaxClusters,  \* most CPU clusters a file describes
  MaxSteps,     \* most speed steps per cluster
  Digits(_)     \* the decimal digits of a cluster number, as the member
                \* name spells them (std::to_string)

\* A number below ten is spelt with one digit, itself.
ASSUME ParserAssumption ==
  /\ MaxClusters \in Nat \ {0}
  /\ MaxSteps \in Nat \ {0}
  /\ \A c \in 0..9 : Digits(c) = <<c>>

\* Member names: a scalar (CURRENT_CPU_AWAKE), the cluster array
\* (CURRENT_CPU_CLUSTER) and one speed array per cluster.  The kinds are
\* listed in the byte order of their names.
Kinds == <<"cpu_awake", "cpu_clusters", "cpu_speed_cluster">>
Awake == [kind |-> "cpu_awake", cluster |-> 0]
ClusterKey == [kind |-> "cpu_clusters", cluster |-> 0]
SpeedKey(c) == [kind |-> "cpu_speed_cluster", cluster |-> c]

\* Byte order of two digit strings: the first difference decides, and a
\* proper prefix comes first.
DigitsBefore(a, b) ==
  \/ Len(a) < Len(b) /\ a = SubSeq(b, 1, Len(a))
  \/ \E i \in 1..Len(a) :
       /\ i <= Len(b)
       /\ SubSeq(a, 1, i - 1) = SubSeq(b, 1, i - 1)
       /\ a[i] < b[i]

Rank(k) == CHOOSE i \in DOMAIN Kinds : Kinds[i] = k

\* The order of Json::Value's object map on member names.
NameBefore(x, y) ==
  IF x.kind # y.kind THEN Rank(x.kind) < Rank(y.kind)
  ELSE DigitsBefore(Digits(x.cluster), Digits(y.cluster))

\* getMemberNames(): the names of the object, in map order.
MemberNames(obj) ==
  LET S == DOMAIN obj
  IN  [i \in 1..Cardinality(S) |->
         CHOOSE x \in S : Cardinality({y \in S : NameBefore(y, x)}) = i - 1]

\* A JSON value: an array of numbers, or a number (size() 0).
Array(s) == [isArray |-> TRUE, items |-> s]
Scalar(v) == [isArray |-> FALSE, items |-> <<v>>]
Size(v) == IF v.isArray THEN Len(v.items) ELSE 0

\* A well-formed file: n clusters, a speed array for cluster c with
\* steps[c] entries (entry l of cluster c is 10 * c + l), one scalar.
FileOf(n, steps) ==
  [k \in {Awake, ClusterKey} \cup {SpeedKey(c) : c \in 0..(n - 1)} |->
     CASE k = Awake -> Scalar(5)
       [] k = ClusterKey -> Array([i \in 1..n |-> 1])
       [] OTHER -> Array([l \in 1..steps[k.cluster] |-> 10 * k.cluster + l])]

Files ==
  UNION { {FileOf(n, steps) : steps \in [0..(n - 1) -> 1..MaxSteps]}
          : n \in 1..MaxClusters }

VARIABLES
  file,          \* the JSON object in power_average.json
  status,        \* "init", "loading", "loaded" or "failed"
  members,       \* the member names being walked
  i,             \* the loop's index into members
  clusterNum,    \* clusterNum_
  speedNum,      \* speedNum_
  averageVecMap, \* averageVecMap_
  averageMap     \* averageMap_

vars == <<file, status, members, i, clusterNum, speedNum, averageVecMap,
          averageMap>>

-----------------------------------------------------------------------------
\* GetSpeedNum: the loop over speedNum_ returns the entry at index cluster,
\* DEFAULT_VALUE (0) past its end.
GetSpeedNum(cluster) ==
  IF cluster < Len(speedNum) THEN speedNum[cluster + 1] ELSE 0

\* GetAveragePowerMa(type, level): 0 for an unknown type or a level past
\* the end of its array.
GetAveragePowerMa(type, level) ==
  IF type \in DOMAIN averageVecMap /\ level < Len(averageVecMap[type])
    THEN averageVecMap[type][level + 1]
    ELSE 0

\* GetClusterNum.
GetClusterNum == clusterNum

\* std::map::insert: adds key |-> value unless the key is already there.
Insert(m, key, value) ==
  [x \in DOMAIN m \cup {key} |-> IF x \in DOMAIN m THEN m[x] ELSE value]

Init ==
  /\ file \in Files
  /\ status = "init"
  /\ members = <<>>
  /\ i = 1
  /\ clusterNum = 0
  /\ speedNum = <<>>
  /\ averageVecMap = <<>>
  /\ averageMap = <<>>

\* Opening and parsing the file: either failure returns false with the
\* members left empty; otherwise the loop starts on getMemberNames().
LoadOpen ==
  /\ status = "init"
  /\ \E opened, parsed \in BOOLEAN :
       IF opened /\ parsed
         THEN status' = "loading" /\ members' = MemberNames(file)
         ELSE status' = "failed" /\ UNCHANGED members
  /\ UNCHANGED <<file, i, clusterNum, speedNum, averageVecMap, averageMap>>

\* Variant: the CPU-speed test dropped, every array's size appended.
LoadMemberAnyArray ==
  /\ status = "loading"
  /\ i <= Len(members)
  /\ LET type == members[i]
         value == file[type]
     IN  /\ clusterNum' = IF type = ClusterKey THEN Size(value) ELSE clusterNum
         /\ speedNum' = IF value.isArray THEN Append(speedNum, Size(value))
                        ELSE speedNum
         /\ averageVecMap' = IF value.isArray
                               THEN Insert(averageVecMap, type, value.items)
                               ELSE averageVecMap
         /\ averageMap' = IF value.isArray THEN averageMap
                          ELSE Insert(averageMap, type, value.items[1])
  /\ i' = i + 1
  /\ UNCHANGED <<file, status, members>>

\* One iteration of the member loop, for the name at index i: the cluster
\* key sets clusterNum_, a CPU-speed key appends its size to speedNum_,
\* an array goes to averageVecMap_ and a number to averageMap_ (insert
\* keeps an entry already there).
LoadMember ==
  /\ status = "loading"
  /\ i <= Len(members)
  /\ LET type == members[i]
         value == file[type]
     IN  /\ clusterNum' = IF type = ClusterKey THEN Size(value) ELSE clusterNum
         /\ speedNum' = IF type.kind = "cpu_speed_cluster"
                          THEN Append(speedNum, Size(value))
                          ELSE speedNum
         /\ averageVecMap' = IF value.isArray
                               THEN Insert(averageVecMap, type, value.items)
                               ELSE averageVecMap
         /\ averageMap' = IF value.isArray THEN averageMap
                          ELSE Insert(averageMap, type, value.items[1])
  /\ i' = i + 1
  /\ UNCHANGED <<file, status, members>>

\* The loop ends: LoadAveragePowerFromFile returns true.
LoadDone ==
  /\ status = "loading"
  /\ i > Len(members)
  /\ status' = "loaded"
  /\ UNCHANGED <<file, members, i, clusterNum, speedNum, averageVecMap,
                 averageMap>>

Next == LoadOpen \/ LoadMember \/ LoadDone

Spec == Init /\ [][Next]_vars

-----------------------------------------------------------------------------
(* Properties.                                                             *)

\* spec.md 4.2 and 6: once the table is loaded, GetClusterNum is the number
\* of clusters and, for each cluster, GetSpeedNum is the length of that
\* cluster's speed array and GetAveragePowerMa(speed key, level) its entry
\* at every level below it: the CPU entity prices exactly the file's
\* (cluster, level) entries, whatever the order the names were walked in.
SpeedTableMatchesFile ==
  status = "loaded" =>
    /\ GetClusterNum = Size(file[ClusterKey])
    /\ \A c \in 0..(GetClusterNum - 1) :
         /\ GetSpeedNum(c) = Size(file[SpeedKey(c)])
         /\ \A l \in 0..(GetSpeedNum(c) - 1) :
              GetAveragePowerMa(SpeedKey(c), l) = file[SpeedKey(c)].items[l + 1]

=============================================================================
