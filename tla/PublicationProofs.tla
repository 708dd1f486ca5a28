------------------------- MODULE PublicationProofs -------------------------
(***************************************************************************)
(* The gauges and the registry are right for every list of zones, whatever *)
(* the goroutines return, in whatever order.                               *)
(*                                                                         *)
(* The inductive invariant IInv says how far each derived structure has    *)
(* come: the MX records collected are those of the results that the loop   *)
(* has passed (RRsFit), the counts are those of the same results           *)
(* (CountsFit), and the registry serves the first results registered       *)
(* (Served).  These take the list of results and the structure as          *)
(* arguments, so that the lemmas about one more result mention no state.   *)
(***************************************************************************)
EXTENDS Publication, ListProofs, FiniteSetTheorems

Phases == {"start", "probe", "aggregate", "build", "published"}
MXRecord == [zone : Zones, target : Hosts, priority : Nat]
ConfiguredZones == {CfgZones[g] : g \in DOMAIN CfgZones}

PubType ==
    /\ phase \in Phases /\ joined \subseteq DOMAIN CfgZones
    /\ all \in Seq(ProbeResult) /\ taken \in 0..Len(all)
    /\ mxRRs \in Seq(MXRecord)
    /\ phase \in {"start", "probe"} => taken = 0 /\ mxRRs = <<>>
    /\ phase = "published" => taken = Len(all)

ResultsFit ==
    \A k \in 1..Len(all) :
        /\ all[k].zone \in ConfiguredZones
        /\ HasInfo(all[k]) => {"target", "priority"} \subseteq DOMAIN all[k].labels

\* How many results have been aggregated, and how many registered.
Aggregated == IF Derived THEN Len(all) ELSE taken
Registered == IF Derived THEN taken ELSE 0

\* The records m are those of the first n results of list a.
RR(r) == [zone |-> r.zone, target |-> r.labels.target, priority |-> r.labels.priority]
InfosOf(a, z, n) == {k \in 1..n : HasInfo(a[k]) /\ a[k].zone = z}
RecordsOf(m, z) == {j \in 1..Len(m) : m[j].zone = z}

RRsFit(a, m, n) ==
    /\ \A z \in Zones : Cardinality(RecordsOf(m, z)) = Cardinality(InfosOf(a, z, n))
    /\ \A j \in 1..Len(m) : \E k \in 1..n : HasInfo(a[k]) /\ m[j] = RR(a[k])
    /\ \A k \in 1..n : HasInfo(a[k]) => \E j \in 1..Len(m) : m[j] = RR(a[k])

\* The counts of vector v are those of the first n results of list a.
Counted == MXCounts \cup {"ns_classification_count"}
Counting(a, s, n) == {k \in 1..n : s \in GaugesOf(a[k])}

CountsFit(a, v, n) ==
    /\ Zeroed \subseteq DOMAIN v
    /\ \A k \in 1..n : GaugesOf(a[k]) \subseteq DOMAIN v
    /\ \A s \in DOMAIN v :
          /\ s.of \in ConfiguredZones
          /\ s.metric \in Counted => v[s] = Cardinality(Counting(a, s, n))

\* Nothing has been derived from the records yet.
NotDerived(v) ==
    \A z \in ConfiguredZones : \A m \in {"null_mx", "mx_has_null_mx_rr"} :
        v[Series(m, z, Total)] = 0

\* Registry reg serves the first n results of list a.
FirstOf(a, reg, s, k) ==
    /\ s \in DOMAIN reg
    /\ \E j \in 1..k :
          /\ s \in DOMAIN Gauges(a[j]) /\ reg[s] = Gauges(a[j])[s]
          /\ \A i \in 1..(j - 1) : s \notin DOMAIN Gauges(a[i])

Served(a, reg, n) ==
    /\ \A k \in 1..n : \A s \in DOMAIN Gauges(a[k]) : FirstOf(a, reg, s, k)
    /\ \A s \in DOMAIN reg : \E k \in 1..n : s \in DOMAIN Gauges(a[k])

Gauged ==
    /\ phase = "probe" => DOMAIN gauge = {}
    /\ phase = "aggregate" => NotDerived(gauge)
    /\ (phase = "aggregate" \/ Derived) => CountsFit(all, gauge, Aggregated)

IInv ==
    /\ PubType /\ ResultsFit /\ Gauged
    /\ RRsFit(all, mxRRs, Aggregated)
    /\ Served(all, registry, Registered)
    /\ NullMXTellsTheRecords /\ PrimaryIsLowest
-----------------------------------------------------------------------------
(* One more result.                                                        *)

LEMMA PrefixIsFinite ==
    ASSUME NEW n \in Nat, NEW S, S \subseteq 1..n
    PROVE  IsFiniteSet(S) /\ Cardinality(S) \in Nat
<1>1. IsFiniteSet(1..n)
  BY FS_Interval
<1>2. IsFiniteSet(S)
  BY <1>1, FS_Subset
<1> QED
  BY <1>2, FS_CardinalityType

\* A new element makes a set one larger.
LEMMA OneMore ==
    ASSUME NEW n \in Nat, NEW S, S \subseteq 1..n
    PROVE  Cardinality(S \cup {n + 1}) = Cardinality(S) + 1
<1>1. IsFiniteSet(S)
  BY PrefixIsFinite
<1>2. n + 1 \notin S
  OBVIOUS
<1> QED
  BY <1>1, <1>2, FS_AddElement

\* A result without an MX record adds nothing to the records.
LEMMA RRsSkip ==
    ASSUME NEW a, NEW m, NEW n \in Nat, RRsFit(a, m, n), ~HasInfo(a[n + 1])
    PROVE  RRsFit(a, m, n + 1)
<1>1. \A k \in 1..(n + 1) : HasInfo(a[k]) => k \in 1..n
  OBVIOUS
<1>2. \A z : InfosOf(a, z, n + 1) = InfosOf(a, z, n)
  BY <1>1 DEF InfosOf
<1>3. 1..n \subseteq 1..(n + 1)
  OBVIOUS
<1> QED
  BY <1>1, <1>2, <1>3 DEF RRsFit

\* A result with an MX record adds that one.
LEMMA RRsTake ==
    ASSUME NEW a, NEW m \in Seq(MXRecord), NEW n \in Nat, RRsFit(a, m, n),
           HasInfo(a[n + 1]), RR(a[n + 1]) \in MXRecord
    PROVE  RRsFit(a, Append(m, RR(a[n + 1])), n + 1)
<1> DEFINE len == Len(m)
           new == RR(a[n + 1])
           m2 == Append(m, new)
<1>1. /\ len \in Nat /\ Len(m2) = len + 1 /\ m2[len + 1] = new
      /\ \A j \in 1..len : m2[j] = m[j]
  OBVIOUS
<1>2. new.zone = a[n + 1].zone
  BY DEF RR
<1> HIDE DEF m2, new
<1>3. ASSUME NEW z \in Zones
      PROVE  Cardinality(RecordsOf(m2, z)) = Cardinality(InfosOf(a, z, n + 1))
  <2>1. /\ Cardinality(RecordsOf(m, z)) = Cardinality(InfosOf(a, z, n))
        /\ RecordsOf(m, z) \subseteq 1..len /\ InfosOf(a, z, n) \subseteq 1..n
    BY DEF RRsFit, RecordsOf, InfosOf
  <2>2. CASE a[n + 1].zone = z
    <3>1. RecordsOf(m2, z) = RecordsOf(m, z) \cup {len + 1}
      BY <1>1, <1>2, <2>2 DEF RecordsOf
    <3>2. InfosOf(a, z, n + 1) = InfosOf(a, z, n) \cup {n + 1}
      BY <2>2 DEF InfosOf
    <3>3. /\ Cardinality(RecordsOf(m2, z)) = Cardinality(RecordsOf(m, z)) + 1
          /\ Cardinality(InfosOf(a, z, n + 1)) = Cardinality(InfosOf(a, z, n)) + 1
      BY <1>1, <2>1, <3>1, <3>2, OneMore
    <3> QED
      BY <2>1, <3>3
  <2>3. CASE a[n + 1].zone # z
    <3>1. RecordsOf(m2, z) = RecordsOf(m, z)
      BY <1>1, <1>2, <2>3 DEF RecordsOf
    <3>2. InfosOf(a, z, n + 1) = InfosOf(a, z, n)
      BY <2>3 DEF InfosOf
    <3> QED
      BY <2>1, <3>1, <3>2
  <2> QED
    BY <2>2, <2>3
<1>4. ASSUME NEW j \in 1..(len + 1)
      PROVE  \E k \in 1..(n + 1) : HasInfo(a[k]) /\ m2[j] = RR(a[k])
  <2>1. CASE j = len + 1
    BY <2>1, <1>1 DEF new
  <2>2. CASE j \in 1..len
    <3>1. PICK k \in 1..n : HasInfo(a[k]) /\ m[j] = RR(a[k])
      BY <2>2 DEF RRsFit
    <3> QED
      BY <3>1, <2>2, <1>1
  <2> QED
    BY <2>1, <2>2, <1>1
<1>5. ASSUME NEW k \in 1..(n + 1), HasInfo(a[k])
      PROVE  \E j \in 1..(len + 1) : m2[j] = RR(a[k])
  <2>1. CASE k = n + 1
    BY <2>1, <1>1 DEF new
  <2>2. CASE k \in 1..n
    <3>1. PICK j \in 1..len : m[j] = RR(a[k])
      BY <2>2, <1>5 DEF RRsFit
    <3> QED
      BY <3>1, <1>1
  <2> QED
    BY <2>1, <2>2
<1> HIDE DEF len
<1> QED
  BY <1>1, <1>3, <1>4, <1>5 DEF RRsFit, m2, new

\* A result counts towards the gauges of its zone.
LEMMA GaugesOfZone ==
    \A r : \A s \in GaugesOf(r) : s.of = r.zone /\ s.metric \in Counted
BY DEF GaugesOf, Series, Counted

\* Inc() counts one more result.
LEMMA CountsTake ==
    ASSUME NEW a, NEW v, NEW n \in Nat, CountsFit(a, v, n),
           a[n + 1].zone \in ConfiguredZones
    PROVE  CountsFit(a, Inc(v, GaugesOf(a[n + 1])), n + 1)
<1> DEFINE r == a[n + 1]
           w == Inc(v, GaugesOf(r))
<1>1. /\ DOMAIN w = DOMAIN v \cup GaugesOf(r)
      /\ \A s \in DOMAIN w : w[s] = (IF s \in DOMAIN v THEN v[s] ELSE 0)
                                       + (IF s \in GaugesOf(r) THEN 1 ELSE 0)
  BY DEF Inc
<1> HIDE DEF w
<1>2. Zeroed \subseteq DOMAIN w /\ \A k \in 1..(n + 1) : GaugesOf(a[k]) \subseteq DOMAIN w
  <2>1. \A k \in 1..(n + 1) : k \in 1..n \/ k = n + 1
    OBVIOUS
  <2> QED
    BY <2>1, <1>1 DEF CountsFit
<1>3. ASSUME NEW s \in DOMAIN w
      PROVE  s.of \in ConfiguredZones
  BY <1>1, GaugesOfZone DEF CountsFit
<1>4. ASSUME NEW s \in DOMAIN w, s.metric \in Counted
      PROVE  w[s] = Cardinality(Counting(a, s, n + 1))
  <2>1. Counting(a, s, n) \subseteq 1..n
    BY DEF Counting
  <2>2. Cardinality(Counting(a, s, n)) = (IF s \in DOMAIN v THEN v[s] ELSE 0)
    <3>1. s \notin DOMAIN v => Counting(a, s, n) = {}
      BY DEF CountsFit, Counting
    <3> QED
      BY <3>1, <1>4, FS_EmptySet DEF CountsFit
  <2>3. CASE s \in GaugesOf(r)
    <3>1. Counting(a, s, n + 1) = Counting(a, s, n) \cup {n + 1}
      BY <2>3 DEF Counting
    <3>2. Cardinality(Counting(a, s, n + 1)) = Cardinality(Counting(a, s, n)) + 1
      BY <2>1, <3>1, OneMore
    <3> QED
      BY <3>2, <2>2, <2>3, <1>1
  <2>4. CASE s \notin GaugesOf(r)
    <3>1. Counting(a, s, n + 1) = Counting(a, s, n)
      BY <2>4 DEF Counting
    <3>2. Cardinality(Counting(a, s, n)) \in Nat
      BY <2>1, PrefixIsFinite
    <3> QED
      BY <3>1, <3>2, <2>2, <2>4, <1>1
  <2> QED
    BY <2>3, <2>4
<1> QED
  BY <1>2, <1>3, <1>4 DEF CountsFit, w

\* Inc() on the counts leaves alone what is derived later.
LEMMA NotDerivedTake ==
    ASSUME NEW v, NEW r, NotDerived(v), Zeroed \subseteq DOMAIN v
    PROVE  NotDerived(Inc(v, GaugesOf(r)))
<1> SUFFICES ASSUME NEW z \in ConfiguredZones, NEW m \in {"null_mx", "mx_has_null_mx_rr"}
             PROVE  Inc(v, GaugesOf(r))[Series(m, z, Total)] = 0
  BY DEF NotDerived
<1> DEFINE s == Series(m, z, Total)
<1>1. s \in Zeroed /\ s.metric = m
  BY DEF Zeroed, Series, ConfiguredZones
<1>2. s \in DOMAIN v /\ v[s] = 0
  BY <1>1 DEF NotDerived
<1>3. s \notin GaugesOf(r)
  BY <1>1, GaugesOfZone DEF Counted, MXCounts
<1> HIDE DEF s
<1>4. Inc(v, GaugesOf(r))[s] = 0
  BY <1>2, <1>3 DEF Inc
<1> QED
  BY <1>4 DEF s

\* Registration keeps what is there and adds the rest.
LEMMA RegisterTake ==
    ASSUME NEW a, NEW reg, NEW n \in Nat, Served(a, reg, n)
    PROVE  Served(a, Set(Gauges(a[n + 1]), reg), n + 1)
<1> DEFINE new == Gauges(a[n + 1])
           reg2 == Set(new, reg)
<1>1. /\ DOMAIN reg2 = DOMAIN new \cup DOMAIN reg
      /\ \A s \in DOMAIN reg : reg2[s] = reg[s]
      /\ \A s \in DOMAIN new \ DOMAIN reg : reg2[s] = new[s]
  BY DEF Set
<1> HIDE DEF reg2
<1>2. ASSUME NEW k \in 1..n, NEW s \in DOMAIN Gauges(a[k])
      PROVE  FirstOf(a, reg2, s, k)
  BY <1>1 DEF Served, FirstOf
<1>3. ASSUME NEW s \in DOMAIN new
      PROVE  FirstOf(a, reg2, s, n + 1)
  <2>1. CASE s \in DOMAIN reg
    <3>1. PICK k \in 1..n : s \in DOMAIN Gauges(a[k])
      BY <2>1 DEF Served
    <3>2. PICK j \in 1..k : /\ s \in DOMAIN Gauges(a[j]) /\ reg2[s] = Gauges(a[j])[s]
                            /\ \A i \in 1..(j - 1) : s \notin DOMAIN Gauges(a[i])
      BY <3>1, <1>2 DEF FirstOf
    <3> QED
      BY <3>1, <3>2, <1>1 DEF FirstOf
  <2>2. CASE s \notin DOMAIN reg
    <3>1. \A i \in 1..n : s \notin DOMAIN Gauges(a[i])
      BY <2>2 DEF Served, FirstOf
    <3>2. (n + 1) - 1 = n /\ n + 1 \in 1..(n + 1)
      OBVIOUS
    <3> QED
      BY <3>1, <3>2, <2>2, <1>1 DEF FirstOf
  <2> QED
    BY <2>1, <2>2
<1>4. \A s \in DOMAIN reg2 : \E k \in 1..(n + 1) : s \in DOMAIN Gauges(a[k])
  BY <1>1 DEF Served
<1>5. \A k \in 1..(n + 1) : k \in 1..n \/ k = n + 1
  OBVIOUS
<1> HIDE DEF new
<1>6. \A k \in 1..(n + 1) : \A s \in DOMAIN Gauges(a[k]) : FirstOf(a, reg2, s, k)
  BY <1>2, <1>3, <1>5 DEF new
<1> QED
  BY <1>4, <1>6 DEF Served, reg2, new
-----------------------------------------------------------------------------
(* The derived gauges.                                                     *)

\* The records of zone z and its results say the same.
LEMMA SameRecords ==
    ASSUME PubType, ResultsFit, NEW z, RRsFit(all, mxRRs, Len(all))
    PROVE  /\ RRsOf(z) = RecordsOf(mxRRs, z) /\ Infos(z) = InfosOf(all, z, Len(all))
           /\ \A k \in RRsOf(z) : \E j \in Infos(z) : mxRRs[k] = RR(all[j])
           /\ \A j \in Infos(z) : \E k \in RRsOf(z) : mxRRs[k] = RR(all[j])
           /\ \A k \in RRsOf(z) : mxRRs[k] \in MXRecord
<1>1. /\ DOMAIN mxRRs = 1..Len(mxRRs) /\ DOMAIN all = 1..Len(all)
      /\ \A k \in 1..Len(mxRRs) : mxRRs[k] \in MXRecord
  BY DEF PubType
<1>2. RRsOf(z) = RecordsOf(mxRRs, z) /\ Infos(z) = InfosOf(all, z, Len(all))
  BY <1>1 DEF RRsOf, RecordsOf, Infos, InfosOf
<1>3. ASSUME NEW k \in RRsOf(z)
      PROVE  \E j \in Infos(z) : mxRRs[k] = RR(all[j])
  BY <1>1, <1>3 DEF RRsFit, RRsOf, Infos, RR
<1>4. ASSUME NEW j \in Infos(z)
      PROVE  \E k \in RRsOf(z) : mxRRs[k] = RR(all[j])
  <2>1. j \in 1..Len(all) /\ HasInfo(all[j]) /\ all[j].zone = z
    BY <1>1 DEF Infos
  <2>2. PICK k \in 1..Len(mxRRs) : mxRRs[k] = RR(all[j])
    BY <2>1 DEF RRsFit
  <2>3. k \in RRsOf(z)
    BY <2>1, <2>2, <1>1 DEF RRsOf, RR
  <2> QED
    BY <2>2, <2>3
<1>5. \A k \in RRsOf(z) : mxRRs[k] \in MXRecord
  BY <1>1 DEF RRsOf
<1> QED
  BY <1>2, <1>3, <1>4, <1>5

\* Lowest is the least preference of the records of a target.
LEMMA LowestIsLeast ==
    ASSUME PubType, NEW z, NEW t \in Targets(z), \A k \in RRsOf(z) : mxRRs[k] \in MXRecord
    PROVE  /\ \E k \in RRsOf(z) : mxRRs[k].target = t /\ Lowest(z, t) = mxRRs[k].priority
           /\ \A k \in RRsOf(z) : mxRRs[k].target = t => Lowest(z, t) <= mxRRs[k].priority
<1> DEFINE mine == {mxRRs[k].priority : k \in {k \in RRsOf(z) : mxRRs[k].target = t}}
           least(p) == \A k \in RRsOf(z) : mxRRs[k].target = t => p <= mxRRs[k].priority
<1>1. mine \subseteq Nat
  BY DEF MXRecord
<1>2. mine # {}
  BY DEF Targets
<1>3. \E p \in mine : \A q \in mine : p <= q
  BY <1>1, <1>2, LeastExists
<1>4. \E p \in mine : least(p)
  BY <1>3
<1>5. Lowest(z, t) = CHOOSE p \in mine : least(p)
  BY DEF Lowest
<1>6. Lowest(z, t) \in mine /\ least(Lowest(z, t))
  <2> HIDE DEF mine, least
  <2> QED
    BY <1>4, <1>5
<1> QED
  BY <1>6
-----------------------------------------------------------------------------
(* A derivation is right, and leaves the counts alone.                     *)

LEMMA NullMXHolds ==
    ASSUME PubType, ResultsFit, RRsFit(all, mxRRs, Len(all)), NotDerived(gauge),
           Zeroed \subseteq DOMAIN gauge, NEW z \in ConfiguredZones,
           NEW null, null = {k \in Infos(z) : all[k].labels.target = Dot
                                                 /\ all[k].labels.priority = 0},
           NEW v, v = Set(Set(gauge, NullMX), IsPrimary)
    PROVE  /\ v[Series("mx_has_null_mx_rr", z, Total)] = (IF null # {} THEN 1 ELSE 0)
           /\ v[Series("null_mx", z, Total)] =
                 (IF null # {} /\ Infos(z) = null /\ Cardinality(null) = 1 THEN 1 ELSE 0)
<1> DEFINE broad == Series("mx_has_null_mx_rr", z, Total)
           only == Series("null_mx", z, Total)
           zones == {y \in MXZones : NullRRs(y) # {}}
           single == {y \in zones : Cardinality(RRsOf(y)) = 1}
<1>0. z \in Zones
  BY PublicationAssumption DEF ConfiguredZones
<1>1. /\ RRsOf(z) = RecordsOf(mxRRs, z) /\ Infos(z) = InfosOf(all, z, Len(all))
      /\ \A k \in RRsOf(z) : \E j \in Infos(z) : mxRRs[k] = RR(all[j])
      /\ \A j \in Infos(z) : \E k \in RRsOf(z) : mxRRs[k] = RR(all[j])
  BY SameRecords
<1>2. NullRRs(z) # {} <=> null # {}
  <2>1. ASSUME NEW k \in NullRRs(z)
        PROVE  null # {}
    <3>1. PICK j \in Infos(z) : mxRRs[k] = RR(all[j])
      BY <1>1 DEF NullRRs
    <3> QED
      BY <3>1 DEF NullRRs, RR
  <2>2. ASSUME NEW j \in null
        PROVE  NullRRs(z) # {}
    <3>1. PICK k \in RRsOf(z) : mxRRs[k] = RR(all[j])
      BY <1>1
    <3>2. k \in NullRRs(z)
      BY <3>1 DEF NullRRs, RR
    <3> QED
      BY <3>2
  <2> QED
    BY <2>1, <2>2
<1>3. NullRRs(z) # {} => z \in MXZones
  BY DEF NullRRs, MXZones, RRsOf
<1>4. z \in zones <=> null # {}
  BY <1>2, <1>3
<1>5. Cardinality(RRsOf(z)) = Cardinality(Infos(z))
  BY <1>0, <1>1 DEF RRsFit
<1>6. (null # {} /\ Infos(z) = null /\ Cardinality(null) = 1) <=> z \in single
  <2>1. IsFiniteSet(Infos(z))
    BY <1>1, PrefixIsFinite DEF InfosOf, PubType
  <2>2. ASSUME null # {}, Cardinality(Infos(z)) = 1
        PROVE  Infos(z) = null
    <3>1. PICK x : Infos(z) = {x}
      BY <2>1, <2>2, FS_Singleton
    <3> QED
      BY <3>1, <2>2
  <2> QED
    BY <2>2, <1>4, <1>5
<1>7. DOMAIN NullMX = {Series("mx_has_null_mx_rr", y, Total) : y \in zones}
                         \cup {Series("null_mx", y, Total) : y \in single}
      /\ \A s \in DOMAIN NullMX : NullMX[s] = 1
  BY DEF NullMX
<1>8. /\ broad \in DOMAIN NullMX <=> z \in zones
      /\ only \in DOMAIN NullMX <=> z \in single
  BY <1>7 DEF Series
<1>9. \A s \in DOMAIN IsPrimary : s.metric = "mx_is_primary"
  BY DEF IsPrimary, Series
<1>10. /\ broad \notin DOMAIN IsPrimary /\ only \notin DOMAIN IsPrimary
  BY <1>9 DEF Series
<1>11. /\ broad \in DOMAIN gauge /\ gauge[broad] = 0
       /\ only \in DOMAIN gauge /\ gauge[only] = 0
  <2>1. broad \in Zeroed /\ only \in Zeroed
    BY DEF Zeroed, ConfiguredZones
  <2> QED
    BY <2>1 DEF NotDerived
<1> HIDE DEF broad, only, zones, single
<1>12. /\ v[broad] = (IF broad \in DOMAIN NullMX THEN NullMX[broad] ELSE gauge[broad])
       /\ v[only] = (IF only \in DOMAIN NullMX THEN NullMX[only] ELSE gauge[only])
  BY <1>10, <1>11 DEF Set
<1>13. /\ v[broad] = (IF z \in zones THEN 1 ELSE 0)
       /\ v[only] = (IF z \in single THEN 1 ELSE 0)
  BY <1>12, <1>7, <1>8, <1>11
<1> QED
  BY <1>13, <1>4, <1>6 DEF broad, only

LEMMA PrimaryHolds ==
    ASSUME PubType, ResultsFit, RRsFit(all, mxRRs, Len(all)),
           NEW z \in ConfiguredZones, NEW k \in Infos(z), NEW v,
           v = Set(Set(gauge, NullMX), IsPrimary),
           NEW s, s = Series("mx_is_primary", z, all[k].labels.target)
    PROVE  /\ s \in DOMAIN v
           /\ v[s] = 1 <=>
                 \E j \in Infos(z) :
                     /\ all[j].labels.target = all[k].labels.target
                     /\ \A i \in Infos(z) : all[j].labels.priority <= all[i].labels.priority
<1> DEFINE t == all[k].labels.target
<1>1. /\ \A i \in RRsOf(z) : \E j \in Infos(z) : mxRRs[i] = RR(all[j])
      /\ \A j \in Infos(z) : \E i \in RRsOf(z) : mxRRs[i] = RR(all[j])
      /\ \A i \in RRsOf(z) : mxRRs[i] \in MXRecord
  BY SameRecords
<1>2. \A j : RR(all[j]).target = all[j].labels.target
              /\ RR(all[j]).priority = all[j].labels.priority
  BY DEF RR
<1>3. t \in Targets(z) /\ z \in MXZones
  BY <1>1, <1>2 DEF Targets, MXZones, RRsOf
<1>4. s \in DOMAIN IsPrimary /\ s.of = z /\ s.label = t
  BY <1>3 DEF IsPrimary, Series
<1>5. IsPrimary[s] = IF \A u \in Targets(z) : Lowest(z, t) <= Lowest(z, u) THEN 1 ELSE 0
  BY <1>4 DEF IsPrimary
<1>6. s \in DOMAIN v /\ v[s] = IsPrimary[s]
  BY <1>4 DEF Set
<1>7. \A u \in Targets(z) :
         /\ \E i \in RRsOf(z) : mxRRs[i].target = u /\ Lowest(z, u) = mxRRs[i].priority
         /\ \A i \in RRsOf(z) : mxRRs[i].target = u => Lowest(z, u) <= mxRRs[i].priority
  BY <1>1, LowestIsLeast
<1>8. \A i \in RRsOf(z) : mxRRs[i].priority \in Nat /\ mxRRs[i].target \in Targets(z)
  BY <1>1 DEF MXRecord, Targets
<1>9. ASSUME \A u \in Targets(z) : Lowest(z, t) <= Lowest(z, u)
      PROVE  \E j \in Infos(z) :
                 /\ all[j].labels.target = t
                 /\ \A i \in Infos(z) : all[j].labels.priority <= all[i].labels.priority
  <2>1. PICK i \in RRsOf(z) : mxRRs[i].target = t /\ Lowest(z, t) = mxRRs[i].priority
    BY <1>3, <1>7
  <2>2. PICK j \in Infos(z) : mxRRs[i] = RR(all[j])
    BY <1>1
  <2>3. ASSUME NEW h \in Infos(z)
        PROVE  all[j].labels.priority <= all[h].labels.priority
    <3>1. PICK l \in RRsOf(z) : mxRRs[l] = RR(all[h])
      BY <1>1
    <3>2. mxRRs[l].target \in Targets(z)
      BY <1>8
    <3>3. /\ Lowest(z, t) <= Lowest(z, mxRRs[l].target)
          /\ Lowest(z, mxRRs[l].target) <= mxRRs[l].priority
          /\ Lowest(z, mxRRs[l].target) \in Nat
      BY <1>7, <1>8, <1>9, <3>2
    <3> QED
      BY <3>1, <3>3, <2>1, <2>2, <1>2, <1>8
  <2> QED
    BY <2>1, <2>2, <2>3, <1>2
<1>10. ASSUME NEW j \in Infos(z), all[j].labels.target = t,
              \A i \in Infos(z) : all[j].labels.priority <= all[i].labels.priority
       PROVE  \A u \in Targets(z) : Lowest(z, t) <= Lowest(z, u)
  <2> TAKE u \in Targets(z)
  <2>1. PICK i \in RRsOf(z) : mxRRs[i] = RR(all[j])
    BY <1>1
  <2>2. Lowest(z, t) <= mxRRs[i].priority /\ Lowest(z, t) \in Nat
    BY <2>1, <1>2, <1>3, <1>7, <1>8, <1>10
  <2>3. PICK l \in RRsOf(z) : mxRRs[l].target = u /\ Lowest(z, u) = mxRRs[l].priority
    BY <1>7
  <2>4. PICK h \in Infos(z) : mxRRs[l] = RR(all[h])
    BY <1>1
  <2>5. mxRRs[i].priority <= mxRRs[l].priority
    BY <1>10, <2>1, <2>4, <1>2
  <2> QED
    BY <2>2, <2>3, <2>5, <1>8
<1> QED
  BY <1>5, <1>6, <1>9, <1>10

\* What Derive sets are other series than the counts, of configured zones.
LEMMA DeriveKeepsCounts ==
    ASSUME PubType, ResultsFit, RRsFit(all, mxRRs, Len(all)), NEW n, CountsFit(all, gauge, n)
    PROVE  CountsFit(all, Set(Set(gauge, NullMX), IsPrimary), n)
<1> DEFINE v == Set(Set(gauge, NullMX), IsPrimary)
<1>1. \A z \in MXZones : z \in ConfiguredZones
  <2> SUFFICES ASSUME NEW j \in 1..Len(mxRRs)
               PROVE  mxRRs[j].zone \in ConfiguredZones
    BY DEF MXZones, PubType
  <2>1. PICK k \in 1..Len(all) : mxRRs[j] = RR(all[k])
    BY DEF RRsFit
  <2> QED
    BY <2>1 DEF RR, ResultsFit
<1>2. \A s \in DOMAIN NullMX \cup DOMAIN IsPrimary :
         /\ s.metric \in {"mx_has_null_mx_rr", "null_mx", "mx_is_primary"}
         /\ s.of \in MXZones
  BY DEF NullMX, IsPrimary, Series
<1>3. \A s \in DOMAIN NullMX \cup DOMAIN IsPrimary : s.metric \notin Counted
  BY <1>2 DEF Counted, MXCounts
<1>4. /\ DOMAIN v = DOMAIN gauge \cup DOMAIN NullMX \cup DOMAIN IsPrimary
      /\ \A s \in DOMAIN gauge \ (DOMAIN NullMX \cup DOMAIN IsPrimary) : v[s] = gauge[s]
  BY DEF Set
<1> HIDE DEF v
<1>5. \A s \in DOMAIN v : /\ s.of \in ConfiguredZones
                          /\ s.metric \in Counted => s \in DOMAIN gauge /\ v[s] = gauge[s]
  BY <1>1, <1>2, <1>3, <1>4 DEF CountsFit
<1>6. CountsFit(all, v, n)
  BY <1>4, <1>5 DEF CountsFit
<1> QED
  BY <1>6 DEF v
-----------------------------------------------------------------------------
(* The steps.                                                              *)

\* The goroutine that joins only adds results.
LEMMA JoinsExtend ==
    ASSUME PubType, NEW g \in DOMAIN CfgZones, Joins(g)
    PROVE  /\ all' \in Seq(ProbeResult) /\ Len(all') \in Nat /\ Len(all) <= Len(all')
           /\ \A k \in 1..Len(all) : all'[k] = all[k]
<1>1. /\ all \in Seq(ProbeResult) /\ all' \in Seq(ProbeResult)
      /\ Len(all) \in Nat /\ Len(all') \in Nat /\ Len(all) <= Len(all')
      /\ SubSeq(all', 1, Len(all)) = all
  BY DEF PubType, Joins
<1>2. \A k \in 1..Len(all) : SubSeq(all', 1, Len(all))[k] = all'[k]
  BY <1>1
<1> QED
  BY <1>1, <1>2

LEMMA NewRecord ==
    ASSUME PubType, ResultsFit, NEW k \in 1..Len(all), HasInfo(all[k])
    PROVE  RR(all[k]) \in MXRecord
<1>1. all[k].labels \in Labels /\ all[k].zone \in Zones
  <2>1. all[k] \in ProbeResult
    BY DEF PubType
  <2> QED
    BY <2>1 DEF ProbeResult
<1>2. all[k].labels.priority \in Nat /\ all[k].labels.target \in Hosts
  <2>1. {"target", "priority"} \subseteq DOMAIN all[k].labels
    BY DEF ResultsFit
  <2> QED
    BY <1>1, <2>1 DEF Labels
<1> QED
  BY <1>1, <1>2 DEF RR, MXRecord

LEMMA TypeStep == ASSUME PubType, ResultsFit, [PubNext]_pubVars
                  PROVE  PubType' /\ ResultsFit'
<1> USE DEF Phases
<1>1. CASE PublicationStep
  <2>1. CASE Reset
    BY <2>1 DEF Reset, PubType, ResultsFit, HasInfo
  <2>2. CASE Collect
    BY <2>2 DEF Collect, PubType, ResultsFit, HasInfo
  <2>3. CASE Aggregate
    <3>1. /\ all \in Seq(ProbeResult) /\ taken + 1 \in 1..Len(all)
          /\ mxRRs \in Seq(MXRecord) /\ phase = "aggregate"
          /\ UNCHANGED <<phase, joined, all>> /\ taken' = taken + 1
          /\ mxRRs' = IF HasInfo(all[taken + 1]) THEN Append(mxRRs, RR(all[taken + 1]))
                      ELSE mxRRs
      BY <2>3 DEF Aggregate, PubType, RR
    <3>2. HasInfo(all[taken + 1]) => RR(all[taken + 1]) \in MXRecord
      BY <3>1, NewRecord
    <3>3. mxRRs' \in Seq(MXRecord)
      BY <3>1, <3>2
    <3>4. PubType'
      BY <3>1, <3>3 DEF PubType
    <3> QED
      BY <3>1, <3>4 DEF ResultsFit, HasInfo
  <2>4. CASE Derive
    BY <2>4 DEF Derive, PubType, ResultsFit, HasInfo
  <2>5. CASE BuildRegistry
    BY <2>5 DEF BuildRegistry, PubType, ResultsFit, HasInfo
  <2>6. CASE Publish
    BY <2>6 DEF Publish, PubType, ResultsFit, HasInfo
  <2> QED
    BY <1>1, <2>1, <2>2, <2>3, <2>4, <2>5, <2>6 DEF PublicationStep
<1>2. ASSUME NEW g \in DOMAIN CfgZones, Joins(g)
      PROVE  PubType' /\ ResultsFit'
  <2>1. /\ all' \in Seq(ProbeResult) /\ Len(all') \in Nat /\ Len(all) <= Len(all')
        /\ \A k \in 1..Len(all) : all'[k] = all[k]
    BY <1>2, JoinsExtend
  <2>2. PubType'
    BY <1>2, <2>1 DEF Joins, PubType
  <2>3. ASSUME NEW k \in 1..Len(all')
        PROVE  /\ all'[k].zone \in ConfiguredZones
               /\ HasInfo(all'[k]) => {"target", "priority"} \subseteq DOMAIN all'[k].labels
    <3>1. CASE k \in 1..Len(all)
      BY <3>1, <2>1 DEF ResultsFit
    <3>2. CASE k \in Len(all) + 1 .. Len(all')
      BY <3>2, <1>2 DEF Joins, ConfiguredZones
    <3> QED
      BY <3>1, <3>2, <2>1 DEF PubType
  <2> QED
    BY <2>2, <2>3 DEF ResultsFit, HasInfo
<1>3. CASE UNCHANGED pubVars
  BY <1>3 DEF pubVars, PubType, ResultsFit, HasInfo
<1> QED
  BY <1>1, <1>2, <1>3 DEF PubNext

\* Before the loop over the results there are no records.
LEMMA NoRecords == ASSUME NEW a PROVE RRsFit(a, <<>>, 0)
<1>1. \A z : RecordsOf(<<>>, z) = {} /\ InfosOf(a, z, 0) = {}
  BY DEF RecordsOf, InfosOf
<1> QED
  BY <1>1 DEF RRsFit

LEMMA RRsStep ==
    ASSUME PubType, ResultsFit, RRsFit(all, mxRRs, Aggregated), [PubNext]_pubVars
    PROVE  RRsFit(all', mxRRs', Aggregated')
<1> USE DEF Phases
<1>1. CASE Aggregate
  <2>1. /\ taken \in Nat /\ taken + 1 \in 1..Len(all) /\ all' = all
        /\ Aggregated = taken /\ Aggregated' = taken + 1 /\ mxRRs \in Seq(MXRecord)
        /\ mxRRs' = IF HasInfo(all[taken + 1]) THEN Append(mxRRs, RR(all[taken + 1]))
                    ELSE mxRRs
    BY <1>1 DEF Aggregate, PubType, Aggregated, Derived, RR
  <2>2. CASE HasInfo(all[taken + 1])
    <3>1. RR(all[taken + 1]) \in MXRecord
      BY <2>1, <2>2, NewRecord
    <3>2. RRsFit(all, Append(mxRRs, RR(all[taken + 1])), taken + 1)
      BY <2>1, <2>2, <3>1, RRsTake
    <3> QED
      BY <2>1, <2>2, <3>2
  <2>3. CASE ~HasInfo(all[taken + 1])
    <3>1. RRsFit(all, mxRRs, taken + 1)
      BY <2>1, <2>3, RRsSkip
    <3> QED
      BY <2>1, <2>3, <3>1
  <2> QED
    BY <2>2, <2>3
<1>2. ASSUME NEW g \in DOMAIN CfgZones, Joins(g)
      PROVE  RRsFit(all', mxRRs', Aggregated')
  <2>1. mxRRs' = <<>> /\ Aggregated' = 0
    BY <1>2 DEF Joins, PubType, Aggregated, Derived
  <2> QED
    BY <2>1, NoRecords
<1>3. CASE Reset \/ Collect \/ Derive \/ BuildRegistry \/ Publish \/ UNCHANGED pubVars
  <2>1. UNCHANGED <<all, mxRRs>> /\ Aggregated' = Aggregated
    BY <1>3 DEF Reset, Collect, Derive, BuildRegistry, Publish, pubVars, Aggregated,
                Derived, PubType
  <2> QED
    BY <2>1
<1> QED
  BY <1>1, <1>2, <1>3 DEF PubNext, PublicationStep

LEMMA GaugedStep ==
    ASSUME PubType, ResultsFit, RRsFit(all, mxRRs, Aggregated), Gauged, [PubNext]_pubVars
    PROVE  Gauged'
<1> USE DEF Phases
<1>1. CASE Reset
  BY <1>1 DEF Reset, Gauged, Derived
<1>2. CASE Collect
  <2> DEFINE zero == [s \in Zeroed |-> 0]
  <2>1. /\ phase = "probe" /\ phase' = "aggregate" /\ all' = all /\ Aggregated' = 0
        /\ DOMAIN gauge = {} /\ gauge' = Set(gauge, zero)
    BY <1>2 DEF Collect, Gauged, PubType, Aggregated, Derived
  <2>2. DOMAIN gauge' = Zeroed /\ \A s \in Zeroed : gauge'[s] = 0
    BY <2>1 DEF Set
  <2>3. \A s \in Zeroed : s.of \in ConfiguredZones
    BY DEF Zeroed, Series, ConfiguredZones
  <2>4. \A s : Cardinality(Counting(all, s, 0)) = 0
    <3>1. \A s : Counting(all, s, 0) = {}
      BY DEF Counting
    <3> QED
      BY <3>1, FS_EmptySet
  <2>5. CountsFit(all, gauge', 0)
    BY <2>2, <2>3, <2>4 DEF CountsFit
  <2>6. \A z \in ConfiguredZones : \A m \in {"null_mx", "mx_has_null_mx_rr"} :
           Series(m, z, Total) \in Zeroed
    BY DEF Zeroed, ConfiguredZones
  <2>7. NotDerived(gauge')
    BY <2>2, <2>6 DEF NotDerived
  <2> QED
    BY <2>1, <2>5, <2>7 DEF Gauged
<1>3. CASE Aggregate
  <2>1. /\ taken \in Nat /\ taken + 1 \in 1..Len(all) /\ all' = all /\ phase = "aggregate"
        /\ phase' = phase /\ Aggregated = taken /\ Aggregated' = taken + 1
        /\ gauge' = Inc(gauge, GaugesOf(all[taken + 1]))
    BY <1>3 DEF Aggregate, PubType, Aggregated, Derived
  <2>2. CountsFit(all, gauge, taken) /\ NotDerived(gauge)
    BY <2>1 DEF Gauged
  <2>3. CountsFit(all, gauge', taken + 1)
    BY <2>1, <2>2, CountsTake DEF ResultsFit
  <2>4. NotDerived(gauge')
    BY <2>1, <2>2, NotDerivedTake DEF CountsFit
  <2> QED
    BY <2>1, <2>3, <2>4 DEF Gauged
<1>4. CASE Derive
  <2>1. /\ all' = all /\ phase = "aggregate" /\ phase' = "build"
        /\ Aggregated = Len(all) /\ Aggregated' = Len(all)
        /\ gauge' = Set(Set(gauge, NullMX), IsPrimary)
    BY <1>4 DEF Derive, PubType, Aggregated, Derived
  <2>2. CountsFit(all, gauge', Len(all))
    BY <2>1, DeriveKeepsCounts DEF Gauged
  <2> QED
    BY <2>1, <2>2 DEF Gauged
<1>5. CASE BuildRegistry \/ Publish
  <2>1. /\ UNCHANGED <<all, gauge>> /\ Aggregated' = Aggregated
        /\ phase = "build" /\ phase' \in {"build", "published"}
    BY <1>5 DEF BuildRegistry, Publish, Aggregated, Derived
  <2> QED
    BY <2>1 DEF Gauged, Derived
<1>6. ASSUME NEW g \in DOMAIN CfgZones, Joins(g)
      PROVE  Gauged'
  BY <1>6 DEF Joins, Gauged, Derived
<1>7. CASE UNCHANGED pubVars
  <2>1. UNCHANGED <<all, gauge, phase>> /\ Aggregated' = Aggregated
    BY <1>7 DEF pubVars, Aggregated, Derived
  <2> QED
    BY <2>1 DEF Gauged, Derived
<1> QED
  BY <1>1, <1>2, <1>3, <1>4, <1>5, <1>6, <1>7 DEF PubNext, PublicationStep

LEMMA RegistryStep ==
    ASSUME PubType, Served(all, registry, Registered), [PubNext]_pubVars
    PROVE  Served(all', registry', Registered')
<1> USE DEF Phases
<1>1. CASE BuildRegistry
  <2>1. /\ taken \in Nat /\ all' = all /\ registry' = Set(Gauges(all[taken + 1]), registry)
        /\ Registered = taken /\ Registered' = taken + 1
    BY <1>1 DEF BuildRegistry, Register, PubType, Registered, Derived
  <2> QED
    BY <2>1, RegisterTake
<1>2. ASSUME NEW g \in DOMAIN CfgZones, Joins(g)
      PROVE  Served(all', registry', Registered')
  <2>1. registry' = registry /\ Registered = 0 /\ Registered' = 0
    BY <1>2 DEF Joins, Registered, Derived
  <2>2. DOMAIN registry = {}
    <3>1. \A s \in DOMAIN registry : \E k \in 1..0 : s \in DOMAIN Gauges(all[k])
      BY <2>1 DEF Served
    <3>2. \A k \in 1..0 : FALSE
      OBVIOUS
    <3> QED
      BY <3>1, <3>2
  <2> QED
    BY <2>1, <2>2 DEF Served
<1>3. CASE Reset \/ Collect \/ Aggregate \/ Derive \/ Publish \/ UNCHANGED pubVars
  <2>1. UNCHANGED <<all, registry>> /\ Registered' = Registered
    BY <1>3 DEF Reset, Collect, Aggregate, Derive, Publish, pubVars, Registered,
                Derived, PubType
  <2> QED
    BY <2>1
<1> QED
  BY <1>1, <1>2, <1>3 DEF PubNext, PublicationStep

\* What is derived is right when it is derived, and stays.
LEMMA DerivedStep ==
    ASSUME IInv, [PubNext]_pubVars
    PROVE  NullMXTellsTheRecords' /\ PrimaryIsLowest'
<1>1. CASE Derive
  <2>1. /\ PubType /\ ResultsFit /\ RRsFit(all, mxRRs, Len(all)) /\ NotDerived(gauge)
        /\ Zeroed \subseteq DOMAIN gauge /\ all' = all
        /\ gauge' = Set(Set(gauge, NullMX), IsPrimary)
    BY <1>1 DEF IInv, Derive, Gauged, CountsFit, Aggregated, Derived
  <2>2. \A z : Infos(z)' = Infos(z)
    BY <2>1 DEF Infos, HasInfo
  <2>3. ASSUME NEW z \in ConfiguredZones
        PROVE  LET null == {k \in Infos(z) : all[k].labels.target = Dot
                                               /\ all[k].labels.priority = 0}
               IN  /\ gauge'[Series("mx_has_null_mx_rr", z, Total)] =
                         (IF null # {} THEN 1 ELSE 0)
                   /\ gauge'[Series("null_mx", z, Total)] =
                         (IF null # {} /\ Infos(z) = null /\ Cardinality(null) = 1
                          THEN 1 ELSE 0)
    BY <2>1, NullMXHolds
  <2>4. NullMXTellsTheRecords'
    BY <2>1, <2>2, <2>3 DEF NullMXTellsTheRecords, ConfiguredZones, Series, Total
  <2>5. ASSUME NEW z \in ConfiguredZones, NEW k \in Infos(z)
        PROVE  LET s == Series("mx_is_primary", z, all[k].labels.target)
               IN  /\ s \in DOMAIN gauge'
                   /\ gauge'[s] = 1 <=>
                         \E j \in Infos(z) :
                             /\ all[j].labels.target = all[k].labels.target
                             /\ \A i \in Infos(z) :
                                   all[j].labels.priority <= all[i].labels.priority
    BY <2>1, PrimaryHolds
  <2>6. PrimaryIsLowest'
    BY <2>1, <2>2, <2>5 DEF PrimaryIsLowest, ConfiguredZones, Series
  <2> QED
    BY <2>4, <2>6
<1>2. CASE BuildRegistry \/ Publish \/ UNCHANGED pubVars
  <2>1. UNCHANGED <<all, gauge>> /\ Derived' = Derived
    BY <1>2 DEF BuildRegistry, Publish, pubVars, Derived
  <2>2. \A z : Infos(z)' = Infos(z)
    BY <2>1 DEF Infos, HasInfo
  <2>3. NullMXTellsTheRecords'
    BY <2>1, <2>2 DEF IInv, NullMXTellsTheRecords, Series, Total
  <2>4. PrimaryIsLowest'
    BY <2>1, <2>2 DEF IInv, PrimaryIsLowest, Series
  <2> QED
    BY <2>3, <2>4
<1>3. CASE Reset \/ Collect \/ Aggregate \/ \E g \in DOMAIN CfgZones : Joins(g)
  <2>1. ~Derived'
    BY <1>3 DEF Reset, Collect, Aggregate, Joins, Derived
  <2> QED
    BY <2>1 DEF NullMXTellsTheRecords, PrimaryIsLowest
<1> QED
  BY <1>1, <1>2, <1>3 DEF PubNext, PublicationStep
-----------------------------------------------------------------------------
(* The theorems.                                                           *)

LEMMA InitHolds == ASSUME PubInit PROVE IInv
<1> USE DEF PubInit, Derived
<1>1. PubType
  BY DEF PubType, Phases
<1>2. RRsFit(all, mxRRs, Aggregated)
  BY NoRecords DEF Aggregated
<1> QED
  BY <1>1, <1>2 DEF IInv, ResultsFit, Gauged, Served, Registered,
                    NullMXTellsTheRecords, PrimaryIsLowest

\* The records, the counts and the registry are in every state those of the
\* results that the loop at hand has passed (runner.go:288-430,
\* registry.go:7-66).
THEOREM PublicationInvariant == PubSpec => []IInv
<1>1. PubInit => IInv
  BY InitHolds
<1>2. IInv /\ [PubNext]_pubVars => IInv'
  <2> SUFFICES ASSUME IInv, [PubNext]_pubVars PROVE IInv'
    OBVIOUS
  <2>1. PubType' /\ ResultsFit'
    BY TypeStep DEF IInv
  <2>2. RRsFit(all', mxRRs', Aggregated')
    BY RRsStep DEF IInv
  <2>3. Gauged'
    BY GaugedStep DEF IInv
  <2>4. Served(all', registry', Registered')
    BY RegistryStep DEF IInv
  <2>5. NullMXTellsTheRecords' /\ PrimaryIsLowest'
    BY DerivedStep
  <2> QED
    BY <2>1, <2>2, <2>3, <2>4, <2>5 DEF IInv
<1> QED
  BY <1>1, <1>2, PTL DEF PubSpec

\* The permanent gauges count this cycle's results and nothing else, for every
\* list of zones and every order in which the goroutines return
\* (runner.go:190-222, 284-315).
THEOREM CountsTheorem == PubSpec => []GaugesAreOfThisCycle
<1>1. IInv => GaugesAreOfThisCycle
  <2> SUFFICES ASSUME IInv, phase = "aggregate" \/ Derived PROVE GaugesAreOfThisCycle
    BY DEF GaugesAreOfThisCycle
  <2>1. Seen = 1..Aggregated /\ CountsFit(all, gauge, Aggregated)
    BY DEF IInv, Gauged, Seen, Aggregated, Derived
  <2> QED
    BY <2>1 DEF GaugesAreOfThisCycle, CountsFit, Counting, Counted, ConfiguredZones
<1> QED
  BY <1>1, PublicationInvariant, PTL

\* The two Null MX signals say what the MX records of the zone are
\* (runner.go:379-400).
THEOREM NullMXTheorem == PubSpec => []NullMXTellsTheRecords
<1>1. IInv => NullMXTellsTheRecords
  BY DEF IInv
<1> QED
  BY <1>1, PublicationInvariant, PTL

\* The primary targets are those with a record of the lowest preference
\* (runner.go:402-428).
THEOREM PrimaryTheorem == PubSpec => []PrimaryIsLowest
<1>1. IInv => PrimaryIsLowest
  BY DEF IInv
<1> QED
  BY <1>1, PublicationInvariant, PTL

\* The registry has every series of every result, with the value of the first
\* result that has it (registry.go:24-66).
THEOREM RegistryTheorem == PubSpec => []FirstResultIsServed
<1>1. IInv => FirstResultIsServed
  <2> SUFFICES ASSUME IInv, phase = "published",
                      NEW k \in DOMAIN all, NEW s \in DOMAIN Gauges(all[k])
               PROVE  /\ s \in DOMAIN registry
                      /\ \E j \in 1..k :
                            /\ s \in DOMAIN Gauges(all[j]) /\ registry[s] = Gauges(all[j])[s]
                            /\ \A i \in 1..(j - 1) : s \notin DOMAIN Gauges(all[i])
    BY DEF FirstResultIsServed
  <2>1. Registered = Len(all) /\ k \in 1..Len(all)
    BY DEF IInv, PubType, Registered, Derived
  <2>2. FirstOf(all, registry, s, k)
    BY <2>1 DEF IInv, Served
  <2> QED
    BY <2>2 DEF FirstOf
<1> QED
  BY <1>1, PublicationInvariant, PTL
=============================================================================
