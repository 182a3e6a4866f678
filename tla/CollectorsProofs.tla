-------------------------- MODULE CollectorsProofs --------------------------
(***************************************************************************)
(* Theorems about what the collectors of the repository report: of any     *)
(* number of addresses, network devices and lines.                         *)
(***************************************************************************)
EXTENDS SnapshotProofs

-----------------------------------------------------------------------------
(* The primary addresses.                                                  *)

PrimaryFact(v) == IF v = 4 THEN "primary_ipv4" ELSE "primary_ipv6"

Eligible(a, v) == a.family = v /\ (v = 4 \/ ~a.local)

\* The facts there can be.
FactSets ==
    UNION {[D -> Addresses \cup {iface}] :
             D \in SUBSET {"default_iface", "primary_ipv4", "primary_ipv6"}}

\* An address of a family becomes its fact, unless there is one.
LEMMA AddressAdded ==
    ASSUME NEW f, NEW a \in Addresses, NEW v \in {4, 6}
    PROVE  /\ Eligible(a, v) /\ PrimaryFact(v) \notin DOMAIN f
                => /\ PrimaryFact(v) \in DOMAIN AddAddress(f, a)
                   /\ AddAddress(f, a)[PrimaryFact(v)] = a
           /\ ~Eligible(a, v) \/ PrimaryFact(v) \in DOMAIN f
                => /\ PrimaryFact(v) \in DOMAIN AddAddress(f, a)
                        <=> PrimaryFact(v) \in DOMAIN f
                   /\ PrimaryFact(v) \in DOMAIN f
                        => AddAddress(f, a)[PrimaryFact(v)] = f[PrimaryFact(v)]
  BY DEF Addresses, AddAddress, Put, PrimaryFact, Eligible

LEMMA FactSetsClosed ==
    ASSUME NEW f \in FactSets, NEW a \in Addresses
    PROVE  AddAddress(f, a) \in FactSets
<1>1. ASSUME NEW k \in {"primary_ipv4", "primary_ipv6"}
      PROVE  Put(f, k, a) \in FactSets
  <2>1. PICK D \in SUBSET {"default_iface", "primary_ipv4", "primary_ipv6"} :
               f \in [D -> Addresses \cup {iface}]
    BY DEF FactSets
  <2>2. Put(f, k, a) \in [D \cup {k} -> Addresses \cup {iface}]
    BY <2>1 DEF Put
  <2>3. D \cup {k} \in SUBSET {"default_iface", "primary_ipv4", "primary_ipv6"}
    OBVIOUS
  <2> QED
    BY <2>2, <2>3 DEF FactSets
<1> QED
  BY <1>1 DEF AddAddress

\* The facts of the first k addresses, for a function that goes over the sets
\* of positions as FoldLeft does.
NetworkFold(g, addresses) ==
    g = [s \in SUBSET (DOMAIN addresses) |->
           IF s = {} THEN Put(Nothing, "default_iface", iface)
           ELSE AddAddress(g[s \ {Max(s)}], addresses[Max(s)])]

LEMMA NetworkFolds ==
    ASSUME NEW addresses \in Seq(Addresses)
    PROVE  \E g : /\ NetworkFold(g, addresses)
                  /\ NetworkFacts(addresses) = g[DOMAIN addresses]
<1> DEFINE n == Len(addresses)
           base == Put(Nothing, "default_iface", iface)
           h == [i \in 1..n |-> [f \in FactSets |-> AddAddress(f, addresses[i])]]
           fold == CHOOSE g : NetworkFold(g, addresses)
<1>1. n \in Nat /\ DOMAIN addresses = 1..n
  OBVIOUS
<1>2. base \in FactSets
  <2>1. base \in [{"default_iface"} -> Addresses \cup {iface}]
    BY DEF Put, Nothing
  <2> QED
    BY <2>1 DEF FactSets
<1>3. h \in [1..n -> [FactSets -> FactSets]]
  BY FactSetsClosed
<1> HIDE DEF n, base, h
<1>4. PICK g : FoldsTo(g, FactSets, base, n, h)
  BY <1>1, <1>2, <1>3, FoldExists, Zenon
<1>5. ASSUME NEW s \in SUBSET (1..n), s # {}
      PROVE  g[s] = AddAddress(g[s \ {Max(s)}], addresses[Max(s)])
  <2>1. s \subseteq 0..n
    OBVIOUS
  <2>2. Max(s) \in 1..n
    BY <1>1, <1>5, <2>1, MaxIsGreatest
  <2>3. g[s \ {Max(s)}] \in FactSets
    BY <1>4 DEF FoldsTo
  <2> QED
    BY <1>4, <1>5, <2>2, <2>3 DEF FoldsTo, h
<1>6. NetworkFold(g, addresses)
  <2>1. /\ g = [s \in SUBSET (1..n) |-> g[s]]
        /\ g[{}] = base
    BY <1>4 DEF FoldsTo
  <2>2. g = [s \in SUBSET (1..n) |->
               IF s = {} THEN base
               ELSE AddAddress(g[s \ {Max(s)}], addresses[Max(s)])]
    BY <1>5, <2>1
  <2> QED
    BY <1>1, <2>2 DEF NetworkFold, base
<1>7. NetworkFold(fold, addresses)
  BY <1>6
<1>8. NetworkFacts(addresses) = fold[DOMAIN addresses]
  BY DEF NetworkFacts, FoldLeft, MapThenFoldSet, NetworkFold
<1> QED
  BY <1>7, <1>8

LEMMA FirstAddressesWin ==
    ASSUME NEW addresses \in Seq(Addresses), NEW v \in {4, 6}
    PROVE  /\ PrimaryFact(v) \in DOMAIN NetworkFacts(addresses)
                <=> \E i \in 1..Len(addresses) : Eligible(addresses[i], v)
           /\ \A i \in 1..Len(addresses) :
                /\ Eligible(addresses[i], v)
                /\ \A j \in 1..Len(addresses) : Eligible(addresses[j], v) => i <= j
                => NetworkFacts(addresses)[PrimaryFact(v)] = addresses[i]
<1> DEFINE n == Len(addresses)
           fact == PrimaryFact(v)
<1>1. n \in Nat /\ DOMAIN addresses = 1..n
  OBVIOUS
<1>2. PICK g : NetworkFold(g, addresses) /\ NetworkFacts(addresses) = g[1..n]
  BY NetworkFolds
<1> DEFINE Right(k) ==
      /\ fact \in DOMAIN g[1..k] <=> \E i \in 1..k : Eligible(addresses[i], v)
      /\ \A i \in 1..k :
           /\ Eligible(addresses[i], v)
           /\ \A j \in 1..k : Eligible(addresses[j], v) => i <= j
           => g[1..k][fact] = addresses[i]
<1> HIDE DEF n
<1>3. \A s \in SUBSET (1..n) :
        g[s] = IF s = {} THEN Put(Nothing, "default_iface", iface)
               ELSE AddAddress(g[s \ {Max(s)}], addresses[Max(s)])
  BY <1>1, <1>2 DEF NetworkFold
<1>4. ASSUME NEW k \in Nat, k + 1 <= n
      PROVE  g[1..(k + 1)] = AddAddress(g[1..k], addresses[k + 1])
  <2>1. Max(1..(k + 1)) = k + 1
    <3>1. 1..(k + 1) \subseteq 0..(k + 1) /\ k + 1 \in 1..(k + 1)
      OBVIOUS
    <3>2. Max(1..(k + 1)) \in 1..(k + 1) /\ k + 1 <= Max(1..(k + 1))
      BY <3>1, MaxIsGreatest
    <3> QED
      BY <3>2
  <2>2. (1..(k + 1)) \ {k + 1} = 1..k
    OBVIOUS
  <2>3. 1..(k + 1) \in SUBSET (1..n) /\ 1..(k + 1) # {}
    BY <1>1, <1>4
  <2> QED
    BY <1>3, <2>1, <2>2, <2>3
<1> DEFINE T == {k \in Nat : k <= n => Right(k)}
<1>5. 0 \in T
  <2>1. g[1..0] = Put(Nothing, "default_iface", iface)
    <3>1. 1..0 = {}
      OBVIOUS
    <3> QED
      BY <1>3, <3>1
  <2>2. DOMAIN g[1..0] = {"default_iface"}
    BY <2>1 DEF Put, Nothing
  <2>3. fact # "default_iface"
    BY DEF PrimaryFact
  <2> QED
    BY <2>2, <2>3
<1>6. ASSUME NEW k \in Nat, k \in T
      PROVE  k + 1 \in T
  <2> SUFFICES ASSUME k + 1 <= n
               PROVE  Right(k + 1)
    OBVIOUS
  <2>1. Right(k)
    BY <1>1, <1>6
  <2> DEFINE f == g[1..k]
             a == addresses[k + 1]
  <2>2. g[1..(k + 1)] = AddAddress(f, a)
    BY <1>4
  <2>3. a \in Addresses
    <3>1. k + 1 \in 1..n
      BY <1>1
    <3> QED
      BY <1>1, <3>1 DEF n
  <2>4. 1..(k + 1) = (1..k) \cup {k + 1}
    OBVIOUS
  <2>5. CASE Eligible(a, v) /\ fact \notin DOMAIN f
    <3>1. fact \in DOMAIN g[1..(k + 1)] /\ g[1..(k + 1)][fact] = a
      BY <2>2, <2>3, <2>5, AddressAdded
    <3>2. \A i \in 1..k : ~Eligible(addresses[i], v)
      BY <2>1, <2>5
    <3> QED
      BY <2>4, <2>5, <3>1, <3>2
  <2>6. CASE ~Eligible(a, v) \/ fact \in DOMAIN f
    <3>1. /\ fact \in DOMAIN g[1..(k + 1)] <=> fact \in DOMAIN f
          /\ fact \in DOMAIN f => g[1..(k + 1)][fact] = f[fact]
      BY <2>2, <2>3, <2>6, AddressAdded
    <3>2. fact \in DOMAIN g[1..(k + 1)]
            <=> \E i \in 1..(k + 1) : Eligible(addresses[i], v)
      BY <2>1, <2>4, <2>6, <3>1
    <3>3. ASSUME NEW i \in 1..(k + 1), Eligible(addresses[i], v),
                 \A j \in 1..(k + 1) : Eligible(addresses[j], v) => i <= j
          PROVE  g[1..(k + 1)][fact] = addresses[i]
      <4>1. fact \in DOMAIN f
        BY <3>1, <3>2, <3>3
      <4>2. PICK j \in 1..k : Eligible(addresses[j], v)
        BY <2>1, <4>1
      <4>3. i \in 1..k
        BY <3>3, <4>2
      <4>4. f[fact] = addresses[i]
        BY <2>1, <2>4, <3>3, <4>3
      <4> QED
        BY <3>1, <4>1, <4>4
    <3> QED
      BY <3>2, <3>3
  <2> QED
    BY <2>5, <2>6
<1> HIDE DEF T
<1>7. n \in T
  BY <1>1, <1>5, <1>6, Induction
<1>8. Right(n)
  BY <1>1, <1>7 DEF T
<1> QED
  BY <1>2, <1>8 DEF n

\* However many addresses an interface has, and in whatever order: the primary
\* ones are the first of their family that are not link-local (facts_network.py,
\* the loop over if_addrs()).
THEOREM PrimaryIsFirst == Spec => []PrimaryAddresses
<1>1. PrimaryAddresses
  <2> SUFFICES ASSUME NEW addresses \in Seq(Addresses), NEW v \in {4, 6}
               PROVE  LET of == {i \in DOMAIN addresses :
                                   /\ addresses[i].family = v
                                   /\ v = 4 \/ ~addresses[i].local}
                          found == NetworkFacts(addresses)
                      IN  /\ PrimaryFact(v) \in DOMAIN found <=> of # {}
                          /\ of # {} => found[PrimaryFact(v)] = addresses[Min(of)]
    <3>1. SeqOf(Addresses, MaxItems + 1) \subseteq Seq(Addresses)
      BY CollectorAssumption, SeqDef DEF SeqOf
    <3> QED
      BY <3>1 DEF PrimaryAddresses, PrimaryFact
  <2> DEFINE of == {i \in DOMAIN addresses : Eligible(addresses[i], v)}
  <2>1. of = {i \in DOMAIN addresses :
                 /\ addresses[i].family = v
                 /\ v = 4 \/ ~addresses[i].local}
    BY DEF Eligible
  <2>2. DOMAIN addresses = 1..Len(addresses) /\ of \subseteq Nat
    OBVIOUS
  <2>3. PrimaryFact(v) \in DOMAIN NetworkFacts(addresses) <=> of # {}
    BY <2>2, FirstAddressesWin
  <2>4. ASSUME of # {}
        PROVE  NetworkFacts(addresses)[PrimaryFact(v)] = addresses[Min(of)]
    <3>1. Min(of) \in of /\ \A i \in of : Min(of) <= i
      <4> HIDE DEF of
      <4> QED
        BY <2>2, <2>4, MinIsLeast
    <3> DEFINE m == Min(of)
    <3>2. m \in 1..Len(addresses) /\ Eligible(addresses[m], v)
      BY <2>2, <3>1
    <3>3. \A j \in 1..Len(addresses) : Eligible(addresses[j], v) => m <= j
      BY <2>2, <3>1
    <3> HIDE DEF m
    <3>4. NetworkFacts(addresses)[PrimaryFact(v)] = addresses[m]
      BY <3>2, <3>3, FirstAddressesWin
    <3> QED
      BY <3>4 DEF m
  <2> QED
    BY <2>1, <2>3, <2>4
<1> QED
  BY <1>1, PTL

-----------------------------------------------------------------------------
(* The walk over the network devices.                                      *)

Reported(s) == {<<c.slot, c.serial>> : c \in Range(s)}

DistinctSlots(s) == \A i, j \in DOMAIN s : s[i].slot = s[j].slot => i = j

\* Of a device that was there all the time: it is reported, or the walk has
\* still to visit it, or is at it with the address it has had all along.
StayedInv ==
    /\ stayed \subseteq Reportable(devices)
    /\ \A r \in stayed :
         \/ r \in Reported(nics)
         \/ r[1] \in Range(walk) /\ (mac # None /\ r[1] = Head(walk) => r[2] = mac)

\* What is reported, or about to be, was seen.
SeenInv ==
    /\ Reportable(devices) \subseteq seen
    /\ Reported(nics) \subseteq seen
    /\ mac # None => <<Head(walk), mac>> \in seen

\* The walk visits each device once.
OnceInv ==
    /\ IsInjective(walk)
    /\ DistinctSlots(nics)
    /\ \A c \in Range(nics) : c.slot \notin Range(walk)

WalkInv ==
    IF walk = None THEN nics = <<>>
    ELSE Runs("nics") /\ OnceInv /\ SeenInv /\ StayedInv

\* A device on the list is not on the rest of it.
LEMMA TailOfWalk ==
    ASSUME NEW S, NEW w \in Seq(S), w # <<>>
    PROVE  /\ Range(w) = {Head(w)} \cup Range(Tail(w))
           /\ IsInjective(w) => IsInjective(Tail(w)) /\ Head(w) \notin Range(Tail(w))
<1>1. /\ Tail(w) \in Seq(S) /\ Len(Tail(w)) = Len(w) - 1 /\ Len(w) \in Nat \ {0}
      /\ Head(w) = w[1]
      /\ \A i \in 1..(Len(w) - 1) : Tail(w)[i] = w[i + 1]
  BY HeadTailProperties
<1>2. DOMAIN w = 1..Len(w) /\ DOMAIN Tail(w) = 1..(Len(w) - 1)
  BY <1>1
<1>3. \A i \in 1..Len(w) : i = 1 \/ (i - 1 \in 1..(Len(w) - 1) /\ w[i] = Tail(w)[i - 1])
  BY <1>1
<1>4. Range(w) = {Head(w)} \cup Range(Tail(w))
  <2>1. ASSUME NEW i \in DOMAIN w
        PROVE  w[i] \in {Head(w)} \cup Range(Tail(w))
    BY <1>1, <1>2, <1>3 DEF Range
  <2>2. \A x \in {Head(w)} \cup Range(Tail(w)) : x \in Range(w)
    BY <1>1, <1>2 DEF Range
  <2> QED
    BY <2>1, <2>2 DEF Range
<1>5. ASSUME IsInjective(w)
      PROVE  IsInjective(Tail(w)) /\ Head(w) \notin Range(Tail(w))
  BY <1>1, <1>2, <1>5 DEF IsInjective, Range
<1> QED
  BY <1>4, <1>5

LEMMA RangeAppended ==
    ASSUME NEW S, NEW s \in Seq(S), NEW c \in S
    PROVE  /\ Range(Append(s, c)) = Range(s) \cup {c}
           /\ Reported(Append(s, c)) = Reported(s) \cup {<<c.slot, c.serial>>}
           /\ DistinctSlots(s) /\ (\A b \in Range(s) : b.slot # c.slot)
                => DistinctSlots(Append(s, c))
<1> DEFINE t == Append(s, c)
           n == Len(s)
<1>1. /\ t \in Seq(S) /\ Len(t) = n + 1 /\ n \in Nat /\ t[n + 1] = c
      /\ \A i \in 1..n : t[i] = s[i]
      /\ DOMAIN s = 1..n
  BY AppendProperties
<1>2. DOMAIN t = 1..(n + 1)
  BY <1>1
<1> HIDE DEF t, n
<1>3. Range(t) = Range(s) \cup {c}
  BY <1>1, <1>2 DEF Range
<1>4. Reported(t) = Reported(s) \cup {<<c.slot, c.serial>>}
  BY <1>3 DEF Reported
<1>5. ASSUME DistinctSlots(s), \A b \in Range(s) : b.slot # c.slot
      PROVE  DistinctSlots(t)
  <2>1. \A i \in 1..n : s[i].slot # c.slot
    BY <1>1, <1>5 DEF Range
  <2> QED
    BY <1>1, <1>2, <1>5, <2>1 DEF DistinctSlots
<1> QED
  BY <1>3, <1>4, <1>5 DEF t

\* What reading of a device comes to, is of a device that is there.
LEMMA ReportableIs ==
    ASSUME NEW d, NEW r \in Reportable(d)
    PROVE  /\ r = <<r[1], d[r[1]].mac>>
           /\ r[1] \in DOMAIN d \ Virtual /\ d[r[1]].mac # None
  BY DEF Reportable

\* While the walk is on, only its steps change it, and only its end is a step
\* of build().
LEMMA WalkIsAlone ==
    ASSUME BuildTypes, Runs("nics"), walk # None, [Next]_vars
    PROVE  NicsStep \/ UNCHANGED <<built, scan>>
<1>1. at \in 1..Len(registry) /\ registry[at] = "nics"
  BY DEF BuildTypes, Runs
<1>2. at # 0 /\ ~(at > Len(registry))
  <2>1. Len(registry) \in Nat
    BY DEF BuildTypes
  <2> QED
    BY <1>1, <2>1
<1>3. \A c : Runs(c) => c = "nics"
  BY <1>1 DEF Runs
<1>4. ~BuildStep
  <2>1. ~Build /\ \A list \in Imports : ~Register(list)
    BY <1>2 DEF Build, Register
  <2>2. \A c \in AllCollectors \ Own : ~CollectAnything(c)
    BY <1>3 DEF Own, CollectAnything, CollectFacts, CollectComponents, CollectorRaises
  <2> QED
    BY <2>1, <2>2 DEF BuildStep
<1>5. ~ReadAddresses /\ ~CollectDisks /\ ~CollectGpus /\ ~CollectMemory
      /\ ~(\E c \in Own : ReadFails(c)) /\ ~ReadRoute /\ ~EndOfFile /\ ~CpuRaises
  BY <1>3
  DEF ReadAddresses, CollectDisks, CollectGpus, CollectMemory, ReadFails, ReadRoute,
      EndOfFile, CpuRaises, CollectFacts, CollectComponents, CollectorRaises
<1>6. ~(\E c \in HostFacts : CollectHostFacts(c))
  BY <1>3 DEF HostFacts, CollectHostFacts, CollectFacts
<1>7. CpuStep => UNCHANGED <<built, scan>>
  BY <1>5 DEF CpuStep, BlankLine, JunkLine, EntryLine, NextLine
<1> QED
  BY <1>4, <1>5, <1>6, <1>7 DEF Next, vars

LEMMA WalkUnchanged ==
    ASSUME WalkInv, UNCHANGED scan, walk # None => UNCHANGED built
    PROVE  WalkInv'
<1>1. CASE walk = None
  BY <1>1 DEF WalkInv, scan
<1>2. CASE walk # None
  BY <1>2 DEF WalkInv, scan, built, Runs, OnceInv, SeenInv, StayedInv, IsInjective,
              DistinctSlots, Reported, Range, Reportable
<1> QED
  BY <1>1, <1>2

\* The list of the devices, each once; nothing is reported yet.
LEMMA WalkBegins ==
    ASSUME CollectorTypes, WalkInv, ListDevices
    PROVE  WalkInv'
<1> USE CollectorAssumption
<1>1. /\ Runs("nics") /\ walk = None /\ nics' = nics /\ mac' = mac /\ UNCHANGED built
      /\ walk' = Sorted(DOMAIN devices')
      /\ seen' = Reportable(devices') /\ stayed' = Reportable(devices')
  BY DEF ListDevices
<1>2. nics' = <<>> /\ mac' = None
  BY <1>1 DEF WalkInv, CollectorTypes
<1>3. PICK present \in SUBSET Interfaces : devices' \in [present -> Devices]
  BY DEF ListDevices
<1> DEFINE there == DOMAIN devices'
<1>4. there \in SUBSET Nat /\ IsFiniteSet(there) /\ there \subseteq Interfaces
  BY <1>3, FS_Subset
<1> HIDE DEF there
<1>5. /\ walk' \in Seq(there)
      /\ \A i, j \in 1..Len(walk') : walk'[i] = walk'[j] => i = j
      /\ \A x \in there : \E i \in 1..Len(walk') : walk'[i] = x
  <2>1. Enumerates(walk', there)
    <3>1. Enumerates(Sorted(there), there)
      BY <1>4, SortedEnumerates
    <3> QED
      BY <1>1, <3>1 DEF there
  <2> QED
    BY <1>4, <2>1, EnumerationCovers
<1>6. DOMAIN walk' = 1..Len(walk')
  BY <1>5
<1>7. walk' # None
  <2>1. walk' \in Seq(Interfaces)
    BY <1>4, <1>5, SeqMonotonic
  <2> QED
    BY <2>1
<1>8. IsInjective(walk')
  BY <1>5, <1>6 DEF IsInjective
<1>9. Range(nics') = {} /\ Reported(nics') = {} /\ DistinctSlots(nics')
  BY <1>2 DEF Range, Reported, DistinctSlots
<1>10. \A r \in Reportable(devices') : r[1] \in Range(walk')
  <2>1. \A r \in Reportable(devices') : r[1] \in there
    BY DEF Reportable, there
  <2> QED
    BY <1>5, <1>6, <2>1 DEF Range
<1>11. OnceInv'
  BY <1>8, <1>9 DEF OnceInv
<1>12. SeenInv' /\ StayedInv'
  BY <1>1, <1>2, <1>9, <1>10 DEF SeenInv, StayedInv
<1>13. Runs("nics")'
  BY <1>1 DEF Runs, built
<1> QED
  BY <1>7, <1>11, <1>12, <1>13 DEF WalkInv

\* A device that goes, comes or changes was not there all the time.
LEMMA ReplugKeeps ==
    ASSUME CollectorTypes, WalkInv, NEW n \in Interfaces, Replug(n)
    PROVE  WalkInv'
<1>1. /\ walk # None /\ UNCHANGED <<built, walk, mac, nics>>
      /\ seen' = seen \cup Reportable(devices')
      /\ stayed' = stayed \cap Reportable(devices')
  BY DEF Replug
<1>2. Runs("nics") /\ OnceInv /\ SeenInv /\ StayedInv
  BY <1>1 DEF WalkInv
<1>3. Runs("nics")' /\ OnceInv'
  BY <1>1, <1>2 DEF Runs, built, OnceInv, IsInjective, DistinctSlots, Range
<1>4. Reported(nics)' = Reported(nics) /\ Range(walk)' = Range(walk)
  BY <1>1 DEF Reported, Range
<1>5. SeenInv'
  BY <1>1, <1>2, <1>4 DEF SeenInv
<1>6. StayedInv'
  BY <1>1, <1>2, <1>4 DEF StayedInv
<1> QED
  BY <1>1, <1>3, <1>5, <1>6 DEF WalkInv

\* What is skipped is not reportable now, and so was not all the time.
LEMMA SkipKeeps ==
    ASSUME CollectorTypes, WalkInv, SkipDevice
    PROVE  WalkInv'
<1>1. /\ walk \notin {None, <<>>} /\ mac = None
      /\ walk' = Tail(walk)
      /\ Head(walk) \notin {r[1] : r \in Reportable(devices)}
      /\ UNCHANGED <<built, devices, mac, nics, seen, stayed>>
  BY DEF SkipDevice
<1>2. /\ walk \in Seq(Interfaces)
      /\ Runs("nics") /\ OnceInv /\ SeenInv /\ StayedInv
  BY <1>1 DEF WalkInv, CollectorTypes
<1>3. /\ Range(walk) = {Head(walk)} \cup Range(walk')
      /\ IsInjective(walk')
      /\ walk' \in Seq(Interfaces) /\ walk' # None
  BY <1>1, <1>2, TailOfWalk, CollectorAssumption DEF OnceInv
<1>4. Reported(nics)' = Reported(nics) /\ Range(nics)' = Range(nics)
  BY <1>1 DEF Reported, Range
<1>5. OnceInv'
  <2>1. DistinctSlots(nics)'
    BY <1>1, <1>2 DEF OnceInv, DistinctSlots
  <2>2. \A c \in Range(nics) : c.slot \notin Range(walk')
    BY <1>2, <1>3 DEF OnceInv
  <2> QED
    BY <1>3, <1>4, <2>1, <2>2 DEF OnceInv
<1>6. SeenInv'
  BY <1>1, <1>2, <1>4 DEF SeenInv
<1>7. StayedInv'
  <2>1. \A r \in stayed : r[1] # Head(walk)
    BY <1>1, <1>2 DEF StayedInv
  <2>2. \A r \in stayed : r \in Reported(nics) \/ r[1] \in Range(walk')
    BY <1>2, <1>3, <2>1 DEF StayedInv
  <2> QED
    BY <1>1, <1>2, <1>4, <2>2 DEF StayedInv
<1>8. Runs("nics")'
  BY <1>1, <1>2 DEF Runs, built
<1> QED
  BY <1>3, <1>5, <1>6, <1>7, <1>8 DEF WalkInv

\* The address that is read is the one the device has had, if it stayed.
LEMMA AddressKeeps ==
    ASSUME CollectorTypes, WalkInv, ReadAddress
    PROVE  WalkInv'
<1>1. /\ walk \notin {None, <<>>}
      /\ UNCHANGED <<built, walk, devices, nics, seen, stayed>>
  BY DEF ReadAddress
<1>2. PICK r \in Reportable(devices) : r[1] = Head(walk) /\ mac' = r[2]
  BY DEF ReadAddress
<1>3. Runs("nics") /\ OnceInv /\ SeenInv /\ StayedInv
  BY <1>1 DEF WalkInv
<1>4. Runs("nics")' /\ OnceInv'
  BY <1>1, <1>3 DEF Runs, built, OnceInv, IsInjective, DistinctSlots, Range
<1>5. Reported(nics)' = Reported(nics) /\ Range(walk)' = Range(walk)
  BY <1>1 DEF Reported, Range
<1>6. r = <<Head(walk), mac'>> /\ mac' = devices[Head(walk)].mac
  BY <1>2, ReportableIs
<1>7. <<Head(walk), mac'>> \in seen
  BY <1>2, <1>3, <1>6 DEF SeenInv
<1>8. SeenInv'
  BY <1>1, <1>3, <1>5, <1>7 DEF SeenInv
<1>9. \A q \in stayed : q[1] = Head(walk) => q[2] = mac'
  <2> SUFFICES ASSUME NEW q \in stayed, q[1] = Head(walk)
               PROVE  q[2] = mac'
    OBVIOUS
  <2>1. q \in Reportable(devices)
    BY <1>3 DEF StayedInv
  <2>2. q = <<q[1], devices[q[1]].mac>>
    BY <2>1, ReportableIs
  <2> QED
    BY <1>6, <2>2
<1>10. StayedInv'
  BY <1>1, <1>3, <1>5, <1>9 DEF StayedInv
<1> QED
  BY <1>1, <1>4, <1>8, <1>10 DEF WalkInv

\* The component is of the address that was read, however the device has
\* changed since.
LEMMA SpeedKeeps ==
    ASSUME CollectorTypes, CollectorTypes', WalkInv, ReadSpeed
    PROVE  WalkInv'
<1> DEFINE c == [slot |-> Head(walk), serial |-> mac,
                 speed |-> IF Head(walk) \in DOMAIN devices
                           THEN NumberOr0(devices[Head(walk)].speed) ELSE 0]
<1>1. /\ mac # None /\ walk' = Tail(walk) /\ mac' = None
      /\ nics' = Append(nics, c)
      /\ UNCHANGED <<built, devices, seen, stayed>>
  BY DEF ReadSpeed
<1>2. /\ walk \in Seq(Interfaces) /\ walk \notin {None, <<>>}
      /\ Runs("nics") /\ OnceInv /\ SeenInv /\ StayedInv
  BY <1>1 DEF WalkInv, CollectorTypes
<1>3. c.slot = Head(walk) /\ c.serial = mac
  OBVIOUS
<1>4. nics \in Seq(Nic \cup {c}) /\ c \in Nic \cup {c}
  <2>1. nics \in Seq(Nic)
    BY DEF CollectorTypes
  <2> QED
    BY <2>1, SeqMonotonic
<1> HIDE DEF c
<1>5. /\ Range(walk) = {Head(walk)} \cup Range(walk')
      /\ IsInjective(walk') /\ Head(walk) \notin Range(walk')
      /\ walk' \in Seq(Interfaces) /\ walk' # None
  <2>1. IsInjective(walk)
    BY <1>2 DEF OnceInv
  <2>2. /\ Range(walk) = {Head(walk)} \cup Range(Tail(walk))
        /\ IsInjective(Tail(walk)) /\ Head(walk) \notin Range(Tail(walk))
    BY <1>2, <2>1, TailOfWalk
  <2>3. Tail(walk) \in Seq(Interfaces)
    BY <1>2
  <2> QED
    BY <1>1, <2>2, <2>3, CollectorAssumption
<1>6. \A b \in Range(nics) : b.slot \notin Range(walk) /\ b.slot # c.slot
  BY <1>2, <1>3, <1>5 DEF OnceInv
<1>7. /\ Range(nics') = Range(nics) \cup {c}
      /\ Reported(nics') = Reported(nics) \cup {<<Head(walk), mac>>}
      /\ DistinctSlots(nics')
  <2>1. DistinctSlots(nics)
    BY <1>2 DEF OnceInv
  <2> QED
    BY <1>1, <1>3, <1>4, <1>6, <2>1, RangeAppended
<1>8. OnceInv'
  BY <1>3, <1>5, <1>6, <1>7 DEF OnceInv
<1>9. SeenInv'
  BY <1>1, <1>2, <1>7 DEF SeenInv
<1>10. StayedInv'
  <2> SUFFICES ASSUME NEW r \in stayed
               PROVE  r \in Reported(nics') \/ r[1] \in Range(walk')
    BY <1>1, <1>2 DEF StayedInv
  <2>1. CASE r \in Reported(nics)
    BY <1>7, <2>1
  <2>2. CASE r[1] = Head(walk) /\ r[2] = mac
    <3>1. r \in Reportable(devices)
      BY <1>2 DEF StayedInv
    <3>2. r = <<Head(walk), mac>>
      BY <2>2, <3>1, ReportableIs
    <3> QED
      BY <1>7, <3>2
  <2>3. CASE r[1] \in Range(walk')
    BY <2>3
  <2> QED
    BY <1>1, <1>2, <1>5, <2>1, <2>2, <2>3 DEF StayedInv
<1>11. Runs("nics")'
  BY <1>1, <1>2 DEF Runs, built
<1> QED
  BY <1>5, <1>8, <1>9, <1>10, <1>11 DEF WalkInv

LEMMA WalkStep ==
    ASSUME BuildTypes, CollectorTypes, CollectorTypes', WalkInv, [Next]_vars
    PROVE  WalkInv'
<1>1. CASE NicsStep
  <2>1. CASE EndWalk
    BY <2>1 DEF EndWalk, WalkInv
  <2> QED
    BY <1>1, <2>1, WalkBegins, ReplugKeeps, SkipKeeps, AddressKeeps, SpeedKeeps
    DEF NicsStep
<1>2. CASE ~NicsStep
  <2>1. CASE walk # None
    <3>1. UNCHANGED <<built, scan>>
      BY <1>2, <2>1, WalkIsAlone DEF WalkInv
    <3> QED
      BY <2>1, <3>1, WalkUnchanged
  <2>2. CASE walk = None
    <3>1. UNCHANGED scan
      BY <1>2
      DEF Next, vars, BuildStep, CpuStep, BlankLine, JunkLine, EntryLine, NextLine,
          EndOfFile, CpuRaises, ForgetText, ReadRoute, ReadAddresses, CollectHostFacts,
          CollectDisks, CollectGpus, CollectMemory, ReadFails
    <3> QED
      BY <2>2, <3>1, WalkUnchanged
  <2> QED
    BY <2>1, <2>2
<1> QED
  BY <1>1, <1>2

LEMMA DistinctSlotsCount ==
    ASSUME NEW S, NEW s \in Seq(S), DistinctSlots(s)
    PROVE  Cardinality({r[1] : r \in Reported(s)}) = Len(s)
<1> DEFINE n == Len(s)
           slots == {r[1] : r \in Reported(s)}
           f == [i \in 1..n |-> s[i].slot]
<1>1. n \in Nat /\ DOMAIN s = 1..n
  OBVIOUS
<1>2. slots = {s[i].slot : i \in 1..n}
  <2>1. \A i \in 1..n : s[i].slot = <<s[i].slot, s[i].serial>>[1]
    OBVIOUS
  <2>2. \A i \in 1..n : <<s[i].slot, s[i].serial>> \in Reported(s)
    BY <1>1 DEF Reported, Range
  <2>3. \A r \in Reported(s) : \E i \in 1..n : r = <<s[i].slot, s[i].serial>>
    BY <1>1 DEF Reported, Range
  <2> HIDE DEF n
  <2>4. ASSUME NEW r \in Reported(s)
        PROVE  r[1] \in {s[i].slot : i \in 1..n}
    <3>1. PICK i \in 1..n : r = <<s[i].slot, s[i].serial>>
      BY <2>3
    <3> QED
      BY <3>1
  <2>5. ASSUME NEW i \in 1..n
        PROVE  s[i].slot \in slots
    BY <2>1, <2>2
  <2> QED
    BY <2>4, <2>5
<1> HIDE DEF n, slots
<1>3. IsFiniteSet(1..n) /\ Cardinality(1..n) = n
  BY <1>1, FS_Interval
<1>4. f \in Surjection(1..n, slots)
  BY <1>2 DEF Surjection
<1>5. f \in Injection(1..n, slots)
  BY <1>1, <1>2 DEF DistinctSlots, Injection, IsInjective
<1>6. Cardinality(slots) = Cardinality(1..n)
  BY <1>3, <1>4, <1>5, FS_Surjection
<1> QED
  BY <1>3, <1>6 DEF n, slots

\* Whatever devices come, go or change while the collector walks the list it
\* has, and however many: it reports only what was there, each device once, and
\* every device that was there all the time (nics.py, the loop over the sorted
\* directory).
THEOREM WalkReports == Spec => NicsReported
<1>1. CollectorsInit => WalkInv
  BY DEF CollectorsInit, WalkInv
<1>2. ASSUME BuildTypes, CollectorTypes, WalkInv, [Next]_vars, walk = <<>>, at' # at
      PROVE  LET reported == {<<c.slot, c.serial>> : c \in Range(results'[at])}
             IN  /\ stayed \subseteq reported
                 /\ reported \subseteq seen
                 /\ Len(results'[at]) = Cardinality({r[1] : r \in reported})
  <2>1. walk # None
    <3>1. <<>> \in Seq(Interfaces)
      OBVIOUS
    <3> QED
      BY <1>2, <3>1, CollectorAssumption
  <2>2. Runs("nics") /\ OnceInv /\ SeenInv /\ StayedInv
    BY <1>2, <2>1 DEF WalkInv
  <2>3. NicsStep
    BY <1>2, <2>1, <2>2, WalkIsAlone DEF built
  <2>4. EndWalk
    BY <1>2, <2>3
    DEF NicsStep, ListDevices, Replug, SkipDevice, ReadAddress, ReadSpeed, built
  <2>5. /\ at' = at + 1 /\ results' = Append(results, nics)
        /\ registry' = registry /\ failed' = failed
    BY <2>4 DEF EndWalk, CollectComponents, Finish
  <2>6. results'[at] = nics
    BY <1>2, <2>2, <2>5, TypesRun
  <2>7. {<<c.slot, c.serial>> : c \in Range(results'[at])} = Reported(nics)
    BY <2>6 DEF Reported
  <2>8. stayed \subseteq Reported(nics)
    <3>1. Range(walk) = {}
      BY <1>2 DEF Range
    <3> QED
      BY <2>2, <3>1 DEF StayedInv
  <2>9. Reported(nics) \subseteq seen
    BY <2>2 DEF SeenInv
  <2>10. nics \in Seq(Nic)
    BY <1>2 DEF CollectorTypes
  <2>11. Len(nics) = Cardinality({r[1] : r \in Reported(nics)})
    BY <2>2, <2>10, DistinctSlotsCount DEF OnceInv
  <2> QED
    BY <2>6, <2>7, <2>8, <2>9, <2>11
<1>3. SnapshotInv /\ CollectorTypes /\ CollectorTypes' /\ WalkInv /\ [Next]_vars
        => WalkInv'
  BY WalkStep DEF SnapshotInv
<1> QED
  BY <1>1, <1>2, <1>3, SnapshotInvariant, CollectorTypesHold, PTL
  DEF Spec, NicsReported, SnapshotInv

-----------------------------------------------------------------------------
(* The blocks of /proc/cpuinfo.                                            *)

\* The positions of the entries from o on.
EntriesFrom(o) == {i \in o..Len(text) : text[i] # Junk}

\* The block being read begins at o: current has what its lines say, the last
\* one of each key.
OpenAt(o) ==
    /\ o = 1 \/ text[o - 1] = Blank
    /\ \A i \in o..Len(text) : text[i] # Blank
    /\ DOMAIN current = {text[i].key : i \in EntriesFrom(o)}
    /\ current = [k \in DOMAIN current |-> current[k]]
    /\ \A i \in EntriesFrom(o) :
         (\A j \in EntriesFrom(o) : text[j].key = text[i].key => j <= i)
           => current[text[i].key] = text[i].value

\* The blocks a blank line has ended.
Closed == {b \in Blocks : b[2] # Len(text)}

IdOf(b) == InBlock(b, "physical_id", 0)

OfId(B, id) == {b \in B : IdOf(b) = id}

\* The socket is what the blocks of B say.
Describes(socket, B) ==
    /\ \E b \in B : /\ \A c \in B : b[1] <= c[1]
                    /\ socket.model = InBlock(b, "model_name", None)
    /\ socket.threads = Cardinality(B)
    /\ Greatest(socket.cores, {InBlock(b, "cpu_cores", 0) : b \in B})
    /\ Greatest(socket.mhz, ({InBlock(b, "cpu_MHz", 0) : b \in B} \ {Bad}) \cup {0})

\* A socket for each id of the blocks of B, and no cores that are no number.
SocketsAre(s, B) ==
    /\ IsFiniteSet(B)
    /\ \A b \in B : InBlock(b, "cpu_cores", 0) # Bad
    /\ DOMAIN s = {IdOf(b) : b \in B}
    /\ s = [id \in DOMAIN s |-> s[id]]
    /\ \A id \in DOMAIN s : Describes(s[id], OfId(B, id))

CpuInv ==
    /\ \E o \in 1..(Len(text) + 1) : OpenAt(o)
    /\ SocketsAre(sockets, Closed)

LEMMA BlockIs ==
    ASSUME text \in Seq(Lines), NEW b \in Blocks
    PROVE  /\ Len(text) \in Nat /\ DOMAIN text = 1..Len(text)
           /\ b = <<b[1], b[2]>>
           /\ b[1] \in 1..Len(text) /\ b[2] \in 1..Len(text) /\ b[1] <= b[2]
           /\ \A i \in b[1]..b[2] : text[i] # Blank
           /\ \E i \in b[1]..b[2] : text[i] # Junk
           /\ b[1] = 1 \/ text[b[1] - 1] = Blank
           /\ b[2] = Len(text) \/ text[b[2] + 1] = Blank
  BY DEF Blocks

LEMMA BlockAt ==
    ASSUME text \in Seq(Lines), NEW f \in 1..Len(text), NEW l \in 1..Len(text), f <= l,
           \A i \in f..l : text[i] # Blank,
           \E i \in f..l : text[i] # Junk,
           f = 1 \/ text[f - 1] = Blank,
           l = Len(text) \/ text[l + 1] = Blank
    PROVE  <<f, l>> \in Blocks
<1>1. DOMAIN text = 1..Len(text)
  OBVIOUS
<1>2. <<f, l>> \in (DOMAIN text) \X (DOMAIN text)
  BY <1>1
<1> QED
  BY <1>2 DEF Blocks

\* Two blocks do not begin at one line.
LEMMA BlocksBegin ==
    ASSUME text \in Seq(Lines), NEW b \in Blocks, NEW c \in Blocks, b[1] = c[1]
    PROVE  b = c
<1>1. ASSUME NEW d \in Blocks, NEW e \in Blocks, d[1] = e[1], d[2] < e[2]
      PROVE  FALSE
  <2>1. d[2] + 1 \in e[1]..e[2] /\ d[2] # Len(text)
    BY <1>1, BlockIs
  <2> QED
    BY <1>1, <2>1, BlockIs
<1>2. ~(b[2] < c[2]) /\ ~(c[2] < b[2])
  BY <1>1
<1> QED
  BY <1>2, BlockIs

\* The blocks are the ones a blank line has ended, and the one being read if it
\* has an entry.
LEMMA OpenBlock ==
    ASSUME text \in Seq(Lines), NEW o \in 1..(Len(text) + 1), OpenAt(o)
    PROVE  /\ \A b \in Closed : b \in Blocks /\ b[1] < o /\ b[2] < o
           /\ current = Nothing => Blocks = Closed
           /\ current # Nothing =>
                /\ Blocks = Closed \cup {<<o, Len(text)>>}
                /\ <<o, Len(text)>> \notin Closed
                /\ o <= Len(text)
<1> DEFINE n == Len(text)
<1>1. n \in Nat /\ DOMAIN text = 1..n
  OBVIOUS
<1> HIDE DEF n
<1>2. ASSUME NEW b \in Closed
      PROVE  b \in Blocks /\ b[1] < o /\ b[2] < o
  <2>1. b \in Blocks /\ b[2] # n
    BY DEF Closed, n
  <2>2. b[2] \in 1..n /\ b[1] \in 1..n /\ b[1] <= b[2] /\ text[b[2] + 1] = Blank
    BY <2>1, BlockIs DEF n
  <2>3. b[2] + 1 \notin o..n
    BY <2>2 DEF OpenAt, n
  <2> QED
    BY <1>1, <2>1, <2>2, <2>3 DEF n
<1>3. ASSUME NEW b \in Blocks, b \notin Closed
      PROVE  b = <<o, n>> /\ current # Nothing
  <2>1. b[2] = n
    BY <1>3 DEF Closed, n
  <2>2. /\ b = <<b[1], n>> /\ b[1] \in 1..n
        /\ \A i \in b[1]..n : text[i] # Blank
        /\ \E i \in b[1]..n : text[i] # Junk
        /\ b[1] = 1 \/ text[b[1] - 1] = Blank
    BY <2>1, BlockIs DEF n
  <2>3. ~(b[1] < o)
    <3>1. b[1] < o => o - 1 \in b[1]..n /\ o # 1
      BY <1>1, <2>2 DEF n
    <3> QED
      BY <2>2, <3>1 DEF OpenAt
  <2>4. ~(o < b[1])
    <3>1. o < b[1] => b[1] - 1 \in o..n /\ b[1] # 1
      BY <1>1, <2>2
    <3> QED
      BY <2>2, <3>1 DEF OpenAt, n
  <2>5. b[1] = o
    BY <2>2, <2>3, <2>4
  <2>6. PICK i \in o..n : text[i] # Junk
    BY <2>2, <2>5
  <2>7. text[i].key \in DOMAIN current
    BY <2>6 DEF OpenAt, EntriesFrom, n
  <2>8. DOMAIN Nothing = {}
    BY DEF Nothing
  <2> QED
    BY <2>2, <2>5, <2>7, <2>8
<1>4. ASSUME current # Nothing
      PROVE  <<o, n>> \in Blocks /\ <<o, n>> \notin Closed /\ o <= n
  <2>1. DOMAIN current # {}
    <3> SUFFICES ASSUME DOMAIN current = {}
                 PROVE  FALSE
      OBVIOUS
    <3>1. current = [k \in {} |-> current[k]]
      BY DEF OpenAt
    <3>2. current = <<>>
      BY <3>1
    <3> QED
      BY <1>4, <3>2 DEF Nothing
  <2>2. PICK i \in o..n : text[i] # Junk
    BY <2>1 DEF OpenAt, EntriesFrom, n
  <2>3. o \in 1..n /\ n \in 1..n /\ o <= n
    BY <1>1, <2>2
  <2>4. <<o, n>> \in Blocks
    BY <2>2, <2>3, BlockAt DEF OpenAt, n
  <2>5. <<o, n>> \notin Closed
    BY DEF Closed, n
  <2> QED
    BY <2>3, <2>4, <2>5
<1>5. Closed \subseteq Blocks
  BY DEF Closed
<1> QED
  BY <1>2, <1>3, <1>4, <1>5 DEF n

\* What is known of the block being read is what its lines say, the last one
\* of each key.
LEMMA OpenEntries ==
    ASSUME text \in Seq(Lines), NEW o \in 1..(Len(text) + 1), OpenAt(o),
           NEW key, NEW default
    PROVE  Get(current, key, default) = InBlock(<<o, Len(text)>>, key, default)
<1> DEFINE n == Len(text)
           giving == {i \in o..n : text[i] # Junk /\ text[i].key = key}
           last == Max(giving)
<1>1. n \in Nat
  OBVIOUS
<1>2. InBlock(<<o, n>>, key, default)
        = IF giving = {} THEN default ELSE text[last].value
  BY DEF InBlock
<1>3. CASE giving = {}
  <2>1. key \notin DOMAIN current
    BY <1>3 DEF OpenAt, EntriesFrom
  <2> QED
    BY <1>2, <1>3, <2>1 DEF Get
<1>4. CASE giving # {}
  <2>1. giving \subseteq 0..n
    BY <1>1
  <2>2. last \in giving /\ \A j \in giving : j <= last
    <3> HIDE DEF giving
    <3> QED
      BY <1>1, <1>4, <2>1, MaxIsGreatest
  <2> HIDE DEF last
  <2>3. last \in EntriesFrom(o) /\ text[last].key = key
    BY <2>2 DEF EntriesFrom
  <2>4. key \in DOMAIN current
    BY <2>3 DEF OpenAt
  <2>5. current[key] = text[last].value
    <3>1. \A j \in EntriesFrom(o) : text[j].key = text[last].key => j <= last
      BY <2>2, <2>3 DEF EntriesFrom
    <3> QED
      BY <2>3, <3>1 DEF OpenAt
  <2> QED
    BY <1>2, <1>4, <2>4, <2>5 DEF Get
<1> QED
  BY <1>3, <1>4

\* A socket of one block more.
LEMMA DescribesMore ==
    ASSUME NEW B, IsFiniteSet(B), NEW o, o \notin B, \A b \in B : b[1] < o[1],
           \A b \in B \cup {o} : b[1] \in Nat,
           \A b \in B \cup {o} : /\ InBlock(b, "cpu_cores", 0) \in Nat
                                 /\ InBlock(b, "cpu_MHz", 0) \in Nat \cup {Bad},
           NEW e \in Socket, NEW new,
           B = {} => e = [model |-> InBlock(o, "model_name", None),
                          threads |-> 0, cores |-> 0, mhz |-> 0],
           B # {} => Describes(e, B),
           new.model = e.model,
           new.threads = e.threads + 1,
           new.cores = Max({e.cores, InBlock(o, "cpu_cores", 0)}),
           new.mhz = Max({e.mhz, NumberOr0(InBlock(o, "cpu_MHz", 0))})
    PROVE  Describes(new, B \cup {o})
<1> DEFINE C == B \cup {o}
           cores(X) == {InBlock(b, "cpu_cores", 0) : b \in X}
           mhzs(X) == ({InBlock(b, "cpu_MHz", 0) : b \in X} \ {Bad}) \cup {0}
           c == InBlock(o, "cpu_cores", 0)
           m == InBlock(o, "cpu_MHz", 0)
<1>1. /\ c \in Nat /\ m \in Nat \cup {Bad} /\ NumberOr0(m) \in Nat
      /\ e.threads \in Nat /\ e.cores \in Nat /\ e.mhz \in Nat
  BY CollectorAssumption DEF NumberOr0, Socket
<1>2. \E b \in C : /\ \A d \in C : b[1] <= d[1]
                   /\ new.model = InBlock(b, "model_name", None)
  <2>1. CASE B = {}
    <3>1. C = {o}
      BY <2>1
    <3>2. e.model = InBlock(o, "model_name", None)
      BY <2>1
    <3> QED
      BY <3>1, <3>2
  <2>2. CASE B # {}
    <3>1. PICK b \in B : /\ \A d \in B : b[1] <= d[1]
                         /\ e.model = InBlock(b, "model_name", None)
      BY <2>2 DEF Describes
    <3>2. b[1] <= o[1]
      BY <3>1
    <3> QED
      BY <3>1, <3>2
  <2> QED
    BY <2>1, <2>2
<1>3. new.threads = Cardinality(C)
  <2>1. Cardinality(C) = Cardinality(B) + 1
    BY FS_AddElement
  <2>2. e.threads = Cardinality(B)
    <3>1. CASE B = {}
      BY <3>1, FS_EmptySet
    <3>2. CASE B # {}
      BY <3>2 DEF Describes
    <3> QED
      BY <3>1, <3>2
  <2> QED
    BY <2>1, <2>2
<1>4. Greatest(new.cores, cores(C))
  <2>1. cores(C) = cores(B) \cup {c} /\ cores(B) \subseteq Nat
    OBVIOUS
  <2>2. CASE B = {}
    <3>1. cores(C) = {c} /\ e.cores = 0
      BY <2>2
    <3>2. new.cores = c
      BY <1>1, <3>1, MaxOfTwo
    <3> HIDE DEF c, cores
    <3>3. Greatest(c, {c})
      BY <1>1 DEF Greatest
    <3> QED
      BY <3>1, <3>2, <3>3
  <2>3. CASE B # {}
    <3>1. Greatest(e.cores, cores(B))
      BY <2>3 DEF Describes
    <3> HIDE DEF cores, c
    <3>2. Greatest(Max({e.cores, c}), cores(B) \cup {c})
      BY <1>1, <2>1, <3>1, GreatestOfMore
    <3> QED
      BY <2>1, <3>2 DEF c
  <2> QED
    BY <2>2, <2>3
<1>5. Greatest(new.mhz, mhzs(C))
  <2>1. mhzs(C) = mhzs(B) \cup {NumberOr0(m)} /\ mhzs(B) \subseteq Nat
    BY CollectorAssumption DEF NumberOr0
  <2>2. Greatest(e.mhz, mhzs(B))
    <3>1. CASE B = {}
      BY <3>1 DEF Greatest
    <3>2. CASE B # {}
      BY <3>2 DEF Describes
    <3> QED
      BY <3>1, <3>2
  <2> HIDE DEF mhzs, m
  <2>3. Greatest(Max({e.mhz, NumberOr0(m)}), mhzs(B) \cup {NumberOr0(m)})
    BY <1>1, <2>1, <2>2, GreatestOfMore
  <2> QED
    BY <2>1, <2>3 DEF m
<1> QED
  BY <1>2, <1>3, <1>4, <1>5 DEF Describes

LEMMA InBlockTypes ==
    ASSUME text \in Seq(Lines), NEW b \in Blocks
    PROVE  /\ InBlock(b, "cpu_cores", 0) \in Nat \cup {Bad}
           /\ InBlock(b, "cpu_MHz", 0) \in Nat \cup {Bad}
<1> SUFFICES ASSUME NEW key \in {"cpu_cores", "cpu_MHz"}
             PROVE  InBlock(b, key, 0) \in Nat \cup {Bad}
  OBVIOUS
<1> DEFINE giving == {i \in b[1]..b[2] : text[i] # Junk /\ text[i].key = key}
           last == Max(giving)
<1>1. /\ Len(text) \in Nat /\ b[1] \in 1..Len(text) /\ b[2] \in 1..Len(text)
      /\ \A i \in b[1]..b[2] : text[i] # Blank
  BY BlockIs
<1>2. CASE giving = {}
  BY <1>2 DEF InBlock
<1>3. CASE giving # {}
  <2>1. giving \subseteq 0..Len(text) /\ giving \subseteq 1..Len(text)
    BY <1>1
  <2>2. last \in giving
    <3> HIDE DEF giving
    <3> QED
      BY <1>1, <1>3, <2>1, MaxIsGreatest
  <2>3. InBlock(b, key, 0) = text[last].value
    BY <1>3 DEF InBlock
  <2> HIDE DEF last
  <2>4. last \in 1..Len(text) /\ text[last] \notin {Blank, Junk} /\ text[last].key = key
    BY <1>1, <2>1, <2>2
  <2>5. text[last] \in Lines
    BY <2>4
  <2>6. text[last].value \in Numbers
    BY <2>4, <2>5 DEF Lines
  <2> QED
    BY <2>3, <2>6, CollectorAssumption
<1> QED
  BY <1>2, <1>3

\* A flush makes of the sockets of the blocks before those of all.
LEMMA FlushDescribes ==
    ASSUME CollectorTypes, CpuInv, ~FlushRaises
    PROVE  SocketsAre(Flushed, Blocks)
<1>1. text \in Seq(Lines) /\ Len(text) \in Nat /\ CurrentTypes /\ SocketTypes(sockets)
  BY DEF CollectorTypes
<1>2. PICK o \in 1..(Len(text) + 1) : OpenAt(o)
  BY DEF CpuInv
<1>3. SocketsAre(sockets, Closed)
  BY DEF CpuInv
<1>4. CASE current = Nothing
  <2>1. Flushed = sockets
    BY <1>4 DEF Flushed
  <2>2. Blocks = Closed
    BY <1>1, <1>2, <1>4, OpenBlock
  <2> QED
    BY <1>3, <2>1, <2>2
<1>5. CASE current # Nothing
  <2> DEFINE ob == <<o, Len(text)>>
             id == IdOf(ob)
             cores == InBlock(ob, "cpu_cores", 0)
             mhz == InBlock(ob, "cpu_MHz", 0)
             entry == IF id \in DOMAIN sockets THEN sockets[id]
                      ELSE [model |-> InBlock(ob, "model_name", None),
                            threads |-> 0, cores |-> 0, mhz |-> 0]
             new == [entry EXCEPT !.threads = @ + 1,
                                  !.cores = Max({@, cores}),
                                  !.mhz = Max({@, NumberOr0(mhz)})]
             B == OfId(Closed, id)
  <2>1. /\ Blocks = Closed \cup {ob} /\ ob \notin Closed /\ ob \in Blocks
        /\ \A b \in Closed : b[1] < o
    BY <1>1, <1>2, <1>5, OpenBlock
  <2>2. /\ Get(current, "physical_id", 0) = id
        /\ Get(current, "cpu_cores", 0) = cores
        /\ Get(current, "cpu_MHz", 0) = mhz
        /\ Get(current, "model_name", None) = InBlock(ob, "model_name", None)
    BY <1>1, <1>2, OpenEntries DEF IdOf
  <2>3. Flushed = Put(sockets, id, new)
    BY <1>5, <2>2 DEF Flushed
  <2>4. cores # Bad
    BY <2>2 DEF FlushRaises
  <2>5. entry \in Socket
    <3>1. InBlock(ob, "model_name", None) \in Models \cup {None}
      BY <1>1, <2>2, EntryTypes
    <3> QED
      BY <1>1, <3>1 DEF SocketTypes, Socket
  <2> HIDE DEF ob
  <2>6. ob[1] = o
    BY DEF ob
  <2>7. /\ new.model = entry.model /\ new.threads = entry.threads + 1
        /\ new.cores = Max({entry.cores, cores})
        /\ new.mhz = Max({entry.mhz, NumberOr0(mhz)})
    <3> HIDE DEF id, cores, mhz, entry
    <3> DEFINE a == Max({entry.cores, cores})
               z == Max({entry.mhz, NumberOr0(mhz)})
    <3>1. new = [entry EXCEPT !.threads = entry.threads + 1, !.cores = a, !.mhz = z]
      OBVIOUS
    <3>2. PICK mm, t, cc, zz :
                 entry = [model |-> mm, threads |-> t, cores |-> cc, mhz |-> zz]
      BY <2>5 DEF Socket
    <3> HIDE DEF a, z, new
    <3>3. new = [model |-> mm, threads |-> t + 1, cores |-> a, mhz |-> z]
      BY <3>1, <3>2
    <3> QED
      BY <3>2, <3>3 DEF a, z
  <2>8. B \subseteq Closed /\ IsFiniteSet(B)
    <3>1. B \subseteq Closed
      BY DEF OfId
    <3> QED
      BY <1>3, <3>1, FS_Subset DEF SocketsAre
  <2>9. B = {} <=> id \notin DOMAIN sockets
    BY <1>3 DEF OfId, SocketsAre
  <2>10. Describes(new, B \cup {ob})
    <3>1. ob \notin B /\ \A b \in B : b[1] < ob[1]
      BY <2>1, <2>6, <2>8
    <3>2. \A b \in B \cup {ob} :
            /\ b[1] \in Nat
            /\ InBlock(b, "cpu_cores", 0) \in Nat
            /\ InBlock(b, "cpu_MHz", 0) \in Nat \cup {Bad}
      <4> SUFFICES ASSUME NEW b \in B \cup {ob}
                   PROVE  /\ b[1] \in Nat
                          /\ InBlock(b, "cpu_cores", 0) \in Nat
                          /\ InBlock(b, "cpu_MHz", 0) \in Nat \cup {Bad}
        OBVIOUS
      <4>1. b \in Blocks
        BY <2>1, <2>8
      <4>2. InBlock(b, "cpu_cores", 0) # Bad
        BY <1>3, <2>4, <2>8 DEF SocketsAre
      <4>3. b[1] \in 1..Len(text)
        BY <1>1, <4>1, BlockIs
      <4>4. /\ InBlock(b, "cpu_cores", 0) \in Nat \cup {Bad}
            /\ InBlock(b, "cpu_MHz", 0) \in Nat \cup {Bad}
        BY <1>1, <4>1, InBlockTypes
      <4> QED
        BY <4>2, <4>3, <4>4
    <3>3. B = {} => entry = [model |-> InBlock(ob, "model_name", None),
                             threads |-> 0, cores |-> 0, mhz |-> 0]
      BY <2>9
    <3>4. B # {} => Describes(entry, B)
      <4>1. B # {} => entry = sockets[id] /\ id \in DOMAIN sockets
        BY <2>9
      <4> HIDE DEF entry
      <4> QED
        BY <1>3, <4>1 DEF SocketsAre
    <3> HIDE DEF B, entry, new, cores, mhz
    <3> QED
      BY <2>5, <2>7, <2>8, <3>1, <3>2, <3>3, <3>4, DescribesMore DEF cores, mhz
  <2> HIDE DEF new
  <2>11. /\ DOMAIN Flushed = DOMAIN sockets \cup {id}
         /\ Flushed[id] = new
         /\ \A x \in DOMAIN sockets : x # id => Flushed[x] = sockets[x]
         /\ Flushed = [x \in DOMAIN Flushed |-> Flushed[x]]
    <3> HIDE DEF id
    <3> QED
      BY <2>3 DEF Put
  <2>12. DOMAIN Flushed = {IdOf(b) : b \in Blocks}
    BY <1>3, <2>1, <2>11 DEF SocketsAre
  <2>13. \A x : OfId(Blocks, x) = IF x = id THEN B \cup {ob} ELSE OfId(Closed, x)
    BY <2>1 DEF OfId
  <2>14. \A x \in DOMAIN Flushed : Describes(Flushed[x], OfId(Blocks, x))
    <3> SUFFICES ASSUME NEW x \in DOMAIN Flushed
                 PROVE  Describes(Flushed[x], OfId(Blocks, x))
      OBVIOUS
    <3>1. CASE x = id
      <4>1. OfId(Blocks, x) = B \cup {ob} /\ Flushed[x] = new
        BY <2>11, <2>13, <3>1
      <4> HIDE DEF B
      <4> QED
        BY <2>10, <4>1
    <3>2. CASE x # id
      <4>1. OfId(Blocks, x) = OfId(Closed, x) /\ Flushed[x] = sockets[x]
            /\ x \in DOMAIN sockets
        BY <2>11, <2>13, <3>2
      <4> QED
        BY <1>3, <4>1 DEF SocketsAre
    <3> QED
      BY <3>1, <3>2
  <2>15. IsFiniteSet(Blocks)
    BY <1>3, <2>1, FS_AddElement DEF SocketsAre
  <2>16. \A b \in Blocks : InBlock(b, "cpu_cores", 0) # Bad
    BY <1>3, <2>1, <2>4 DEF SocketsAre
  <2> QED
    BY <2>11, <2>12, <2>14, <2>15, <2>16 DEF SocketsAre
<1> QED
  BY <1>4, <1>5

\* There is one socket that fits its blocks.
LEMMA DescribedIs ==
    ASSUME text \in Seq(Lines), NEW id, NEW e \in Socket,
           Describes(e, BlocksOf(id)),
           \A b \in BlocksOf(id) : InBlock(b, "cpu_cores", 0) # Bad
    PROVE  e = SocketOf(id)
<1> DEFINE B == BlocksOf(id)
           starts == {b[1] : b \in B}
           first == Min(starts)
           cores == {InBlock(b, "cpu_cores", 0) : b \in B}
           mhzs == {InBlock(b, "cpu_MHz", 0) : b \in B}
           top == (mhzs \ {Bad}) \cup {0}
           found == CHOOSE b \in B : b[1] = first
<1>1. \A b \in B : b \in Blocks /\ b[1] \in Nat
  <2> SUFFICES ASSUME NEW b \in B
               PROVE  b \in Blocks /\ b[1] \in Nat
    OBVIOUS
  <2>1. b \in Blocks
    BY DEF BlocksOf
  <2>2. b[1] \in 1..Len(text)
    BY <2>1, BlockIs
  <2> QED
    BY <2>1, <2>2
<1>2. cores \subseteq Nat /\ top \subseteq Nat
  BY <1>1, InBlockTypes
<1>3. /\ e.threads = Cardinality(B)
      /\ Greatest(e.cores, cores)
      /\ Greatest(e.mhz, top)
  BY DEF Describes
<1>4. PICK b \in B : /\ \A c \in B : b[1] <= c[1]
                     /\ e.model = InBlock(b, "model_name", None)
  BY DEF Describes
<1> HIDE DEF B
<1>5. b[1] = first
  <2>1. starts \subseteq Nat /\ b[1] \in starts /\ \A x \in starts : b[1] <= x
    BY <1>1, <1>4
  <2> HIDE DEF starts
  <2> QED
    BY <2>1, MinIs
<1> HIDE DEF first
<1>6. found = b
  <2>1. found \in B /\ found[1] = first
    BY <1>5
  <2> HIDE DEF found
  <2>2. found \in Blocks /\ b \in Blocks
    BY <1>1, <2>1
  <2> QED
    BY <1>5, <2>1, <2>2, BlocksBegin
<1>7. e.cores = Max(cores) /\ e.mhz = Max(top)
  <2> HIDE DEF cores, top
  <2> QED
    BY <1>2, <1>3, MaxIs
<1>8. SocketOf(id) = [model |-> InBlock(found, "model_name", None),
                      threads |-> Cardinality(B),
                      cores |-> Max(cores), mhz |-> Max(top)]
  BY DEF SocketOf, B, first
<1>9. e = [model |-> e.model, threads |-> e.threads, cores |-> e.cores, mhz |-> e.mhz]
  BY DEF Socket
<1> HIDE DEF cores, top, found
<1> QED
  BY <1>3, <1>4, <1>6, <1>7, <1>8, <1>9

LEMMA SocketsDescribed ==
    ASSUME text \in Seq(Lines), NEW s, SocketTypes(s), SocketsAre(s, Blocks)
    PROVE  s = [id \in {IdOf(b) : b \in Blocks} |-> SocketOf(id)]
<1>1. /\ DOMAIN s = {IdOf(b) : b \in Blocks}
      /\ s = [id \in DOMAIN s |-> s[id]]
  BY DEF SocketsAre
<1>2. ASSUME NEW id \in DOMAIN s
      PROVE  s[id] = SocketOf(id)
  <2>1. OfId(Blocks, id) = BlocksOf(id)
    BY DEF OfId, BlocksOf, IdOf
  <2>2. Describes(s[id], BlocksOf(id))
    BY <2>1 DEF SocketsAre
  <2>3. \A b \in BlocksOf(id) : InBlock(b, "cpu_cores", 0) # Bad
    BY DEF SocketsAre, BlocksOf
  <2>4. s[id] \in Socket
    BY DEF SocketTypes
  <2> QED
    BY <2>2, <2>3, <2>4, DescribedIs
<1> QED
  BY <1>1, <1>2

\* A line more: what the blocks before it say stays.
LEMMA TextGrows ==
    ASSUME text \in Seq(Lines), NEW line \in Lines, text' = Append(text, line)
    PROVE  /\ line = Blank => Closed' = Blocks
           /\ line # Blank => Closed' = Closed
           /\ \A b \in Blocks : \A key, default :
                InBlock(b, key, default)' = InBlock(b, key, default)
<1> DEFINE n == Len(text)
<1>1. /\ n \in Nat /\ text' \in Seq(Lines) /\ Len(text') = n + 1
      /\ DOMAIN text = 1..n /\ DOMAIN text' = 1..(n + 1)
      /\ text'[n + 1] = line
      /\ \A i \in 1..n : text'[i] = text[i]
  BY AppendProperties
<1> HIDE DEF n
<1>2. ASSUME NEW b \in Blocks, NEW key, NEW default
      PROVE  InBlock(b, key, default)' = InBlock(b, key, default)
  <2>1. b[1] \in 1..n /\ b[2] \in 1..n
    BY BlockIs DEF n
  <2>2. \A i \in b[1]..b[2] : i \in 1..n
    BY <1>1, <2>1
  <2>3. \A i \in b[1]..b[2] : text'[i] = text[i]
    BY <1>1, <2>2
  <2> DEFINE giving == {i \in b[1]..b[2] : text[i] # Junk /\ text[i].key = key}
  <2>4. {i \in b[1]..b[2] : text'[i] # Junk /\ text'[i].key = key} = giving
    BY <2>3
  <2>5. InBlock(b, key, default)'
          = IF giving = {} THEN default ELSE text'[Max(giving)].value
    BY <2>4 DEF InBlock
  <2>6. InBlock(b, key, default)
          = IF giving = {} THEN default ELSE text[Max(giving)].value
    BY DEF InBlock
  <2>7. giving # {} => Max(giving) \in b[1]..b[2]
    <3>1. giving \subseteq 0..n /\ giving \subseteq b[1]..b[2]
      BY <1>1, <2>2
    <3> HIDE DEF giving
    <3> QED
      BY <1>1, <3>1, MaxIsGreatest
  <2> HIDE DEF giving
  <2> QED
    BY <2>3, <2>5, <2>6, <2>7
<1>3. ASSUME NEW f \in 1..n, NEW l \in 1..n, f <= l
      PROVE  /\ <<f, l>> \in Blocks' <=>
                  /\ \A i \in f..l : text[i] # Blank
                  /\ \E i \in f..l : text[i] # Junk
                  /\ f = 1 \/ text[f - 1] = Blank
                  /\ text'[l + 1] = Blank
             /\ <<f, l>> \in Blocks <=>
                  /\ \A i \in f..l : text[i] # Blank
                  /\ \E i \in f..l : text[i] # Junk
                  /\ f = 1 \/ text[f - 1] = Blank
                  /\ l = n \/ text[l + 1] = Blank
  <2>1. /\ \A i \in f..l : i \in 1..n /\ text'[i] = text[i]
        /\ f # 1 => text'[f - 1] = text[f - 1]
        /\ l # n + 1
    BY <1>1, <1>3
  <2>2. <<f, l>> \in (DOMAIN text) \X (DOMAIN text)
        /\ <<f, l>> \in (DOMAIN text') \X (DOMAIN text')
    BY <1>1
  <2> QED
    BY <1>1, <1>3, <2>1, <2>2 DEF Blocks, n
<1>4. ASSUME NEW b \in Closed'
      PROVE  b = <<b[1], b[2]>> /\ b[1] \in 1..n /\ b[2] \in 1..n /\ b[1] <= b[2]
             /\ b \in Blocks'
  BY <1>1 DEF Closed, Blocks
<1>5. ASSUME NEW b \in Blocks
      PROVE  b = <<b[1], b[2]>> /\ b[1] \in 1..n /\ b[2] \in 1..n /\ b[1] <= b[2]
  BY BlockIs DEF n
<1>6. Closed \subseteq Blocks /\ \A b \in Closed : b[2] # n
  BY DEF Closed, n
<1>7. \A b \in Blocks' : b[2] # n + 1 => b \in Closed'
  BY <1>1 DEF Closed
<1>8. ASSUME line = Blank
      PROVE  Closed' = Blocks
  <2>1. ASSUME NEW f \in 1..n, NEW l \in 1..n, f <= l
        PROVE  <<f, l>> \in Blocks' <=> <<f, l>> \in Blocks
    <3>1. l # n => text'[l + 1] = text[l + 1]
      BY <1>1
    <3> QED
      BY <1>1, <1>3, <1>8, <2>1, <3>1
  <2>2. \A b \in Closed' : b \in Blocks
    BY <1>4, <2>1
  <2>3. \A b \in Blocks : b \in Closed'
    BY <1>1, <1>5, <1>7, <2>1
  <2> QED
    BY <2>2, <2>3
<1>9. ASSUME line # Blank
      PROVE  Closed' = Closed
  <2>1. ASSUME NEW f \in 1..n, NEW l \in 1..n, f <= l
        PROVE  <<f, l>> \in Blocks' <=> <<f, l>> \in Blocks /\ l # n
    <3>1. l # n => text'[l + 1] = text[l + 1]
      BY <1>1
    <3> QED
      BY <1>1, <1>3, <1>9, <2>1, <3>1
  <2>2. \A b \in Closed' : b \in Blocks /\ b[2] # n
    BY <1>4, <2>1
  <2>3. \A b \in Closed : b \in Closed'
    BY <1>1, <1>5, <1>6, <1>7, <2>1
  <2> QED
    BY <2>2, <2>3 DEF Closed, n
<1> QED
  BY <1>2, <1>8, <1>9

LEMMA SocketsStay ==
    ASSUME NEW s, NEW B, SocketsAre(s, B), sockets' = s, Closed' = B,
           \A b \in B : \A key, default :
             InBlock(b, key, default)' = InBlock(b, key, default)
    PROVE  SocketsAre(sockets, Closed)'
<1>1. /\ \A b \in B : /\ IdOf(b)' = IdOf(b)
                      /\ InBlock(b, "cpu_cores", 0)' = InBlock(b, "cpu_cores", 0)
                      /\ InBlock(b, "cpu_MHz", 0)' = InBlock(b, "cpu_MHz", 0)
                      /\ InBlock(b, "model_name", None)' = InBlock(b, "model_name", None)
  BY DEF IdOf
<1>2. {IdOf(b)' : b \in B} = {IdOf(b) : b \in B}
  BY <1>1
<1>3. ASSUME NEW id
      PROVE  Describes(s[id], OfId(B, id))' = Describes(s[id], OfId(B, id))
  <2> DEFINE C == OfId(B, id)
  <2>1. C' = C /\ C \subseteq B
    BY <1>1 DEF OfId
  <2> HIDE DEF C
  <2>2. {InBlock(b, "cpu_cores", 0)' : b \in C} = {InBlock(b, "cpu_cores", 0) : b \in C}
    BY <1>1, <2>1
  <2>3. {InBlock(b, "cpu_MHz", 0)' : b \in C} = {InBlock(b, "cpu_MHz", 0) : b \in C}
    BY <1>1, <2>1
  <2>4. Describes(s[id], C)' = Describes(s[id], C)
    BY <1>1, <2>1, <2>2, <2>3 DEF Describes
  <2> QED
    BY <2>4 DEF C
<1>4. \A id : Describes(s[id], OfId(B, id))' = Describes(s[id], OfId(B, id))
  BY <1>3
<1> QED
  BY <1>1, <1>2, <1>4 DEF SocketsAre

\* Before the first line there is nothing.
NoText == text = <<>> /\ current = Nothing /\ sockets = Nothing

LEMMA TextEmpty == NoText => CpuInv
<1> SUFFICES ASSUME NoText
             PROVE  CpuInv
  OBVIOUS
<1> USE DEF NoText
<1>1. Len(text) = 0 /\ DOMAIN current = {} /\ DOMAIN sockets = {}
  BY DEF Nothing
<1>2. current = [k \in DOMAIN current |-> current[k]]
      /\ sockets = [k \in DOMAIN sockets |-> sockets[k]]
  BY DEF Nothing
<1>3. EntriesFrom(1) = {}
  BY <1>1 DEF EntriesFrom
<1>4. OpenAt(1)
  BY <1>1, <1>2, <1>3 DEF OpenAt
<1>5. Closed = {}
  BY DEF Closed, Blocks
<1>6. SocketsAre(sockets, Closed)
  BY <1>1, <1>2, <1>5, FS_EmptySet DEF SocketsAre
<1> QED
  BY <1>1, <1>4, <1>6 DEF CpuInv

\* A blank line ends the block being read, if there is one.
LEMMA BlankKeepsInv ==
    ASSUME CollectorTypes, CpuInv, BlankLine
    PROVE  CpuInv'
<1>1. /\ text' = Append(text, Blank) /\ ~FlushRaises
      /\ sockets' = Flushed /\ current' = Nothing
  BY DEF BlankLine, NextLine
<1>2. text \in Seq(Lines) /\ Blank \in Lines
  BY DEF CollectorTypes, Lines
<1>3. SocketsAre(Flushed, Blocks)
  BY <1>1, FlushDescribes
<1>4. /\ Closed' = Blocks
      /\ \A b \in Blocks : \A key, default :
           InBlock(b, key, default)' = InBlock(b, key, default)
  BY <1>1, <1>2, TextGrows
<1>5. SocketsAre(sockets, Closed)'
  BY <1>1, <1>3, <1>4, SocketsStay
<1>6. PICK o \in Nat : o = Len(text) + 2
  BY <1>2
<1>7. /\ o = Len(text') + 1 /\ text'[o - 1] = Blank /\ o >= 1
  BY <1>1, <1>2, <1>6
<1>8. DOMAIN current' = {} /\ current' = [k \in DOMAIN current' |-> current'[k]]
  BY <1>1 DEF Nothing
<1>9. o..Len(text') = {}
  BY <1>1, <1>2, <1>7
<1>10. /\ o = 1 \/ text'[o - 1] = Blank
       /\ \A i \in o..Len(text') : text'[i] # Blank
       /\ {i \in o..Len(text') : text'[i] # Junk} = {}
       /\ o \in 1..(Len(text') + 1)
  BY <1>1, <1>2, <1>7, <1>9
<1>11. OpenAt(o)'
  BY <1>8, <1>10 DEF OpenAt, EntriesFrom
<1> QED
  BY <1>5, <1>10, <1>11 DEF CpuInv

\* A line without a key, or with one, goes to the block being read.
LEMMA LineKeepsInv ==
    ASSUME CollectorTypes, CpuInv, NEW line \in Lines \ {Blank},
           text' = Append(text, line), sockets' = sockets,
           \/ line = Junk /\ current' = current
           \/ line # Junk /\ current' = Put(current, line.key, line.value)
    PROVE  CpuInv'
<1>1. text \in Seq(Lines)
  BY DEF CollectorTypes
<1>2. /\ Closed' = Closed
      /\ \A b \in Closed : \A key, default :
           InBlock(b, key, default)' = InBlock(b, key, default)
  BY <1>1, TextGrows DEF Closed
<1>3. SocketsAre(sockets, Closed)'
  BY <1>2, SocketsStay DEF CpuInv
<1>4. PICK o \in 1..(Len(text) + 1) : OpenAt(o)
  BY DEF CpuInv
<1> DEFINE n == Len(text)
<1>5. /\ n \in Nat /\ Len(text') = n + 1 /\ text'[n + 1] = line
      /\ \A i \in 1..n : text'[i] = text[i]
  BY <1>1
<1> HIDE DEF n
<1>6. /\ o \in 1..(n + 1)
      /\ o = 1 \/ text'[o - 1] = Blank
      /\ \A i \in o..(n + 1) : text'[i] # Blank
  BY <1>4, <1>5 DEF OpenAt, n
<1>7. \A i \in EntriesFrom(o) : i \in 1..n /\ text'[i] = text[i] /\ i < n + 1
  BY <1>5, <1>6 DEF EntriesFrom, n
<1>8. EntriesFrom(o)' = EntriesFrom(o) \cup {i \in {n + 1} : line # Junk}
  <2>1. EntriesFrom(o)' = {i \in o..(n + 1) : text'[i] # Junk}
    BY <1>5 DEF EntriesFrom
  <2>2. \A i \in o..(n + 1) : i = n + 1 \/ (i \in o..n /\ i \in 1..n)
    BY <1>5, <1>6
  <2>3. \A i \in EntriesFrom(o) : i \in o..(n + 1) /\ text'[i] # Junk
    BY <1>5, <1>6, <1>7 DEF EntriesFrom, n
  <2>4. \A i \in o..n : text[i] # Junk => i \in EntriesFrom(o)
    BY DEF EntriesFrom, n
  <2> QED
    BY <1>5, <1>6, <2>1, <2>2, <2>3, <2>4
<1> DEFINE E == EntriesFrom(o)
<1>9. /\ DOMAIN current = {text[i].key : i \in E}
      /\ current = [k \in DOMAIN current |-> current[k]]
      /\ \A i \in E :
           (\A j \in E : text[j].key = text[i].key => j <= i)
             => current[text[i].key] = text[i].value
  BY <1>4 DEF OpenAt
<1>10. OpenAt(o)'
  <2> DEFINE F == EntriesFrom(o)'
  <2> SUFFICES /\ DOMAIN current' = {text'[i].key : i \in F}
               /\ current' = [k \in DOMAIN current' |-> current'[k]]
               /\ \A i \in F :
                    (\A j \in F : text'[j].key = text'[i].key => j <= i)
                      => current'[text'[i].key] = text'[i].value
    BY <1>5, <1>6 DEF OpenAt
  <2>1. \A i \in E : text'[i] = text[i] /\ i < n + 1
    BY <1>7
  <2>2. CASE line = Junk
    <3>1. F = E /\ current' = current
      BY <1>8, <2>2
    <3>2. {text'[i].key : i \in E} = {text[i].key : i \in E}
      BY <2>1
    <3> HIDE DEF E, F
    <3> QED
      BY <1>9, <2>1, <3>1, <3>2
  <2>3. CASE line # Junk
    <3>1. F = E \cup {n + 1} /\ current' = Put(current, line.key, line.value)
      BY <1>8, <2>3
    <3> HIDE DEF E, F
    <3>2. /\ DOMAIN current' = DOMAIN current \cup {line.key}
          /\ current'[line.key] = line.value
          /\ \A k \in DOMAIN current : k # line.key => current'[k] = current[k]
          /\ current' = [k \in DOMAIN current' |-> current'[k]]
      BY <3>1 DEF Put
    <3>3. DOMAIN current' = {text'[i].key : i \in F}
      <4>1. {text'[i].key : i \in E} = DOMAIN current
        BY <1>9, <2>1
      <4>2. {text'[i].key : i \in F} = {text'[i].key : i \in E} \cup {line.key}
        BY <1>5, <3>1
      <4> QED
        BY <3>2, <4>1, <4>2
    <3>4. ASSUME NEW i \in F, \A j \in F : text'[j].key = text'[i].key => j <= i
          PROVE  current'[text'[i].key] = text'[i].value
      <4>1. CASE i = n + 1
        BY <1>5, <3>2, <4>1
      <4>2. CASE i # n + 1
        <5>1. i \in E /\ i < n + 1 /\ text'[i] = text[i]
          BY <2>1, <3>1, <3>4, <4>2
        <5>2. i \in 1..n
          BY <1>7, <5>1 DEF E
        <5>3. line.key # text[i].key
          BY <1>5, <3>1, <3>4, <5>1, <5>2
        <5>4. \A j \in E : text[j].key = text[i].key => j <= i
          BY <2>1, <3>1, <3>4, <5>1
        <5> QED
          BY <1>9, <3>2, <5>1, <5>3, <5>4
      <4> QED
        BY <4>1, <4>2
    <3> QED
      BY <3>2, <3>3, <3>4
  <2> QED
    BY <2>2, <2>3
<1> QED
  BY <1>3, <1>5, <1>6, <1>10 DEF CpuInv

LEMMA CpuInvStep ==
    ASSUME CollectorTypes, CpuInv, [Next]_vars
    PROVE  CpuInv' \/ NoText'
<1>1. CASE BlankLine
  BY <1>1, BlankKeepsInv
<1>2. CASE JunkLine
  BY <1>2, LineKeepsInv, CollectorAssumption DEF JunkLine, NextLine, Lines
<1>3. ASSUME NEW line \in Lines \ {Blank, Junk}, EntryLine(line)
      PROVE  CpuInv'
  BY <1>3, LineKeepsInv DEF EntryLine, NextLine
<1>4. CASE ForgetText
  BY <1>4 DEF ForgetText, NoText
<1>5. CASE UNCHANGED parser
  <2>1. text' = text /\ current' = current /\ sockets' = sockets
    BY <1>5 DEF parser
  <2>2. \A b, key, default : InBlock(b, key, default)' = InBlock(b, key, default)
    BY <2>1 DEF InBlock
  <2>3. Closed' = Closed
    BY <2>1 DEF Closed, Blocks
  <2>4. SocketsAre(sockets, Closed)'
    BY <2>1, <2>2, <2>3, SocketsStay DEF CpuInv
  <2>5. PICK o \in 1..(Len(text) + 1) : OpenAt(o)
    BY DEF CpuInv
  <2>6. OpenAt(o)'
    BY <2>1, <2>5 DEF OpenAt, EntriesFrom
  <2> QED
    BY <2>1, <2>4, <2>5, <2>6 DEF CpuInv
<1> QED
  BY <1>1, <1>2, <1>3, <1>4, <1>5
  DEF Next, vars, BuildStep, CpuStep, EndOfFile, CpuRaises, NicsStep, ListDevices, Replug,
      SkipDevice, ReadAddress, ReadSpeed, EndWalk, ReadRoute, ReadAddresses,
      CollectHostFacts, CollectDisks, CollectGpus, CollectMemory, ReadFails

LEMMA CpuInvariant == Spec => []CpuInv
<1>1. CollectorsInit => NoText
  BY DEF CollectorsInit, NoText
<1>2. CollectorTypes /\ CpuInv /\ [Next]_vars => CpuInv' \/ NoText'
  BY CpuInvStep
<1> QED
  BY <1>1, <1>2, TextEmpty, CollectorTypesHold, PTL DEF Spec

\* The steps that end the run of the cpu collector.
LEMMA CpuEnds ==
    ASSUME BuildTypes, Runs("cpu"), [Next]_vars, at' # at
    PROVE  EndOfFile \/ CpuRaises \/ ReadFails("cpu")
<1>1. at \in 1..Len(registry) /\ registry[at] = "cpu" /\ Len(registry) \in Nat
  BY DEF BuildTypes, Runs
<1>2. at # 0 /\ ~(at > Len(registry))
  BY <1>1
<1>3. \A c : Runs(c) => c = "cpu"
  BY <1>1 DEF Runs
<1>4. ~BuildStep
  <2>1. ~Build /\ \A list \in Imports : ~Register(list)
    BY <1>2 DEF Build, Register
  <2>2. \A c \in AllCollectors \ Own : ~CollectAnything(c)
    BY <1>3 DEF Own, CollectAnything, CollectFacts, CollectComponents, CollectorRaises
  <2> QED
    BY <2>1, <2>2 DEF BuildStep
<1>5. ~ReadAddresses /\ ~CollectDisks /\ ~CollectGpus /\ ~CollectMemory /\ ~ReadRoute
      /\ ~NicsStep
  BY <1>3
  DEF ReadAddresses, CollectDisks, CollectGpus, CollectMemory, ReadRoute, NicsStep,
      ListDevices, Replug, SkipDevice, ReadAddress, ReadSpeed, EndWalk, CollectFacts,
      CollectComponents, CollectorRaises
<1>6. ~(\E c \in HostFacts : CollectHostFacts(c))
  BY <1>3 DEF HostFacts, CollectHostFacts, CollectFacts
<1>7. \A c \in Own : ReadFails(c) => c = "cpu"
  BY <1>3 DEF ReadFails, CollectorRaises
<1>8. ~BlankLine /\ ~JunkLine /\ \A line : ~EntryLine(line)
  BY DEF BlankLine, JunkLine, EntryLine, NextLine, built
<1>9. ~UNCHANGED vars
  BY DEF vars, built
<1> QED
  BY <1>4, <1>5, <1>6, <1>7, <1>8, <1>9 DEF Next, CpuStep

\* Whatever a file says, and however long it is: the cpu collector reports a
\* socket for every id its blocks name, of what all of the blocks with that id
\* say, and fails only for a file it cannot read or cores that are no number
\* (cpu.py, _flush and the loop over the lines).
THEOREM BlocksMakeSockets == Spec => SocketsByBlocks
<1>1. ASSUME BuildTypes, CollectorTypes, CpuInv, [Next]_vars, Runs("cpu"), at' # at
      PROVE  LET ids == {InBlock(b, "physical_id", 0) : b \in Blocks}
                 bad == \E b \in Blocks : InBlock(b, "cpu_cores", 0) = Bad
             IN  IF at \in failed' THEN bad \/ text = <<>>
                 ELSE /\ ~bad
                      /\ results'[at] =
                           SocketComponents([id \in ids |-> SocketOf(id)])
  <2> DEFINE ids == {InBlock(b, "physical_id", 0) : b \in Blocks}
             bad == \E b \in Blocks : InBlock(b, "cpu_cores", 0) = Bad
  <2>1. text \in Seq(Lines)
    BY <1>1 DEF CollectorTypes
  <2>2. at \notin failed
    <3>1. at \in 1..Len(registry) /\ at \notin 1..Len(results)
      BY <1>1 DEF BuildTypes, Runs
    <3> QED
      BY <1>1, <3>1 DEF BuildTypes
  <2>3. CASE EndOfFile
    <3>1. /\ ~FlushRaises
          /\ at' = at + 1 /\ results' = Append(results, SocketComponents(Flushed))
          /\ registry' = registry /\ failed' = failed
      BY <2>3 DEF EndOfFile, CollectComponents, Finish
    <3>2. SocketsAre(Flushed, Blocks) /\ SocketTypes(Flushed)
      BY <1>1, <3>1, FlushDescribes, FlushedTypes DEF CollectorTypes
    <3>3. Flushed = [id \in ids |-> SocketOf(id)]
      BY <2>1, <3>2, SocketsDescribed DEF IdOf
    <3>4. results'[at] = SocketComponents(Flushed)
      BY <1>1, <3>1, TypesRun
    <3>5. ~bad
      BY <3>2 DEF SocketsAre
    <3>6. at \notin failed'
      BY <2>2, <3>1
    <3> HIDE DEF ids, bad
    <3>7. results'[at] = SocketComponents([id \in ids |-> SocketOf(id)])
      BY <3>3, <3>4
    <3> QED
      BY <3>5, <3>6, <3>7 DEF ids, bad
  <2>4. CASE CpuRaises
    <3>1. FlushRaises /\ failed' = failed \cup {at}
      BY <2>4 DEF CpuRaises, CollectorRaises
    <3>2. PICK o \in 1..(Len(text) + 1) : OpenAt(o)
      BY <1>1 DEF CpuInv
    <3>3. Get(current, "cpu_cores", 0) = Bad
      BY <3>1 DEF FlushRaises
    <3>4. InBlock(<<o, Len(text)>>, "cpu_cores", 0) = Bad
      BY <2>1, <3>2, <3>3, OpenEntries
    <3>5. current # Nothing
      BY <3>3, CollectorAssumption DEF Get, Nothing
    <3>6. <<o, Len(text)>> \in Blocks
      BY <2>1, <3>2, <3>5, OpenBlock
    <3>7. bad
      BY <3>4, <3>6
    <3> QED
      BY <3>1, <3>7
  <2>5. CASE ReadFails("cpu")
    <3>1. text = <<>> /\ failed' = failed \cup {at}
      BY <2>5 DEF ReadFails, CollectorRaises
    <3> QED
      BY <3>1
  <2> QED
    BY <1>1, <2>3, <2>4, <2>5, CpuEnds
<1> QED
  BY <1>1, SnapshotInvariant, CollectorTypesHold, CpuInvariant, PTL
  DEF Spec, SocketsByBlocks, SnapshotInv

=============================================================================
