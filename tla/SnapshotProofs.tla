--------------------------- MODULE SnapshotProofs ---------------------------
(***************************************************************************)
(* Theorems about Snapshot and Collectors, for any collectors, any facts   *)
(* and any number of them.                                                 *)
(***************************************************************************)
EXTENDS Collectors, SequenceLemmas

-----------------------------------------------------------------------------
(* Types of what the collectors keep.                                      *)

Nic == [slot : Interfaces, serial : Macs, speed : Nat]

\* The entries of a block are what lines give, of the keys that matter.
CurrentTypes ==
    \A k \in DOMAIN current : \E line \in Lines \ {Blank, Junk} :
      k = line.key /\ current[k] = line.value

SocketTypes(s) ==
    /\ DOMAIN s \subseteq SocketIds \cup {0}
    /\ IsFiniteSet(DOMAIN s)
    /\ \A id \in DOMAIN s : s[id] \in Socket

\* An address is read of a device the walk is at.
CollectorTypes ==
    /\ text \in Seq(Lines)
    /\ CurrentTypes
    /\ SocketTypes(sockets)
    /\ DOMAIN devices \subseteq Interfaces
    /\ \A n \in DOMAIN devices : devices[n] \in Devices
    /\ walk = None \/ walk \in Seq(Interfaces)
    /\ mac \in Macs \cup {None}
    /\ mac # None => walk \notin {None, <<>>}
    /\ nics \in Seq(Nic)
    /\ iface \in Interfaces \cup {None}

LEMMA SortedEnumerates ==
    ASSUME NEW S \in SUBSET Nat, IsFiniteSet(S)
    PROVE  Enumerates(Sorted(S), S)
<1>1. \E s \in [1..Cardinality(S) -> S] :
        \A i, j \in 1..Cardinality(S) : i < j => s[i] < s[j]
  BY EnumerationExists DEF Enumerates
<1> QED
  BY <1>1 DEF Sorted, Enumerates

LEMMA NumberTypes ==
    ASSUME NEW n \in Numbers
    PROVE  NumberOr0(n) \in Nat
  BY CollectorAssumption DEF NumberOr0

\* What a block says of a socket is a value of the key, or nothing.
LEMMA EntryTypes ==
    ASSUME CurrentTypes
    PROVE  /\ Get(current, "physical_id", 0) \in SocketIds \cup {0}
           /\ Get(current, "cpu_cores", 0) \in Numbers \cup {0}
           /\ Get(current, "cpu_MHz", 0) \in Numbers \cup {0}
           /\ Get(current, "model_name", None) \in Models \cup {None}
<1>1. \A line \in Lines \ {Blank, Junk} :
        /\ line.key = "physical_id" => line.value \in SocketIds
        /\ line.key = "cpu_cores" => line.value \in Numbers
        /\ line.key = "cpu_MHz" => line.value \in Numbers
        /\ line.key = "model_name" => line.value \in Models
  BY DEF Lines
<1> QED
  BY <1>1 DEF CurrentTypes, Get

LEMMA FlushedTypes ==
    ASSUME CurrentTypes, SocketTypes(sockets), ~FlushRaises
    PROVE  SocketTypes(Flushed)
<1> DEFINE id == Get(current, "physical_id", 0)
           cores == Get(current, "cpu_cores", 0)
           mhz == NumberOr0(Get(current, "cpu_MHz", 0))
           entry == IF id \in DOMAIN sockets THEN sockets[id]
                    ELSE [model |-> Get(current, "model_name", None),
                          threads |-> 0, cores |-> 0, mhz |-> 0]
           new == [entry EXCEPT !.threads = @ + 1,
                                !.cores = Max({@, cores}),
                                !.mhz = Max({@, mhz})]
<1>1. Flushed = IF current = Nothing THEN sockets ELSE Put(sockets, id, new)
  BY DEF Flushed
<1>2. cores \in Nat /\ mhz \in Nat /\ id \in SocketIds \cup {0}
  <2>1. cores \in Numbers \cup {0} /\ cores # Bad
    BY EntryTypes DEF FlushRaises
  <2>2. Get(current, "cpu_MHz", 0) \in Numbers \cup {0}
    BY EntryTypes
  <2>3. NumberOr0(0) = 0
    BY DEF NumberOr0
  <2>4. mhz \in Nat
    BY <2>2, <2>3, NumberTypes
  <2>5. id \in SocketIds \cup {0}
    BY EntryTypes
  <2> HIDE DEF id, cores, mhz
  <2> QED
    BY <2>1, <2>4, <2>5, CollectorAssumption
<1>3. entry \in Socket
  BY EntryTypes, <1>2 DEF SocketTypes, Socket
<1> HIDE DEF id, cores, mhz, entry
<1>4. /\ Max({entry.cores, cores}) \in Nat
      /\ Max({entry.mhz, mhz}) \in Nat
  BY <1>2, <1>3, MaxOfTwo DEF Socket
<1>5. new \in Socket
  <2>1. new = [model |-> entry.model, threads |-> entry.threads + 1,
               cores |-> Max({entry.cores, cores}), mhz |-> Max({entry.mhz, mhz})]
    <3> DEFINE a == Max({entry.cores, cores})
               b == Max({entry.mhz, mhz})
    <3>1. new = [entry EXCEPT !.threads = entry.threads + 1, !.cores = a, !.mhz = b]
      OBVIOUS
    <3>2. PICK m \in Models \cup {None}, t \in Nat, c \in Nat, z \in Nat :
                 entry = [model |-> m, threads |-> t, cores |-> c, mhz |-> z]
      BY <1>3 DEF Socket
    <3> HIDE DEF a, b, new
    <3>3. new = [model |-> m, threads |-> t + 1, cores |-> a, mhz |-> b]
      BY <3>1, <3>2
    <3> QED
      BY <3>2, <3>3 DEF a, b
  <2>2. entry.model \in Models \cup {None} /\ entry.threads + 1 \in Nat
    BY <1>3 DEF Socket
  <2> QED
    BY <1>4, <2>1, <2>2 DEF Socket
<1> HIDE DEF new
<1>6. CASE current # Nothing
  <2>1. /\ DOMAIN Flushed = DOMAIN sockets \cup {id}
        /\ \A x \in DOMAIN Flushed : Flushed[x] = IF x = id THEN new ELSE sockets[x]
    BY <1>1, <1>6 DEF Put
  <2>2. IsFiniteSet(DOMAIN sockets \cup {id})
    BY FS_AddElement DEF SocketTypes
  <2> QED
    BY <1>2, <1>5, <2>1, <2>2 DEF SocketTypes
<1>7. CASE current = Nothing
  BY <1>1, <1>7
<1> QED
  BY <1>6, <1>7

LEMMA DefaultInterfaceTypes ==
    ASSUME NEW lines \in Seq(RouteLines)
    PROVE  DefaultInterface(lines) \in Interfaces \cup {None}
<1> DEFINE defaults == {i \in DOMAIN lines \ {1} : IsDefault(lines[i])}
<1>1. CASE defaults = {}
  BY <1>1 DEF DefaultInterface
<1>2. CASE defaults # {}
  <2>1. defaults \subseteq Nat
    OBVIOUS
  <2>2. Min(defaults) \in defaults
    BY <1>2, <2>1, MinIsLeast
  <2>3. PICK i \in defaults : i = Min(defaults)
    BY <2>2
  <2>4. lines[i] \in RouteLines \ {Junk}
    BY <2>3 DEF IsDefault
  <2>5. lines[i].iface \in Interfaces
    BY <2>4 DEF RouteLines
  <2>6. DefaultInterface(lines) = lines[Min(defaults)].iface
    BY <1>2 DEF DefaultInterface
  <2> QED
    BY <2>3, <2>5, <2>6
<1> QED
  BY <1>1, <1>2

LEMMA CollectorTypesInit == CollectorsInit => CollectorTypes
<1> SUFFICES ASSUME CollectorsInit
             PROVE  CollectorTypes
  OBVIOUS
<1>1. DOMAIN Nothing = {} /\ IsFiniteSet({})
  BY FS_EmptySet DEF Nothing
<1> QED
  BY <1>1 DEF CollectorsInit, CollectorTypes, CurrentTypes, SocketTypes, Nothing

LEMMA CpuTypes == CollectorTypes /\ CpuStep => CollectorTypes'
<1> SUFFICES ASSUME CollectorTypes, CpuStep
             PROVE  CollectorTypes'
  OBVIOUS
<1>1. DOMAIN Nothing = {} /\ IsFiniteSet({})
  BY FS_EmptySet DEF Nothing
<1>2. UNCHANGED <<scan, iface>>
  BY DEF CpuStep, BlankLine, JunkLine, EntryLine, NextLine, EndOfFile, CpuRaises,
         ForgetText
<1>3. SUFFICES text' \in Seq(Lines) /\ CurrentTypes' /\ SocketTypes(sockets)'
  BY <1>2 DEF CollectorTypes, scan
<1>4. ASSUME NEW line \in Lines, NextLine(line)
      PROVE  text' \in Seq(Lines)
  BY <1>4 DEF NextLine, CollectorTypes
<1>5. CASE BlankLine
  <2>1. SocketTypes(Flushed)
    BY <1>5, FlushedTypes DEF BlankLine, CollectorTypes
  <2>2. CurrentTypes'
    BY <1>1, <1>5 DEF BlankLine, CurrentTypes
  <2>3. text' \in Seq(Lines)
    BY <1>4, <1>5 DEF BlankLine, Lines
  <2> QED
    BY <1>5, <2>1, <2>2, <2>3 DEF BlankLine, SocketTypes
<1>6. CASE JunkLine
  <2>1. text' \in Seq(Lines)
    BY <1>4, <1>6 DEF JunkLine, Lines
  <2> QED
    BY <1>6, <2>1 DEF JunkLine, CollectorTypes, CurrentTypes, SocketTypes
<1>7. ASSUME NEW line \in Lines \ {Blank, Junk}, EntryLine(line)
      PROVE  text' \in Seq(Lines) /\ CurrentTypes' /\ SocketTypes(sockets)'
  <2>1. text' \in Seq(Lines)
    BY <1>4, <1>7 DEF EntryLine
  <2>2. CurrentTypes'
    BY <1>7 DEF EntryLine, Put, CollectorTypes, CurrentTypes
  <2> QED
    BY <1>7, <2>1, <2>2 DEF EntryLine, CollectorTypes, SocketTypes
<1>8. CASE ForgetText
  BY <1>1, <1>8 DEF ForgetText, CurrentTypes, SocketTypes, Nothing
<1> QED
  BY <1>5, <1>6, <1>7, <1>8 DEF CpuStep, EndOfFile, CpuRaises

\* A device that is reported is there, is not virtual and has an address.
LEMMA ReportableTypes ==
    ASSUME \A n \in DOMAIN devices : devices[n] \in Devices,
           NEW r \in Reportable(devices)
    PROVE  r[1] \in DOMAIN devices /\ r[2] \in Macs /\ r[2] # None
<1>1. PICK n \in DOMAIN devices : r = <<n, devices[n].mac>> /\ devices[n].mac # None
  BY DEF Reportable
<1> QED
  BY <1>1 DEF Devices

LEMMA NicsTypes == CollectorTypes /\ NicsStep => CollectorTypes'
<1> SUFFICES ASSUME CollectorTypes, NicsStep
             PROVE  CollectorTypes'
  OBVIOUS
<1> USE CollectorAssumption
<1>1. UNCHANGED <<parser, iface>>
  BY DEF NicsStep, ListDevices, Replug, SkipDevice, ReadAddress, ReadSpeed, EndWalk
<1>2. text' \in Seq(Lines) /\ CurrentTypes' /\ SocketTypes(sockets)'
      /\ iface' \in Interfaces \cup {None}
  BY <1>1 DEF CollectorTypes, CurrentTypes, SocketTypes, parser
<1> USE <1>2 DEF CollectorTypes
<1>3. CASE ListDevices
  <2>1. PICK present \in SUBSET Interfaces : devices' \in [present -> Devices]
    BY <1>3 DEF ListDevices
  <2>2. DOMAIN devices' \in SUBSET Nat /\ IsFiniteSet(DOMAIN devices')
    BY <2>1, FS_Subset
  <2>3. Sorted(DOMAIN devices') \in Seq(DOMAIN devices')
    BY <2>2, SortedEnumerates, EnumerationCovers
  <2>4. walk' \in Seq(Interfaces)
    BY <1>3, <2>1, <2>3, SeqMonotonic DEF ListDevices
  <2>5. mac = None
    BY <1>3 DEF ListDevices
  <2> QED
    BY <1>3, <2>1, <2>4, <2>5 DEF ListDevices
<1>4. ASSUME NEW n \in Interfaces \ Virtual, Replug(n)
      PROVE  CollectorTypes'
  <2>1. CASE devices' = Restrict(devices, DOMAIN devices \ {n})
    BY <1>4, <2>1 DEF Replug, Restrict
  <2>2. ASSUME NEW d \in Devices, devices' = Put(devices, n, d)
        PROVE  CollectorTypes'
    BY <1>4, <2>2 DEF Replug, Put
  <2> QED
    BY <1>4, <2>1, <2>2 DEF Replug
<1>5. CASE SkipDevice
  BY <1>5 DEF SkipDevice
<1>6. CASE ReadAddress
  <2>1. PICK r \in Reportable(devices) : mac' = r[2]
    BY <1>6 DEF ReadAddress
  <2>2. mac' \in Macs
    BY <2>1, ReportableTypes
  <2> QED
    BY <1>6, <2>2 DEF ReadAddress
<1>7. CASE ReadSpeed
  <2> DEFINE speed == IF Head(walk) \in DOMAIN devices
                      THEN NumberOr0(devices[Head(walk)].speed) ELSE 0
  <2>1. walk \in Seq(Interfaces) /\ walk # <<>>
    BY <1>7 DEF ReadSpeed
  <2>2. speed \in Nat
    BY <2>1, NumberTypes DEF Devices
  <2>3. [slot |-> Head(walk), serial |-> mac, speed |-> speed] \in Nic
    BY <1>7, <2>1, <2>2 DEF ReadSpeed, Nic
  <2>4. nics' = Append(nics, [slot |-> Head(walk), serial |-> mac, speed |-> speed])
    BY <1>7 DEF ReadSpeed
  <2> HIDE DEF speed
  <2>5. nics' \in Seq(Nic)
    BY <2>3, <2>4
  <2> QED
    BY <1>7, <2>1, <2>5 DEF ReadSpeed
<1>8. CASE EndWalk
  BY <1>8 DEF EndWalk, Nothing
<1> QED
  BY <1>3, <1>4, <1>5, <1>6, <1>7, <1>8 DEF NicsStep

LEMMA CollectorTypesStep == CollectorTypes /\ [Next]_vars => CollectorTypes'
<1> SUFFICES ASSUME CollectorTypes, [Next]_vars
             PROVE  CollectorTypes'
  OBVIOUS
<1>1. ASSUME UNCHANGED <<parser, scan>>, iface' \in Interfaces \cup {None}
      PROVE  CollectorTypes'
  BY <1>1 DEF CollectorTypes, CurrentTypes, SocketTypes, parser, scan
<1>2. iface \in Interfaces \cup {None}
  BY DEF CollectorTypes
<1>3. CASE ReadRoute
  <2>1. PICK lines \in Lists(RouteLines) :
               LET found == DefaultInterface(<<Junk>> \o lines) IN
               IF found = None THEN UNCHANGED iface ELSE iface' = found
    BY <1>3 DEF ReadRoute
  <2>2. lines \in Seq(RouteLines)
    BY CollectorAssumption, SeqDef DEF Lists, SeqOf
  <2>3. <<Junk>> \o lines \in Seq(RouteLines)
    BY <2>2 DEF RouteLines
  <2>4. DefaultInterface(<<Junk>> \o lines) \in Interfaces \cup {None}
    BY <2>3, DefaultInterfaceTypes
  <2> QED
    BY <1>1, <1>2, <1>3, <2>1, <2>4 DEF ReadRoute
<1>4. CASE ReadAddresses \/ \E c \in Own : ReadFails(c)
  BY <1>1, <1>4 DEF ReadAddresses, ReadFails
<1>5. CASE BuildStep \/ (\E c \in HostFacts : CollectHostFacts(c)) \/ CollectDisks
           \/ CollectGpus \/ CollectMemory \/ UNCHANGED vars
  BY <1>1, <1>2, <1>5
  DEF BuildStep, CollectHostFacts, CollectDisks, CollectGpus, CollectMemory, vars
<1> QED
  BY <1>3, <1>4, <1>5, CpuTypes, NicsTypes DEF Next

LEMMA CollectorTypesHold == Spec => []CollectorTypes
  BY CollectorTypesInit, CollectorTypesStep, PTL DEF Spec

-----------------------------------------------------------------------------
(* The steps of build().                                                   *)

\* The results, and the positions of the failures, are of the collectors that
\* have run: a stretch of the registry.
BuildTypes ==
    /\ registry \in Seq(AllCollectors)
    /\ at \in 0..(Len(registry) + 1)
    /\ \E S : results \in Seq(S)
    /\ Len(results) = IF at = 0 THEN 0 ELSE at - 1
    /\ failed \subseteq 1..Len(results)

SnapshotInv == BuildTypes /\ FirstFactWins

\* What a step of anything does to build(): one of its operations, with some
\* result, or nothing.
BuildGoes ==
    \/ \E list \in Imports : Register(list)
    \/ Build
    \/ \E c \in FactCollectors : \E result : CollectFacts(c, result)
    \/ \E c \in ComponentCollectors : \E S : \E result \in Seq(S) :
         CollectComponents(c, result)
    \/ \E c \in AllCollectors : CollectorRaises(c)
    \/ UNCHANGED built

LEMMA FunctionIsSequence ==
    ASSUME NEW n \in Nat, NEW f, f = [i \in 1..n |-> f[i]]
    PROVE  \E S : f \in Seq(S)
<1>1. f \in [1..n -> {f[i] : i \in 1..n}]
  OBVIOUS
<1> QED
  BY <1>1, SeqDef

\* A component for each member of a finite set of numbers.
LEMMA ComponentPerMember ==
    ASSUME NEW S \in SUBSET Nat, IsFiniteSet(S)
    PROVE  DOMAIN Sorted(S) = 1..Cardinality(S) /\ Cardinality(S) \in Nat
<1>1. Sorted(S) \in [1..Cardinality(S) -> S]
  BY SortedEnumerates DEF Enumerates
<1> QED
  BY <1>1, FS_CardinalityType

LEMMA ListTypes ==
    ASSUME NEW S, NEW list \in Lists(S)
    PROVE  /\ list \in Seq(S)
           /\ \A T \in SUBSET (DOMAIN list) : T \in SUBSET Nat /\ IsFiniteSet(T)
<1>1. PICK n \in 0..MaxItems : list \in [1..n -> S]
  BY DEF Lists, SeqOf
<1>2. n \in Nat
  BY <1>1, CollectorAssumption
<1>3. list \in Seq(S)
  BY <1>1, <1>2, SeqDef
<1>4. DOMAIN list = 1..n /\ IsFiniteSet(1..n)
  BY <1>1, <1>2, FS_Interval
<1> QED
  BY <1>2, <1>3, <1>4, FS_Subset

LEMMA SocketsAreSequence ==
    ASSUME NEW s, SocketTypes(s)
    PROVE  \E S : SocketComponents(s) \in Seq(S)
<1>1. CASE s = Nothing
  <2>1. SocketComponents(s) = <<[id |-> 0, socket |-> Fallback]>>
    BY <1>1 DEF SocketComponents
  <2>2. SocketComponents(s) \in Seq({[id |-> 0, socket |-> Fallback]})
    BY <2>1
  <2> QED
    BY <2>2
<1>2. CASE s # Nothing
  <2> DEFINE ids == Sorted(DOMAIN s)
             n == Cardinality(DOMAIN s)
  <2>1. DOMAIN ids = 1..n /\ n \in Nat
    BY ComponentPerMember, CollectorAssumption DEF SocketTypes
  <2>2. SocketComponents(s) =
          [i \in DOMAIN ids |->
             [id |-> ids[i], socket |-> [s[ids[i]] EXCEPT !.cores = Max({1, @})]]]
    BY <1>2 DEF SocketComponents
  <2> HIDE DEF ids, n
  <2>3. SocketComponents(s) = [i \in 1..n |-> SocketComponents(s)[i]]
    BY <2>1, <2>2
  <2> QED
    BY <2>1, <2>3, FunctionIsSequence
<1> QED
  BY <1>1, <1>2

LEMMA DisksAreSequence ==
    ASSUME NEW rows \in Lists(Rows)
    PROVE  \E S : DiskComponents(rows) \in Seq(S)
<1> DEFINE found == {i \in DOMAIN rows : rows[i].disk}
           n == Cardinality(found)
<1>1. DOMAIN Sorted(found) = 1..n /\ n \in Nat
  BY ListTypes, ComponentPerMember
<1>2. DiskComponents(rows) =
        [i \in DOMAIN Sorted(found) |-> Disk(rows[Sorted(found)[i]])]
  BY DEF DiskComponents
<1> HIDE DEF found, n
<1>3. DiskComponents(rows) = [i \in 1..n |-> DiskComponents(rows)[i]]
  BY <1>1, <1>2
<1> QED
  BY <1>1, <1>3, FunctionIsSequence

LEMMA GpusAreSequence ==
    ASSUME NEW lspci \in Lists(Adapters), NEW nvidia
    PROVE  \E S : Gpus(lspci, nvidia) \in Seq(S)
<1> DEFINE found == {i \in DOMAIN lspci :
                       lspci[i] \notin {Blank, Junk} /\ lspci[i].display}
           n == Cardinality(found)
<1>1. DOMAIN Sorted(found) = 1..n /\ n \in Nat
  BY ListTypes, ComponentPerMember
<1>2. Displays(lspci) = Sorted(found)
  BY DEF Displays
<1> HIDE DEF found, n
<1>3. Gpus(lspci, nvidia) = [i \in 1..n |-> Gpus(lspci, nvidia)[i]]
  BY <1>1, <1>2 DEF Gpus
<1> QED
  BY <1>1, <1>3, FunctionIsSequence

LEMMA EveryStepBuilds == CollectorTypes /\ [Next]_vars => BuildGoes
<1> SUFFICES ASSUME CollectorTypes, [Next]_vars
             PROVE  BuildGoes
  OBVIOUS
<1>1. ASSUME NEW c \in AllCollectors, CollectorRaises(c)
      PROVE  BuildGoes
  BY <1>1 DEF BuildGoes
<1>2. ASSUME NEW c \in FactCollectors, NEW result, CollectFacts(c, result)
      PROVE  BuildGoes
  BY <1>2 DEF BuildGoes
<1>3. ASSUME NEW c \in ComponentCollectors, NEW result, CollectComponents(c, result),
             \E S : result \in Seq(S)
      PROVE  BuildGoes
  BY <1>3 DEF BuildGoes
<1>4. CASE UNCHANGED built
  BY <1>4 DEF BuildGoes
<1>5. /\ {"facts_agent", "facts_network", "facts_os", "facts_system"}
           \subseteq FactCollectors
      /\ {"cpu", "disks", "gpu", "memory", "nics"} \subseteq ComponentCollectors
      /\ AllCollectors = FactCollectors \cup ComponentCollectors
  BY CollectorAssumption DEF AllCollectors
<1>6. CASE BuildStep
  <2>1. CASE Build \/ \E list \in Imports : Register(list)
    BY <2>1 DEF BuildGoes
  <2>2. ASSUME NEW c \in ComponentCollectors, NEW n \in 0..2,
               CollectComponents(c, [i \in 1..n |-> c])
        PROVE  BuildGoes
    <3>1. [i \in 1..n |-> c] \in Seq({c})
      OBVIOUS
    <3> QED
      BY <1>3, <2>2, <3>1
  <2> QED
    BY <1>1, <1>2, <1>5, <1>6, <2>1, <2>2 DEF BuildStep, CollectAnything
<1>7. CASE BlankLine \/ JunkLine \/ (\E line \in Lines \ {Blank, Junk} : EntryLine(line))
  BY <1>4, <1>7 DEF BlankLine, JunkLine, EntryLine, NextLine
<1>8. CASE EndOfFile
  <2>1. SocketTypes(Flushed)
    BY <1>8, FlushedTypes DEF EndOfFile, CollectorTypes
  <2>2. \E S : SocketComponents(Flushed) \in Seq(S)
    BY <2>1, SocketsAreSequence
  <2> QED
    BY <1>3, <1>5, <1>8, <2>2 DEF EndOfFile
<1>9. CASE CpuRaises
  BY <1>1, <1>5, <1>9 DEF CpuRaises
<1>10. CASE NicsStep /\ ~EndWalk
  BY <1>4, <1>10 DEF NicsStep, ListDevices, Replug, SkipDevice, ReadAddress, ReadSpeed
<1>11. CASE EndWalk
  BY <1>3, <1>5, <1>11 DEF EndWalk, CollectorTypes
<1>12. CASE ReadRoute
  <2>1. \/ CollectFacts("facts_network", Nothing)
        \/ UNCHANGED built
    BY <1>12 DEF ReadRoute
  <2> QED
    BY <1>2, <1>4, <1>5, <2>1
<1>13. CASE ReadAddresses
  BY <1>2, <1>5, <1>13 DEF ReadAddresses
<1>14. CASE \E c \in HostFacts : CollectHostFacts(c)
  BY <1>2, <1>5, <1>14 DEF HostFacts, CollectHostFacts
<1>15. CASE CollectDisks
  BY <1>3, <1>5, <1>15, DisksAreSequence DEF CollectDisks
<1>16. CASE CollectGpus
  BY <1>1, <1>3, <1>5, <1>16, GpusAreSequence DEF CollectGpus
<1>17. CASE CollectMemory
  <2>1. PICK total : CollectComponents("memory", <<[slot |-> "system", size |-> total]>>)
    BY <1>17 DEF CollectMemory
  <2>2. <<[slot |-> "system", size |-> total]>>
          \in Seq({[slot |-> "system", size |-> total]})
    OBVIOUS
  <2> QED
    BY <1>3, <1>5, <2>1, <2>2
<1>18. CASE \E c \in Own : ReadFails(c)
  BY <1>1, <1>5, <1>18 DEF Own, HostFacts, ReadFails
<1>19. CASE UNCHANGED vars
  BY <1>4, <1>19 DEF vars
<1> QED
  BY <1>6, <1>7, <1>8, <1>9, <1>10, <1>11, <1>12, <1>13, <1>14, <1>15, <1>16, <1>17,
     <1>18, <1>19 DEF Next, CpuStep

\* A collector that has run adds its position to the results, and what the
\* others returned stays.
LEMMA ResultAppended ==
    ASSUME NEW S, NEW s \in Seq(S), NEW x
    PROVE  /\ Append(s, x) \in Seq(S \cup {x})
           /\ Len(Append(s, x)) = Len(s) + 1
           /\ Append(s, x)[Len(s) + 1] = x
           /\ \A i \in 1..Len(s) : Append(s, x)[i] = s[i]
<1>1. s \in Seq(S \cup {x})
  BY SeqDef
<1> QED
  BY <1>1

LEMMA TypesRun ==
    ASSUME BuildTypes, NEW c, NEW result, Runs(c),
           at' = at + 1, results' = Append(results, result), registry' = registry,
           failed' \in {failed, failed \cup {at}}
    PROVE  /\ BuildTypes'
           /\ at = Len(results) + 1
           /\ DOMAIN results = 1..(at - 1)
           /\ DOMAIN results' = 1..at
           /\ results'[at] = result
           /\ \A i \in 1..(at - 1) : results'[i] = results[i]
           /\ registry[at] = c
<1>1. PICK S : results \in Seq(S)
  BY DEF BuildTypes
<1>2. /\ at \in 1..Len(registry)
      /\ registry[at] = c
      /\ Len(results) = at - 1
      /\ Len(results) \in Nat
  BY <1>1 DEF BuildTypes, Runs
<1>3. /\ results' \in Seq(S \cup {result})
      /\ Len(results') = at
      /\ results'[at] = result
      /\ \A i \in 1..(at - 1) : results'[i] = results[i]
  BY <1>1, <1>2, ResultAppended
<1>4. BuildTypes'
  BY <1>2, <1>3 DEF BuildTypes
<1> QED
  BY <1>1, <1>2, <1>3, <1>4

-----------------------------------------------------------------------------
LEMMA FactsStep ==
    ASSUME SnapshotInv, NEW c \in FactCollectors, NEW result, CollectFacts(c, result)
    PROVE  SnapshotInv'
<1>1. /\ Runs(c)
      /\ results' = Append(results, result)
      /\ at' = at + 1 /\ registry' = registry /\ failed' = failed
      /\ facts' = [k \in DOMAIN facts \cup DOMAIN result |->
                     IF k \in DOMAIN facts THEN facts[k] ELSE result[k]]
  BY DEF CollectFacts, Finish
<1>2. /\ BuildTypes'
      /\ at = Len(results) + 1
      /\ DOMAIN results = 1..(at - 1)
      /\ DOMAIN results' = 1..at
      /\ results'[at] = result
      /\ \A i \in 1..(at - 1) : results'[i] = results[i]
      /\ registry[at] = c
  BY <1>1, TypesRun DEF SnapshotInv
<1>3. at \in Nat /\ at \notin failed
  BY <1>2 DEF SnapshotInv, BuildTypes
<1> DEFINE Old == Survivors(FactCollectors)
<1>4. Survivors(FactCollectors)' = Old \cup {at}
  BY <1>1, <1>2, <1>3 DEF Survivors
<1>5. /\ Old \subseteq 1..(at - 1)
      /\ \A i \in Old : results'[i] = results[i]
  BY <1>2 DEF Survivors
<1>6. /\ \A k \in DOMAIN facts : \E i \in Old : k \in DOMAIN results[i]
      /\ \A i \in Old : \A k \in DOMAIN results[i] :
           /\ k \in DOMAIN facts
           /\ (\A j \in Old : k \in DOMAIN results[j] => i <= j)
                => facts[k] = results[i][k]
  BY DEF SnapshotInv, FirstFactWins
<1> HIDE DEF Old
<1>7. ASSUME NEW k \in DOMAIN facts'
      PROVE  \E i \in Old \cup {at} : k \in DOMAIN results'[i]
  <2>1. CASE k \in DOMAIN facts
    BY <2>1, <1>5, <1>6
  <2>2. CASE k \in DOMAIN result
    BY <2>2, <1>2
  <2> QED
    BY <1>1, <1>7, <2>1, <2>2
<1>8. ASSUME NEW i \in Old \cup {at}, NEW k \in DOMAIN results'[i]
      PROVE  /\ k \in DOMAIN facts'
             /\ (\A j \in Old \cup {at} : k \in DOMAIN results'[j] => i <= j)
                  => facts'[k] = results'[i][k]
  <2>1. CASE i \in Old
    <3>1. k \in DOMAIN results[i]
      BY <1>5, <1>8, <2>1
    <3>2. k \in DOMAIN facts
      BY <1>6, <2>1, <3>1
    <3>3. k \in DOMAIN facts' /\ facts'[k] = facts[k]
      BY <1>1, <3>2
    <3>4. ASSUME \A j \in Old \cup {at} : k \in DOMAIN results'[j] => i <= j
          PROVE  facts'[k] = results'[i][k]
      <4>1. \A j \in Old : k \in DOMAIN results[j] => i <= j
        BY <1>5, <3>4
      <4> QED
        BY <1>5, <1>6, <2>1, <3>1, <3>3, <4>1
    <3> QED
      BY <3>3, <3>4
  <2>2. CASE i = at
    <3>1. k \in DOMAIN result
      BY <1>2, <1>8, <2>2
    <3>2. k \in DOMAIN facts'
      BY <1>1, <3>1
    <3>3. ASSUME \A j \in Old \cup {at} : k \in DOMAIN results'[j] => at <= j
          PROVE  k \notin DOMAIN facts
      <4>1. \A j \in Old : k \notin DOMAIN results[j]
        BY <1>3, <1>5, <3>3
      <4> QED
        BY <1>6, <4>1
    <3> QED
      BY <1>1, <1>2, <2>2, <3>1, <3>2, <3>3
  <2> QED
    BY <1>8, <2>1, <2>2
<1> QED
  BY <1>2, <1>4, <1>7, <1>8 DEF SnapshotInv, FirstFactWins

\* Neither the components of a collector nor a failure adds to the facts or to
\* the collectors that have some.
LEMMA OthersStep ==
    ASSUME SnapshotInv, NEW c, NEW result, Runs(c),
           at' = at + 1, results' = Append(results, result), registry' = registry,
           facts' = facts,
           \/ c \notin FactCollectors /\ failed' = failed
           \/ failed' = failed \cup {at}
    PROVE  SnapshotInv'
<1>1. /\ BuildTypes'
      /\ at = Len(results) + 1
      /\ DOMAIN results = 1..(at - 1)
      /\ DOMAIN results' = 1..at
      /\ \A i \in 1..(at - 1) : results'[i] = results[i]
      /\ registry[at] = c
  BY TypesRun DEF SnapshotInv
<1>2. at \in Nat
  BY DEF SnapshotInv, BuildTypes
<1>3. Survivors(FactCollectors)' = Survivors(FactCollectors)
  BY <1>1, <1>2 DEF Survivors
<1>4. \A i \in Survivors(FactCollectors) : results'[i] = results[i]
  BY <1>1 DEF Survivors
<1>5. ASSUME NEW k \in DOMAIN facts'
      PROVE  \E i \in Survivors(FactCollectors)' : k \in DOMAIN results'[i]
  <2>1. \E i \in Survivors(FactCollectors) : k \in DOMAIN results[i]
    BY <1>5 DEF SnapshotInv, FirstFactWins
  <2> QED
    BY <1>3, <1>4, <2>1
<1>6. ASSUME NEW i \in Survivors(FactCollectors)', NEW k \in DOMAIN results'[i]
      PROVE  /\ k \in DOMAIN facts'
             /\ (\A j \in Survivors(FactCollectors)' :
                   k \in DOMAIN results'[j] => i <= j)
                  => facts'[k] = results'[i][k]
  <2>1. i \in Survivors(FactCollectors) /\ k \in DOMAIN results[i]
    BY <1>3, <1>4, <1>6
  <2>2. /\ k \in DOMAIN facts
        /\ (\A j \in Survivors(FactCollectors) :
              k \in DOMAIN results[j] => i <= j)
             => facts[k] = results[i][k]
    BY <2>1 DEF SnapshotInv, FirstFactWins
  <2> QED
    BY <1>3, <1>4, <2>1, <2>2
<1>7. FirstFactWins'
  BY <1>5, <1>6 DEF FirstFactWins
<1> QED
  BY <1>1, <1>7 DEF SnapshotInv

\* Before build(), and when it begins, there is nothing to say.
LEMMA EmptySnapshot ==
    ASSUME results = <<>>, facts = <<>>
    PROVE  FirstFactWins
<1>1. DOMAIN results = {} /\ DOMAIN facts = {}
  OBVIOUS
<1> QED
  BY <1>1 DEF FirstFactWins, Survivors

LEMMA SnapshotStep == SnapshotInv /\ CollectorTypes /\ [Next]_vars => SnapshotInv'
<1> SUFFICES ASSUME SnapshotInv, BuildGoes
             PROVE  SnapshotInv'
  BY EveryStepBuilds
<1> USE SnapshotAssumption
<1>1. ASSUME NEW list \in Imports, Register(list)
      PROVE  SnapshotInv'
  <2>1. at = 0 /\ UNCHANGED <<at, facts, components, results, failed>>
    BY <1>1 DEF Register
  <2>2. registry' = Append(registry, list[Len(registry) + 1])
    BY <1>1 DEF Register
  <2>3. list \in Seq(AllCollectors) /\ IsStrictPrefix(registry, list)
    BY <1>1 DEF Register
  <2>4. registry' \in Seq(AllCollectors)
    BY <2>2, <2>3 DEF IsStrictPrefix, IsPrefix, SnapshotInv, BuildTypes
  <2>5. PICK S : results \in Seq(S)
    BY DEF SnapshotInv, BuildTypes
  <2>6. results = <<>>
    BY <2>1, <2>5 DEF SnapshotInv, BuildTypes
  <2>7. DOMAIN facts = {}
    <3>1. Survivors(FactCollectors) = {}
      BY <2>6 DEF Survivors
    <3> QED
      BY <3>1 DEF SnapshotInv, FirstFactWins
  <2>8. DOMAIN facts' = {} /\ Survivors(FactCollectors)' = {}
    BY <2>1, <2>6, <2>7 DEF Survivors
  <2>9. FirstFactWins'
    BY <2>8 DEF FirstFactWins
  <2> QED
    BY <2>1, <2>4, <2>5, <2>6, <2>9 DEF SnapshotInv, BuildTypes
<1>2. CASE Build
  <2>1. /\ at' = 1 /\ registry' = registry
        /\ facts' = <<>> /\ results' = <<>> /\ failed' = {}
    BY <1>2 DEF Build, Nothing
  <2>2. FirstFactWins'
    <3>1. DOMAIN results' = {} /\ DOMAIN facts' = {}
      BY <2>1
    <3> QED
      BY <3>1 DEF FirstFactWins, Survivors
  <2>3. results' \in Seq({}) /\ Len(results') = 0
    BY <2>1
  <2> QED
    BY <2>1, <2>2, <2>3 DEF SnapshotInv, BuildTypes
<1>3. ASSUME NEW c \in FactCollectors, NEW result, CollectFacts(c, result)
      PROVE  SnapshotInv'
  BY <1>3, FactsStep
<1>4. ASSUME NEW c \in ComponentCollectors, NEW result, CollectComponents(c, result)
      PROVE  SnapshotInv'
  <2>1. /\ Runs(c) /\ at' = at + 1 /\ results' = Append(results, result)
        /\ registry' = registry /\ facts' = facts /\ failed' = failed
    BY <1>4 DEF CollectComponents, Finish
  <2>2. c \notin FactCollectors
    OBVIOUS
  <2> QED
    BY <2>1, <2>2, OthersStep
<1>5. ASSUME NEW c \in AllCollectors, CollectorRaises(c)
      PROVE  SnapshotInv'
  <2>1. /\ Runs(c) /\ at' = at + 1 /\ results' = Append(results, Nothing)
        /\ registry' = registry /\ facts' = facts /\ failed' = failed \cup {at}
    BY <1>5 DEF CollectorRaises
  <2> QED
    BY <2>1, OthersStep
<1>6. CASE UNCHANGED built
  BY <1>6 DEF built, SnapshotInv, BuildTypes, FirstFactWins, Survivors
<1> QED
  BY <1>1, <1>2, <1>3, <1>4, <1>5, <1>6 DEF BuildGoes

LEMMA SnapshotInvariant == Spec => []SnapshotInv
<1>1. CollectorsInit => SnapshotInv
  <2> SUFFICES ASSUME CollectorsInit
               PROVE  SnapshotInv
    OBVIOUS
  <2>1. /\ registry = <<>> /\ at = 0 /\ failed = {}
        /\ results = <<>> /\ facts = <<>>
    BY DEF CollectorsInit, Init, Nothing
  <2>2. FirstFactWins
    BY <2>1, EmptySnapshot
  <2>3. results \in Seq({}) /\ Len(results) = 0
    BY <2>1
  <2> QED
    BY <2>1, <2>2, <2>3 DEF SnapshotInv, BuildTypes
<1> QED
  BY <1>1, SnapshotStep, CollectorTypesHold, PTL DEF Spec

\* Whatever the collectors return, and whichever of them raise: every fact of
\* a snapshot is that of the first collector that has it (snapshot.py, the
\* membership test before a fact is kept).
THEOREM FirstCollectorWins == Spec => []FirstFactWins
<1>1. SnapshotInv => FirstFactWins
  BY DEF SnapshotInv
<1> QED
  BY <1>1, SnapshotInvariant, PTL

-----------------------------------------------------------------------------
(* What the collectors contribute.                                         *)

\* What each collector that has run adds to the components.
Contributions ==
    [i \in DOMAIN results |->
       IF i \in Survivors(ComponentCollectors) THEN results[i] ELSE <<>>]

ContributionInv ==
    /\ IsInjective(registry)
    /\ \E S : Contributions \in Seq(Seq(S)) /\ components = FlattenSeq(Contributions)

\* A collector that has run contributes what it returned, or nothing.
LEMMA ContributionAppended ==
    ASSUME BuildTypes, ContributionInv, NEW c, NEW result, Runs(c), NEW S,
           at' = at + 1, results' = Append(results, result), registry' = registry,
           \/ c \in ComponentCollectors /\ failed' = failed /\ result \in Seq(S)
              /\ components' = components \o result
           \/ c \notin ComponentCollectors /\ failed' = failed
              /\ components' = components
           \/ failed' = failed \cup {at} /\ components' = components
    PROVE  ContributionInv'
<1> DEFINE t == IF c \in ComponentCollectors /\ failed' = failed THEN result ELSE <<>>
<1>1. /\ at = Len(results) + 1
      /\ DOMAIN results = 1..(at - 1)
      /\ DOMAIN results' = 1..at
      /\ results'[at] = result
      /\ \A i \in 1..(at - 1) : results'[i] = results[i]
      /\ registry[at] = c
  BY TypesRun
<1>2. at \in Nat \ {0} /\ at \notin failed
  BY <1>1 DEF BuildTypes, Runs
<1>3. PICK T : Contributions \in Seq(Seq(T)) /\ components = FlattenSeq(Contributions)
  BY DEF ContributionInv
<1>4. t \in Seq(S)
  <2>1. <<>> \in Seq(S)
    OBVIOUS
  <2> QED
    BY <1>2, <2>1
<1>5. at \in Survivors(ComponentCollectors)' <=> c \in ComponentCollectors /\ failed' = failed
  BY <1>1, <1>2 DEF Survivors
<1>6. \A i \in 1..(at - 1) : i \in Survivors(ComponentCollectors)'
                                <=> i \in Survivors(ComponentCollectors)
  BY <1>1, <1>2 DEF Survivors
<1>7. Contributions' = [i \in 1..at |-> IF i = at THEN t ELSE Contributions[i]]
  <2>1. Contributions' = [i \in 1..at |-> IF i \in Survivors(ComponentCollectors)'
                                          THEN results'[i] ELSE <<>>]
    BY <1>1 DEF Contributions
  <2>2. ASSUME NEW i \in 1..at
        PROVE  (IF i \in Survivors(ComponentCollectors)' THEN results'[i] ELSE <<>>)
                 = IF i = at THEN t ELSE Contributions[i]
    <3>1. CASE i = at
      BY <1>1, <1>5, <3>1
    <3>2. CASE i # at
      <4>1. i \in 1..(at - 1)
        BY <1>2, <3>2
      <4> QED
        BY <1>1, <1>6, <3>2, <4>1 DEF Contributions
    <3> QED
      BY <3>1, <3>2
  <2> QED
    BY <2>1, <2>2
<1>8. DOMAIN Contributions = 1..(at - 1)
  BY <1>1 DEF Contributions
<1> DEFINE U == T \cup S
<1>9. Contributions \in Seq(Seq(U)) /\ t \in Seq(U) /\ components \in Seq(U)
  <2>1. t \in Seq(U)
    BY <1>4, SeqMonotonic
  <2>2. Seq(T) \subseteq Seq(U)
    BY SeqMonotonic
  <2>3. Contributions \in Seq(Seq(U))
    BY <1>3, <2>2, SeqMonotonic
  <2>4. FlattenSeq(Contributions) \in Seq(U)
    BY <2>1, <2>3, FlattenAppend
  <2> QED
    BY <1>3, <2>1, <2>3, <2>4
<1> HIDE DEF t, U
<1>10. Len(Contributions) = at - 1
  BY <1>2, <1>8, <1>9, LenProperties
<1>11. Contributions' = Append(Contributions, t)
  <2> DEFINE more == Append(Contributions, t)
  <2>1. /\ more \in Seq(Seq(U)) /\ Len(more) = at
        /\ more[at] = t
        /\ \A i \in 1..(at - 1) : more[i] = Contributions[i]
    BY <1>2, <1>9, <1>10
  <2> HIDE DEF more
  <2>2. more = [i \in 1..at |-> more[i]]
    BY <2>1
  <2>3. \A i \in 1..at : more[i] = IF i = at THEN t ELSE Contributions[i]
    BY <1>2, <2>1
  <2> QED
    BY <1>7, <2>2, <2>3 DEF more
<1>12. FlattenSeq(Contributions') = FlattenSeq(Contributions) \o t
  BY <1>9, <1>11, FlattenAppend
<1>13. components' = components \o t
  <2>1. components \o <<>> = components
    BY <1>9
  <2> QED
    BY <1>2, <2>1 DEF t
<1>14. Contributions' \in Seq(Seq(U))
  BY <1>9, <1>11
<1> QED
  BY <1>3, <1>12, <1>13, <1>14 DEF ContributionInv

LEMMA ContributionStep ==
    ASSUME BuildTypes, ContributionInv, BuildGoes
    PROVE  ContributionInv'
<1> USE SnapshotAssumption
<1>1. ASSUME NEW list \in Imports, Register(list)
      PROVE  ContributionInv'
  <2> DEFINE new == list[Len(registry) + 1]
  <2>1. /\ at = 0 /\ UNCHANGED <<at, components, results, failed>>
        /\ registry' = Append(registry, new) /\ new \notin Range(registry)
    BY <1>1 DEF Register
  <2> HIDE DEF new
  <2>2. registry \in Seq(AllCollectors) /\ results = <<>>
    BY <2>1 DEF BuildTypes
  <2>3. components = <<>>
    <3>1. Contributions = <<>>
      BY <2>2 DEF Contributions
    <3> QED
      BY <3>1, FlattenEmpty DEF ContributionInv
  <2>4. IsInjective(registry')
    <3>1. \A i \in 1..Len(registry) : registry[i] # new
      BY <2>1, <2>2 DEF Range
    <3>2. \A i, j \in 1..Len(registry) : registry[i] = registry[j] => i = j
      BY <2>2 DEF ContributionInv, IsInjective
    <3>3. /\ DOMAIN registry' = 1..(Len(registry) + 1)
          /\ registry'[Len(registry) + 1] = new
          /\ \A i \in 1..Len(registry) : registry'[i] = registry[i]
      BY <2>1, <2>2, ResultAppended, LenProperties
    <3>4. Len(registry) \in Nat
      BY <2>2
    <3> QED
      BY <3>1, <3>2, <3>3, <3>4 DEF IsInjective
  <2>5. results' = <<>> /\ components' = <<>>
    BY <2>1, <2>2, <2>3
  <2>6. Contributions' = <<>> /\ <<>> \in Seq(Seq({}))
    BY <2>5 DEF Contributions
  <2> QED
    BY <2>4, <2>5, <2>6, FlattenEmpty DEF ContributionInv
<1>2. CASE Build
  <2>1. results' = <<>> /\ components' = <<>> /\ registry' = registry
    BY <1>2 DEF Build
  <2>2. IsInjective(registry)'
    BY <2>1 DEF ContributionInv, IsInjective
  <2>3. Contributions' = <<>> /\ <<>> \in Seq(Seq({}))
    BY <2>1 DEF Contributions
  <2> QED
    BY <2>1, <2>2, <2>3, FlattenEmpty DEF ContributionInv
<1>3. ASSUME NEW c \in FactCollectors, NEW result, CollectFacts(c, result)
      PROVE  ContributionInv'
  <2>1. /\ Runs(c) /\ at' = at + 1 /\ results' = Append(results, result)
        /\ registry' = registry /\ components' = components /\ failed' = failed
    BY <1>3 DEF CollectFacts, Finish
  <2>2. c \notin ComponentCollectors
    OBVIOUS
  <2> QED
    BY <2>1, <2>2, ContributionAppended
<1>4. ASSUME NEW c \in ComponentCollectors, NEW S, NEW result \in Seq(S),
             CollectComponents(c, result)
      PROVE  ContributionInv'
  <2>1. /\ Runs(c) /\ at' = at + 1 /\ results' = Append(results, result)
        /\ registry' = registry /\ components' = components \o result
        /\ failed' = failed
    BY <1>4 DEF CollectComponents, Finish
  <2> QED
    BY <2>1, ContributionAppended
<1>5. ASSUME NEW c \in AllCollectors, CollectorRaises(c)
      PROVE  ContributionInv'
  <2>1. /\ Runs(c) /\ at' = at + 1 /\ results' = Append(results, Nothing)
        /\ registry' = registry /\ components' = components
        /\ failed' = failed \cup {at}
    BY <1>5 DEF CollectorRaises
  <2> QED
    BY <2>1, ContributionAppended
<1>6. CASE UNCHANGED built
  BY <1>6 DEF built, ContributionInv, Contributions, Survivors, IsInjective
<1> QED
  BY <1>1, <1>2, <1>3, <1>4, <1>5, <1>6 DEF BuildGoes

\* Whatever the collectors return, and whichever of them raise: the components
\* of a snapshot are those of the collectors that did not, in the order of
\* their registration, and no collector is registered twice (snapshot.py, the
\* extend; base.py, the look at the names).
THEOREM ComponentsAddUp == Spec => []EachContributesOnce
<1>1. CollectorsInit => ContributionInv
  <2> SUFFICES ASSUME CollectorsInit
               PROVE  ContributionInv
    OBVIOUS
  <2>1. registry = <<>> /\ results = <<>> /\ components = <<>>
    BY DEF CollectorsInit, Init
  <2>2. IsInjective(registry)
    BY <2>1 DEF IsInjective
  <2>3. Contributions = <<>> /\ <<>> \in Seq(Seq({}))
    BY <2>1 DEF Contributions
  <2> QED
    BY <2>1, <2>2, <2>3, FlattenEmpty DEF ContributionInv
<1>2. ContributionInv => EachContributesOnce
  BY DEF ContributionInv, EachContributesOnce, Contributions
<1>3. SnapshotInv /\ CollectorTypes /\ ContributionInv /\ [Next]_vars => ContributionInv'
  BY EveryStepBuilds, ContributionStep DEF SnapshotInv
<1> QED
  BY <1>1, <1>2, <1>3, SnapshotInvariant, CollectorTypesHold, PTL DEF Spec

\* The variables have their types (inventory/*.py, and build()).
THEOREM CollectorsTypeCorrect == Spec => []TypeOK
<1>1. SnapshotInv /\ CollectorTypes => TypeOK
  <2> SUFFICES ASSUME SnapshotInv, CollectorTypes
               PROVE  TypeOK
    OBVIOUS
  <2>1. Range(devices) \subseteq Devices
    BY DEF Range, CollectorTypes
  <2> QED
    BY <2>1 DEF SnapshotInv, BuildTypes, CollectorTypes, SocketTypes, TypeOK
<1> QED
  BY <1>1, SnapshotInvariant, CollectorTypesHold, PTL
=============================================================================
