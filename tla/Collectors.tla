----------------------------- MODULE Collectors -----------------------------
(***************************************************************************)
(* What the collectors of the repository make of the machine, under        *)
(* build().  Files and the output of commands are sequences of parsed      *)
(* lines.  Two collectors read the machine in several steps, between which *)
(* it may change: the network devices, and the default route with its      *)
(* addresses.  The cpu parser goes line by line.                           *)
(***************************************************************************)
EXTENDS Snapshot, FiniteSetsExt

CONSTANTS
    SocketIds,   \* values of `physical id'
    Models,      \* values of `model name'
    Numbers,     \* values of a text that should be a number
    MaxLines,    \* bound on the lines of /proc/cpuinfo
    MaxItems,    \* bound on the lines and lists of the other collectors
    Interfaces,  \* names of network devices, numbered in their order
    Virtual,     \* the ones whose name has a virtual prefix
    Macs,
    Speeds,      \* what the speed of a device may read as
    Parts,       \* names of disks and PCI addresses
    Bad,         \* text that is no number
    Blank,       \* a line of white space
    Junk,        \* a line without the expected fields
    None

ASSUME CollectorAssumption ==
    /\ SocketIds \subseteq Nat
    /\ Numbers \subseteq Nat \cup {Bad}
    /\ Bad \notin Nat
    /\ MaxLines \in Nat
    /\ MaxItems \in Nat
    /\ Interfaces \subseteq Nat
    /\ IsFiniteSet(Interfaces)
    /\ Virtual \subseteq Interfaces
    /\ Speeds \subseteq Numbers
    /\ None \notin Interfaces
    /\ None \notin Seq(Interfaces)
    /\ Blank # Junk
    /\ {"facts_agent", "facts_network", "facts_os", "facts_system"}
         \subseteq FactCollectors
    /\ {"cpu", "disks", "gpu", "memory", "nics"} \subseteq ComponentCollectors

VARIABLES
    text,     \* cpu: the lines of /proc/cpuinfo so far
    current,  \* the entries of the block being read
    sockets,  \* the sockets so far
    devices,  \* nics: the network devices of the machine
    walk,     \* the devices the walk has still to visit, None before it
    mac,      \* the address read of the device being visited, or None
    nics,     \* the components so far
    seen,     \* history: the devices there were during the walk
    stayed,   \* history: the ones there all the time
    iface     \* facts_network: the interface of the default route, or None

parser == <<text, current, sockets>>
scan == <<devices, walk, mac, nics, seen, stayed>>
vars == <<built, parser, scan, iface>>

Lists(S) == SeqOf(S, MaxItems)

\* d[k] = v.
Put(d, k, v) == [x \in DOMAIN d \cup {k} |-> IF x = k THEN v ELSE d[x]]

\* sorted(), of a finite set of numbers.
Sorted(S) ==
    CHOOSE s \in [1..Cardinality(S) -> S] :
      \A i, j \in 1..Cardinality(S) : i < j => s[i] < s[j]

\* A number, 0 for other text and for the -1 of a link that is down.
NumberOr0(n) == IF n = Bad THEN 0 ELSE n

-----------------------------------------------------------------------------
(* cpu.collect: _parse_cpuinfo, then one component per socket.             *)

\* The keys that matter, with an underscore for the space.
Lines ==
    {Blank, Junk}
      \cup [key : {"physical_id"}, value : SocketIds]
      \cup [key : {"cpu_cores", "cpu_MHz"}, value : Numbers]
      \cup [key : {"model_name"}, value : Models]

Get(block, key, default) == IF key \in DOMAIN block THEN block[key] ELSE default

\* int() of `cpu cores' is not guarded.
FlushRaises == Get(current, "cpu_cores", 0) = Bad

\* _flush: nothing read makes no entry; a block counts as one thread.
Flushed ==
    LET id    == Get(current, "physical_id", 0)
        entry == IF id \in DOMAIN sockets THEN sockets[id]
                 ELSE [model |-> Get(current, "model_name", None),
                       threads |-> 0, cores |-> 0, mhz |-> 0]
    IN  IF current = Nothing THEN sockets
        ELSE Put(sockets, id,
                 [entry EXCEPT
                    !.threads = @ + 1,
                    !.cores = Max({@, Get(current, "cpu_cores", 0)}),
                    !.mhz = Max({@, NumberOr0(Get(current, "cpu_MHz", 0))})])

\* The next line of the file.
NextLine(line) ==
    /\ Runs("cpu")
    /\ Len(text) < MaxLines
    /\ text' = Append(text, line)
    /\ UNCHANGED <<built, scan, iface>>

\* Mutant of BlankLine: the entries of a block stay for the next one.
BlankKeeps ==
    /\ NextLine(Blank)
    /\ ~FlushRaises
    /\ sockets' = Flushed
    /\ UNCHANGED current

BlankLine ==
    /\ NextLine(Blank)
    /\ ~FlushRaises
    /\ sockets' = Flushed
    /\ current' = Nothing

JunkLine ==
    /\ NextLine(Junk)
    /\ UNCHANGED <<current, sockets>>

\* A key that comes again in its block replaces the entry.
EntryLine(line) ==
    /\ NextLine(line)
    /\ current' = Put(current, line.key, line.value)
    /\ UNCHANGED sockets

\* The call is over, and its variables are gone.
ForgetText ==
    /\ text' = <<>>
    /\ current' = Nothing
    /\ sockets' = Nothing
    /\ UNCHANGED <<scan, iface>>

\* What psutil says when the file has no entry.
Fallback == [model |-> None, threads |-> 1, cores |-> 1, mhz |-> 0]

\* By socket id; a socket has at least one core.
SocketComponents(s) ==
    IF s = Nothing THEN <<[id |-> 0, socket |-> Fallback]>>
    ELSE LET ids == Sorted(DOMAIN s)
         IN  [i \in DOMAIN ids |->
                [id |-> ids[i],
                 socket |-> [s[ids[i]] EXCEPT !.cores = Max({1, @})]]]

\* Mutant of EndOfFile: no flush after the loop.
EndUnflushed ==
    /\ CollectComponents("cpu", SocketComponents(sockets))
    /\ ForgetText

EndOfFile ==
    /\ ~FlushRaises
    /\ CollectComponents("cpu", SocketComponents(Flushed))
    /\ ForgetText

\* A blank line, or the end of the file, after a bad `cpu cores'.
CpuRaises ==
    /\ FlushRaises
    /\ CollectorRaises("cpu")
    /\ ForgetText

-----------------------------------------------------------------------------
(* nics.collect: the directory is listed once, and each device read when   *)
(* its turn comes.                                                         *)

Devices == [mac : Macs \cup {None}, speed : Speeds]

\* The devices that are reported: not virtual, and with an address.
Reportable(d) ==
    {<<n, d[n].mac>> : n \in {m \in DOMAIN d \ Virtual : d[m].mac # None}}

ListDevices ==
    /\ Runs("nics")
    /\ walk = None
    /\ \E present \in SUBSET Interfaces : devices' \in [present -> Devices]
    /\ walk' = Sorted(DOMAIN devices')
    /\ seen' = Reportable(devices')
    /\ stayed' = Reportable(devices')
    /\ UNCHANGED <<built, parser, mac, nics, iface>>

\* External: a device goes, comes, or gets another address.  A virtual one is
\* not looked at, and stays.
Replug(n) ==
    /\ Runs("nics")
    /\ walk \notin {None, <<>>}
    /\ devices' \in {Restrict(devices, DOMAIN devices \ {n})}
                      \cup {Put(devices, n, d) : d \in Devices}
    /\ seen' = seen \cup Reportable(devices')
    /\ stayed' = stayed \cap Reportable(devices')
    /\ UNCHANGED <<built, parser, walk, mac, nics, iface>>

\* A virtual name, or an address that is not there or no MAC: on to the next.
SkipDevice ==
    /\ Runs("nics")
    /\ walk \notin {None, <<>>}
    /\ mac = None
    /\ Head(walk) \notin {r[1] : r \in Reportable(devices)}
    /\ walk' = Tail(walk)
    /\ UNCHANGED <<built, parser, devices, mac, nics, seen, stayed, iface>>

ReadAddress ==
    /\ Runs("nics")
    /\ walk \notin {None, <<>>}
    /\ mac = None
    /\ \E r \in Reportable(devices) : r[1] = Head(walk) /\ mac' = r[2]
    /\ UNCHANGED <<built, parser, devices, walk, nics, seen, stayed, iface>>

\* Mutant of ReadSpeed: the address is read again when the device is reported.
ReadTwice ==
    /\ Runs("nics")
    /\ mac # None
    /\ nics' = Append(nics,
         [slot |-> Head(walk),
          serial |-> IF Head(walk) \in DOMAIN devices THEN devices[Head(walk)].mac
                     ELSE None,
          speed |-> 0])
    /\ walk' = Tail(walk)
    /\ mac' = None
    /\ UNCHANGED <<built, parser, devices, seen, stayed, iface>>

\* The speed, 0 if the device has gone since, and the component.
ReadSpeed ==
    /\ Runs("nics")
    /\ mac # None
    /\ nics' = Append(nics,
         [slot |-> Head(walk),
          serial |-> mac,
          speed |-> IF Head(walk) \in DOMAIN devices
                    THEN NumberOr0(devices[Head(walk)].speed) ELSE 0])
    /\ walk' = Tail(walk)
    /\ mac' = None
    /\ UNCHANGED <<built, parser, devices, seen, stayed, iface>>

EndWalk ==
    /\ walk = <<>>
    /\ CollectComponents("nics", nics)
    /\ devices' = Nothing
    /\ walk' = None
    /\ nics' = <<>>
    /\ seen' = {}
    /\ stayed' = {}
    /\ UNCHANGED <<parser, mac, iface>>

-----------------------------------------------------------------------------
(* facts_network.collect: the route, then the addresses.                   *)

RouteLines == {Junk} \cup [iface : Interfaces, default : BOOLEAN]

Addresses == [family : {4, 6}, local : BOOLEAN, host : {1, 2}]

IsDefault(line) == line # Junk /\ line.default

\* The first line is the header.
DefaultInterface(lines) ==
    LET defaults == {i \in DOMAIN lines \ {1} : IsDefault(lines[i])}
    IN  IF defaults = {} THEN None ELSE lines[Min(defaults)].iface

ReadRoute ==
    /\ Runs("facts_network")
    /\ iface = None
    /\ \E lines \in Lists(RouteLines) :
         LET found == DefaultInterface(<<Junk>> \o lines) IN
         IF found = None
         THEN CollectFacts("facts_network", Nothing) /\ UNCHANGED iface
         ELSE iface' = found /\ UNCHANGED built
    /\ UNCHANGED <<parser, scan>>

\* Mutant of AddAddress: the first of each family, link-local or not.
AddAnyAddress(f, a) ==
    LET fact == IF a.family = 4 THEN "primary_ipv4" ELSE "primary_ipv6"
    IN  IF fact \in DOMAIN f THEN f ELSE Put(f, fact, a)

\* The fact that is there is kept; a link-local IPv6 address is no fact.
AddAddress(f, a) ==
    CASE a.family = 4 /\ "primary_ipv4" \notin DOMAIN f
           -> Put(f, "primary_ipv4", a)
      [] a.family = 6 /\ ~a.local /\ "primary_ipv6" \notin DOMAIN f
           -> Put(f, "primary_ipv6", a)
      [] OTHER
           -> f

\* Of an interface that has gone since there is no address.
NetworkFacts(addresses) ==
    FoldLeft(AddAddress, Put(Nothing, "default_iface", iface), addresses)

ReadAddresses ==
    /\ iface # None
    /\ \E addresses \in Lists(Addresses) :
         CollectFacts("facts_network", NetworkFacts(addresses))
    /\ iface' = None
    /\ UNCHANGED <<parser, scan>>

-----------------------------------------------------------------------------
(* The collectors that read all at once.                                   *)

\* The facts that are always there, and the ones that need not be.
Always(c) ==
    CASE c = "facts_agent"  -> {"agent_version"}
      [] c = "facts_os"     -> {"kernel"}
      [] c = "facts_system" -> {"hostname", "arch", "boot_time"}

Optional(c) ==
    CASE c = "facts_agent"  -> {}
      [] c = "facts_os"     -> {"os_id", "os_name", "os_version"}
      [] c = "facts_system" -> {"fqdn", "machine_id", "boot_id", "virtualization"}

CollectHostFacts(c) ==
    /\ \E keys \in SUBSET Optional(c) :
         CollectFacts(c, [k \in Always(c) \cup keys |-> c])
    /\ UNCHANGED <<parser, scan, iface>>

\* The rows of lsblk; a disk has a name.
Rows == [disk : BOOLEAN, name : Parts, spins : BOOLEAN, size : Numbers]

Disk(row) ==
    [slot |-> row.name, size |-> NumberOr0(row.size),
     rpm |-> IF row.spins THEN 7200 ELSE 0]

DiskComponents(rows) ==
    LET disks == Sorted({i \in DOMAIN rows : rows[i].disk})
    IN  [i \in DOMAIN disks |-> Disk(rows[disks[i]])]

CollectDisks ==
    /\ \E rows \in Lists(Rows) : CollectComponents("disks", DiskComponents(rows))
    /\ UNCHANGED <<parser, scan, iface>>

\* The lines of lspci, and what nvidia-smi prints: nothing at all (None), white
\* space, or the memory of the first card.
Adapters == {Blank, Junk} \cup [address : Parts, display : BOOLEAN]

Displays(lspci) ==
    Sorted({i \in DOMAIN lspci : lspci[i] \notin {Blank, Junk} /\ lspci[i].display})

Gpus(lspci, nvidia) ==
    [i \in DOMAIN Displays(lspci) |->
       [slot |-> lspci[Displays(lspci)[i]].address,
        vram |-> IF nvidia = None THEN 0 ELSE NumberOr0(nvidia)]]

\* Without a display nvidia-smi is not asked; white space has no first line.
CollectGpus ==
    /\ \E lspci \in Lists(Adapters), nvidia \in Numbers \cup {None, Blank} :
         IF nvidia = Blank /\ Displays(lspci) # <<>>
         THEN CollectorRaises("gpu")
         ELSE CollectComponents("gpu", Gpus(lspci, nvidia))
    /\ UNCHANGED <<parser, scan, iface>>

CollectMemory ==
    /\ \E total \in Numbers \ {Bad} :
         CollectComponents("memory", <<[slot |-> "system", size |-> total]>>)
    /\ UNCHANGED <<parser, scan, iface>>

\* A file, a command or psutil fails where the collector does not catch it.
ReadFails(c) ==
    /\ c \notin {"facts_agent", "gpu"}
    /\ text = <<>>
    /\ walk = None
    /\ CollectorRaises(c)
    /\ iface' = None
    /\ UNCHANGED <<parser, scan>>

-----------------------------------------------------------------------------
HostFacts == {"facts_agent", "facts_os", "facts_system"}

Own == HostFacts \cup {"cpu", "disks", "facts_network", "gpu", "memory", "nics"}

\* build() over the registry, and collectors that are not of the repository.
BuildStep ==
    /\ \/ \E list \in Imports : Register(list)
       \/ Build
       \/ \E c \in AllCollectors \ Own : CollectAnything(c)
    /\ UNCHANGED <<parser, scan, iface>>

CpuStep ==
    \/ BlankLine
    \/ JunkLine
    \/ \E line \in Lines \ {Blank, Junk} : EntryLine(line)
    \/ EndOfFile
    \/ CpuRaises

NicsStep ==
    \/ ListDevices
    \/ \E n \in Interfaces \ Virtual : Replug(n)
    \/ SkipDevice
    \/ ReadAddress
    \/ ReadSpeed
    \/ EndWalk

Next ==
    \/ BuildStep
    \/ CpuStep
    \/ NicsStep
    \/ ReadRoute
    \/ ReadAddresses
    \/ \E c \in HostFacts : CollectHostFacts(c)
    \/ CollectDisks
    \/ CollectGpus
    \/ CollectMemory
    \/ \E c \in Own : ReadFails(c)

CollectorsInit ==
    /\ Init
    /\ text = <<>>
    /\ current = Nothing
    /\ sockets = Nothing
    /\ devices = Nothing
    /\ walk = None
    /\ mac = None
    /\ nics = <<>>
    /\ seen = {}
    /\ stayed = {}
    /\ iface = None

Spec == CollectorsInit /\ [][Next]_vars

-----------------------------------------------------------------------------
(* Properties.                                                             *)

Socket == [model : Models \cup {None}, threads : Nat, cores : Nat, mhz : Nat]

TypeOK ==
    /\ registry \in Seq(AllCollectors)
    /\ at \in 0..(Len(registry) + 1)
    /\ Len(results) = IF at = 0 THEN 0 ELSE at - 1
    /\ text \in Seq(Lines)
    /\ DOMAIN sockets \subseteq SocketIds \cup {0}
    /\ \A id \in DOMAIN sockets : sockets[id] \in Socket
    /\ DOMAIN devices \subseteq Interfaces
    /\ Range(devices) \subseteq Devices
    /\ walk = None \/ walk \in Seq(Interfaces)
    /\ mac \in Macs \cup {None}
    /\ iface \in Interfaces \cup {None}

\* The blocks of a text: its longest stretches without a blank line that hold
\* an entry.
Blocks ==
    {b \in (DOMAIN text) \X (DOMAIN text) :
        /\ b[1] <= b[2]
        /\ \A i \in b[1]..b[2] : text[i] # Blank
        /\ \E i \in b[1]..b[2] : text[i] # Junk
        /\ b[1] = 1 \/ text[b[1] - 1] = Blank
        /\ b[2] = Len(text) \/ text[b[2] + 1] = Blank}

\* The last value a block gives a key.
InBlock(b, key, default) ==
    LET giving == {i \in b[1]..b[2] : text[i] # Junk /\ text[i].key = key}
    IN  IF giving = {} THEN default ELSE text[Max(giving)].value

BlocksOf(id) == {b \in Blocks : InBlock(b, "physical_id", 0) = id}

\* A socket by its blocks: one thread each, the first one's model, the largest
\* of their cores and clock rates.
SocketOf(id) ==
    LET first == Min({b[1] : b \in BlocksOf(id)})
        mhzs  == {InBlock(b, "cpu_MHz", 0) : b \in BlocksOf(id)}
    IN  [model   |-> InBlock(CHOOSE b \in BlocksOf(id) : b[1] = first,
                             "model_name", None),
         threads |-> Cardinality(BlocksOf(id)),
         cores   |-> Max({InBlock(b, "cpu_cores", 0) : b \in BlocksOf(id)}),
         mhz     |-> Max((mhzs \ {Bad}) \cup {0})]

\* The cpu collector reports a socket for every id its blocks name, of what
\* all of the blocks with that id say.  It fails for a file that cannot be
\* read, and if the cores of a block are no number.
SocketsByBlocks ==
    [][Runs("cpu") /\ at' # at =>
         LET ids == {InBlock(b, "physical_id", 0) : b \in Blocks}
             bad == \E b \in Blocks : InBlock(b, "cpu_cores", 0) = Bad
         IN  IF at \in failed' THEN bad \/ text = <<>>
             ELSE /\ ~bad
                  /\ results'[at] = SocketComponents([id \in ids |-> SocketOf(id)])
      ]_vars

\* Devices may come and go while the collector walks the list it has: what it
\* reports was there, each device once, and one that was there all the time is
\* reported.
NicsReported ==
    [][walk = <<>> /\ at' # at =>
         LET reported == {<<c.slot, c.serial>> : c \in Range(results'[at])}
         IN  /\ stayed \subseteq reported
             /\ reported \subseteq seen
             /\ Len(results'[at]) = Cardinality({r[1] : r \in reported})]_vars

\* A primary address is the first of its family that is not link-local, however
\* many there are and in whatever order.
PrimaryAddresses ==
    iface # None =>
      \A addresses \in SeqOf(Addresses, MaxItems + 1) :
        LET fact(v) == IF v = 4 THEN "primary_ipv4" ELSE "primary_ipv6"
            of(v)   == {i \in DOMAIN addresses :
                          /\ addresses[i].family = v
                          /\ v = 4 \/ ~addresses[i].local}
            found   == NetworkFacts(addresses)
        IN  \A v \in {4, 6} :
              /\ fact(v) \in DOMAIN found <=> of(v) # {}
              /\ of(v) # {} => found[fact(v)] = addresses[Min(of(v))]
=============================================================================
