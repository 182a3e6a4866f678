------------------------------ MODULE Snapshot ------------------------------
(***************************************************************************)
(* The inventory snapshot: the registry of inventory/base.py and build()   *)
(* of inventory/snapshot.py over it, for collectors that return anything   *)
(* of their kind, or raise.  Collectors says what the collectors of the    *)
(* repository return.                                                      *)
(***************************************************************************)
EXTENDS Naturals, Sequences, FiniteSets, Functions, SequencesExt

CONSTANTS
    FactCollectors,       \* names of the collectors of kind "facts"
    ComponentCollectors,  \* of kind "components"
    Imports,              \* what inventory/__init__.py may register, in order
    FactKeys              \* names of facts

AllCollectors == FactCollectors \cup ComponentCollectors

ASSUME SnapshotAssumption ==
    /\ FactCollectors \cap ComponentCollectors = {}
    /\ Imports \subseteq Seq(AllCollectors)

VARIABLES
    registry,    \* the registered collectors, in order
    at,          \* index of the collector build() runs; 0 before it began
    facts,       \* the facts so far
    components,  \* the components so far
    results,     \* history: what each collector returned, nothing if it raised
    failed       \* history: the positions of those that raised

built == <<registry, at, facts, components, results, failed>>

Nothing == <<>>  \* the empty dict, and the empty list

Init ==
    /\ registry = <<>>
    /\ at = 0
    /\ facts = Nothing
    /\ components = <<>>
    /\ results = <<>>
    /\ failed = {}

-----------------------------------------------------------------------------
(* The registry.                                                           *)

\* Mutant of Register: no look at the names.
RegisterAgain(list) ==
    /\ at = 0
    /\ IsStrictPrefix(registry, list)
    /\ registry' = Append(registry, list[Len(registry) + 1])
    /\ UNCHANGED <<at, facts, components, results, failed>>

\* The next import of a list; a name that is taken raises ValueError, and the
\* program has no inventory.
Register(list) ==
    /\ at = 0
    /\ IsStrictPrefix(registry, list)
    /\ list[Len(registry) + 1] \notin Range(registry)
    /\ registry' = Append(registry, list[Len(registry) + 1])
    /\ UNCHANGED <<at, facts, components, results, failed>>

-----------------------------------------------------------------------------
(* build().                                                                *)

Build ==
    /\ at = 0 \/ at > Len(registry)
    /\ registry \in Imports
    /\ at' = 1
    /\ facts' = Nothing
    /\ components' = <<>>
    /\ results' = <<>>
    /\ failed' = {}
    /\ UNCHANGED registry

Runs(c) == at \in DOMAIN registry /\ registry[at] = c

Finish(result) ==
    /\ at' = at + 1
    /\ results' = Append(results, result)
    /\ UNCHANGED <<registry, failed>>

\* Mutant of CollectFacts: the later fact wins.
CollectLastFacts(c, result) ==
    /\ Runs(c)
    /\ facts' = [k \in DOMAIN facts \cup DOMAIN result |->
                   IF k \in DOMAIN result THEN result[k] ELSE facts[k]]
    /\ Finish(result)
    /\ UNCHANGED components

\* A fact that is there already is kept.
CollectFacts(c, result) ==
    /\ Runs(c)
    /\ facts' = [k \in DOMAIN facts \cup DOMAIN result |->
                   IF k \in DOMAIN facts THEN facts[k] ELSE result[k]]
    /\ Finish(result)
    /\ UNCHANGED components

CollectComponents(c, result) ==
    /\ Runs(c)
    /\ components' = components \o result
    /\ Finish(result)
    /\ UNCHANGED facts

\* Mutant of CollectorRaises: break for continue.
RaiseEndsBuild(c) ==
    /\ Runs(c)
    /\ at' = Len(registry) + 1
    /\ results' = Append(results, Nothing)
    /\ failed' = failed \cup {at}
    /\ UNCHANGED <<registry, facts, components>>

\* The exception is caught, and the loop goes on.
CollectorRaises(c) ==
    /\ Runs(c)
    /\ at' = at + 1
    /\ results' = Append(results, Nothing)
    /\ failed' = failed \cup {at}
    /\ UNCHANGED <<registry, facts, components>>

\* A collector nothing is known of: a fact is named for who said it, and there
\* are up to two components.
CollectAnything(c) ==
    \/ /\ c \in FactCollectors
       /\ \E keys \in SUBSET FactKeys : CollectFacts(c, [k \in keys |-> c])
    \/ /\ c \in ComponentCollectors
       /\ \E n \in 0..2 : CollectComponents(c, [i \in 1..n |-> c])
    \/ CollectorRaises(c)

-----------------------------------------------------------------------------
(* Properties.                                                             *)

\* The positions of the collectors of a kind that did not raise.
Survivors(kind) ==
    {i \in DOMAIN results \ failed : registry[i] \in kind}

\* Every fact is that of the first collector that has it: a collision or a
\* failure of another collector changes nothing.
FirstFactWins ==
    /\ \A k \in DOMAIN facts :
         \E i \in Survivors(FactCollectors) : k \in DOMAIN results[i]
    /\ \A i \in Survivors(FactCollectors) : \A k \in DOMAIN results[i] :
         /\ k \in DOMAIN facts
         /\ (\A j \in Survivors(FactCollectors) :
               k \in DOMAIN results[j] => i <= j)
              => facts[k] = results[i][k]

\* The components are those of the collectors that did not raise, in the order
\* of their registration, each collector's once.
EachContributesOnce ==
    components =
      FlattenSeq([i \in DOMAIN results |->
                    IF i \in Survivors(ComponentCollectors)
                    THEN results[i] ELSE <<>>])
    /\ IsInjective(registry)
=============================================================================
