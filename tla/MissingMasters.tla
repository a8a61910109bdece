--------------------------- MODULE MissingMasters ---------------------------
(***************************************************************************)
(* MissingMasters.cpp: when a load was aborted, the plugins the game would *)
(* have checked are walked along their masters, depth first and with a     *)
(* memory of what was visited, to tell which files are missing and which   *)
(* plugins to disable.  Names are compared in lower case throughout, so    *)
(* that a name stands for all its spellings; the headers on disk, which    *)
(* supply masters the game has not read, are part of "masters".            *)
(***************************************************************************)
EXTENDS Naturals, Sequences, FiniteSets, SequencesExt

CONSTANTS
  Plugins,      \* files that are present, the keys of the map
  Absent,       \* files that are not
  MaxDepth,     \* MAX_DEPTH
  MaxChains     \* MAX_CHAINS

ASSUME DepthAssumption == MaxDepth \in Nat /\ MaxChains \in Nat \ {0}
ASSUME FilesAssumption == IsFiniteSet(Plugins) /\ Plugins \cap Absent = {}

VARIABLES
  masters,      \* Plugin::masters
  enabled,      \* Plugin::enabled
  readable,     \* enabledInfoAvailable
  starts,       \* plugins of the loop of Diagnose still to be looked at
  path,         \* a_path, with what each visit has still to do and its result
  done, affected, missing, chains,    \* of Walker
  cut,          \* history: MAX_DEPTH ended a visit
  report        \* the lines, or NoLines before they are made

masterVars == <<masters, enabled, readable, starts, path, done, affected, missing, chains, cut, report>>

Files == Plugins \cup Absent
NoLines == [made |-> FALSE, missing |-> {}, disable |-> {}, intermediate |-> {}, skipped |-> {}]

HasAbsentMaster(p) == masters[p] \cap Absent # {}

\* Without a readable Plugins.txt no plugin is known to be enabled and all are walked.
Checked(p) == ~readable \/ (p \in enabled /\ ~HasAbsentMaster(p))

MastersInit ==
  /\ masters \in [Plugins -> SUBSET Files]
  /\ readable \in BOOLEAN
  /\ enabled \in IF readable THEN SUBSET Plugins ELSE {{}}
  /\ starts = {p \in Plugins : Checked(p)}
  /\ path = <<>>
  /\ done = {} /\ affected = {} /\ missing = {} /\ chains = {} /\ cut = FALSE
  /\ report = NoLines

-----------------------------------------------------------------------------
(* Walker::visit, with a_path as its stack.                                *)

OnPath(p) == \E i \in 1 .. Len(path) : path[i].plugin = p
Names == [i \in 1 .. Len(path) |-> path[i].plugin]
Visit(p) == [plugin |-> p, rest |-> masters[p], bad |-> FALSE]
Top == path[Len(path)]
Bad(b) == [path EXCEPT ![Len(path)].bad = @ \/ b]
Without(s, m) == [s EXCEPT ![Len(s)].rest = @ \ {m}]

\* Diagnose starts the walk at one more plugin; at the start the path is empty.
StartWalk == \E p \in starts :
  /\ path = <<>>
  /\ starts' = starts \ {p}
  /\ path' = IF p \in done THEN <<>> ELSE <<Visit(p)>>
  /\ UNCHANGED <<masters, enabled, readable, done, affected, missing, chains, cut, report>>

AbsentMaster == \E m \in Absent :
  /\ path # <<>> /\ m \in Top.rest
  /\ path' = Without(Bad(TRUE), m)
  /\ missing' = missing \cup {m}
  /\ chains' = IF Cardinality(chains) < MaxChains THEN chains \cup {Append(Names, m)} ELSE chains
  /\ UNCHANGED <<masters, enabled, readable, starts, done, affected, cut, report>>

\* The visit returns at once: too deep, visited before, or on the path already.
KnownMaster == \E m \in Plugins :
  LET deep == Len(path) > MaxDepth IN
  /\ path # <<>> /\ m \in Top.rest
  /\ deep \/ m \in done \/ OnPath(m)
  /\ path' = Without(Bad(~deep /\ m \in done /\ m \in affected), m)
  /\ cut' = (cut \/ deep)
  /\ UNCHANGED <<masters, enabled, readable, starts, done, affected, missing, chains, report>>

Descend == \E m \in Plugins :
  /\ path # <<>> /\ m \in Top.rest
  /\ Len(path) <= MaxDepth /\ m \notin done /\ ~OnPath(m)
  /\ path' = Append(Without(path, m), Visit(m))
  /\ UNCHANGED <<masters, enabled, readable, starts, done, affected, missing, chains, cut, report>>

\* Defect: the result of the visit does not reach the dependent.
Leave_Forgets ==
  /\ path # <<>> /\ Top.rest = {}
  /\ done' = done \cup {Top.plugin}
  /\ affected' = IF Top.bad THEN affected \cup {Top.plugin} ELSE affected
  /\ path' = Front(path)
  /\ UNCHANGED <<masters, enabled, readable, starts, missing, chains, cut, report>>

Leave ==
  LET below == Front(path) IN
  /\ path # <<>> /\ Top.rest = {}
  /\ done' = done \cup {Top.plugin}
  /\ affected' = IF Top.bad THEN affected \cup {Top.plugin} ELSE affected
  /\ path' = IF below = <<>> THEN <<>> ELSE [below EXCEPT ![Len(below)].bad = @ \/ Top.bad]
  /\ UNCHANGED <<masters, enabled, readable, starts, missing, chains, cut, report>>

-----------------------------------------------------------------------------
(* The rest of Diagnose.                                                   *)

HasAffectedDependent == UNION {masters[p] \cap affected : p \in affected}

Actionable(p) == p \in enabled \/ (p \notin HasAffectedDependent /\ affected \cap enabled = {})

Report ==
  /\ path = <<>> /\ starts = {} /\ report = NoLines
  /\ report' = IF chains = {} THEN [NoLines EXCEPT !.made = TRUE]
               ELSE [made |-> TRUE, missing |-> missing,
                     disable |-> {p \in affected : Actionable(p)},
                     intermediate |-> {p \in affected : ~Actionable(p)},
                     skipped |-> {p \in Plugins : readable /\ p \in enabled /\ HasAbsentMaster(p) /\ p \notin done}]
  /\ UNCHANGED <<masters, enabled, readable, starts, path, done, affected, missing, chains, cut>>

MastersNext == StartWalk \/ AbsentMaster \/ KnownMaster \/ Descend \/ Leave \/ Report

MastersSpec == MastersInit /\ [][MastersNext]_masterVars

-----------------------------------------------------------------------------
MastersTypeOK ==
  /\ masters \in [Plugins -> SUBSET Files] /\ enabled \subseteq Plugins /\ readable \in BOOLEAN
  /\ starts \subseteq Plugins /\ done \subseteq Plugins /\ affected \subseteq done /\ missing \subseteq Absent
  /\ \A i \in 1 .. Len(path) : path[i] \in [plugin : Plugins, rest : SUBSET Files, bad : BOOLEAN]
  /\ cut \in BOOLEAN
  /\ report \in [made : BOOLEAN, missing : SUBSET Absent, disable : SUBSET Plugins,
                 intermediate : SUBSET Plugins, skipped : SUBSET Plugins]

\* A plugin that leads to a missing file is in every set that is closed under "has a
\* missing master or a master in the set".
Closed(S) == \A p \in Plugins : HasAbsentMaster(p) \/ masters[p] \cap S # {} => p \in S
LeadsToMissing(p) == \A S \in SUBSET Plugins : Closed(S) => p \in S
Acyclic == \A S \in SUBSET Plugins : S # {} => \E p \in S : masters[p] \cap S = {}

\* No plugin is blamed that does not lead to a missing file; and if no plugin depends on
\* itself and no chain is too deep, none that was visited and leads to one is overlooked.
AffectedRight ==
  /\ \A p \in affected : LeadsToMissing(p)
  /\ Acyclic /\ ~cut => \A p \in done \ affected : ~LeadsToMissing(p)

\* Whatever the order and the cycles, a finished report names every missing file that a
\* checked plugin leads to, unless a chain is too deep; and every chain is one: each name
\* a master of the one before it, and the last one missing.
MissingComplete ==
  /\ report.made /\ ~cut => report.missing = UNION {masters[p] \cap Absent : p \in done}
  /\ path = <<>> => \A p \in done : ~cut => masters[p] \cap Plugins \subseteq done
  /\ \A c \in chains : /\ c[Len(c)] \in Absent
                       /\ \A i \in 1 .. Len(c) - 1 : c[i + 1] \in masters[c[i]]

\* Following the advice helps: once the plugins to disable are disabled, no plugin that
\* the game still checks leads to a missing file; and a report that names a missing file
\* names something to disable.
AdviceHelps == report.made /\ Acyclic /\ ~cut =>
  /\ readable => \A p \in Plugins : Checked(p) /\ p \notin report.disable => ~LeadsToMissing(p)
  /\ report.missing # {} => report.disable # {}

\* The diagnosis blames the right plugins, names all that is missing and advises what helps.
DiagnosisRight == AffectedRight /\ MissingComplete /\ AdviceHelps
=============================================================================
