--------------------------------- MODULE Tree --------------------------------
(***************************************************************************)
(* The tree view of the process list: _tree_gen, tree_sort and the part of *)
(* Proc::collect around them (src/native/btop4win/src/btop_collect.cpp),   *)
(* with the keys that collapse, sort and filter.                           *)
(*                                                                         *)
(* The parent of a process is known by its pid, which Windows keeps after  *)
(* the parent has ended and gives to other processes.  The process of pid  *)
(* 4, which has no parent and never ends, is left out; it makes the        *)
(* processes without a parent the ones the tree begins with.               *)
(***************************************************************************)
EXTENDS Integers, Sequences, FiniteSets, SequencesExt, FiniteSetsExt

CONSTANTS
  Pids,
  Nobody,   \* pid 0, or none
  Filters,  \* the texts of the filter, as the sets of pids they match
  Orders,   \* the orders the sort columns give, as sequences of all pids
  MaxEvents \* bound: processes that start or end

TreeAssumption ==
  /\ IsFiniteSet(Pids) /\ Nobody \notin Pids
  /\ Filters \subseteq SUBSET Pids /\ Pids \in Filters
  /\ Orders # {} /\ Orders \subseteq SetToSeqs(Pids)
  /\ MaxEvents \in Nat

VARIABLES
  live,      \* the processes of the system
  parent,    \* the pid of the process that started each
  procs,     \* Proc::current_procs
  ppid,      \* the parents as they are remembered
  collapsed, \* the processes whose children are hidden
  filtered,  \* the processes marked as hidden
  hidden,    \* filter_found
  rows,      \* what Proc::draw shows of those the recursion comes to
  filter,    \* current_filter, as the pids it matches: all without one
  stale,     \* history: see CollectCached
  events

lists == <<procs, ppid, collapsed, filtered, hidden, rows, filter, stale>>
vars == <<live, parent, lists, events>>

\* What the keys have left for a run: another filter, and the pid to collapse
\* and the one to expand; space or a click asks for both of one pid.  A run
\* that is replaced before it wakes leaves them to the next one.
Asks == [collapse : Pids \cup {Nobody}, expand : Pids \cup {Nobody}]

Init ==
  /\ live \in SUBSET Pids \ {{}}
  /\ parent \in [Pids -> Pids \cup {Nobody}]
  /\ \A p \in Pids : parent[p] # p /\ (p \notin live => parent[p] = Nobody)
  /\ procs = {} /\ ppid = [p \in Pids |-> Nobody]
  /\ collapsed = {} /\ filtered = {} /\ hidden = 0 /\ rows = <<>>
  /\ filter = Pids /\ stale = FALSE /\ events = 0

(***************************************************************************)
(* The system.                                                             *)
(***************************************************************************)
Starts(p, by) ==
  /\ events < MaxEvents /\ events' = events + 1
  /\ p \notin live /\ by \in live
  /\ live' = live \cup {p} /\ parent' = [parent EXCEPT ![p] = by]
  /\ UNCHANGED lists

Ends(p) ==
  /\ events < MaxEvents /\ events' = events + 1
  /\ p \in live /\ live' = live \ {p} /\ parent' = [parent EXCEPT ![p] = Nobody]
  /\ UNCHANGED lists

(***************************************************************************)
(* The tree.                                                               *)
(***************************************************************************)
Ancestors(pp, p) ==
  LET up[n \in 1 .. Cardinality(Pids)] ==
        IF n = 1 THEN pp[p] ELSE LET q == up[n - 1] IN IF q = Nobody THEN q ELSE pp[q]
  IN  {up[n] : n \in 1 .. Cardinality(Pids)} \ {Nobody}
Above(pp) == [p \in Pids |-> Ancestors(pp, p)]

\* MUTANT: a parent that has ended is still looked for.
Remembered_Dead(found) ==
  {[p \in Pids |-> IF p \notin found THEN Nobody
                   ELSE IF p \in procs \ again THEN ppid[p] ELSE parent[p]] : again \in SUBSET (procs \cap found)}

\* The parent is read when a process is found first and once again when WMI has
\* it.  One whose parent is not among the processes found has none from then on.
Remembered(found) ==
  {[p \in Pids |-> LET pp == IF p \in procs \ again THEN ppid[p] ELSE parent[p]
                   IN  IF p \in found /\ pp \in found THEN pp ELSE Nobody] : again \in SUBSET (procs \cap found)}

\* What is collapsed after each of the things the keys may have asked for; one
\* who asks to collapse and to expand different ones is given the first.
Collapsed(found) ==
  LET old == collapsed \cap found
      asked(ask) == IF ask.collapse # Nobody THEN ask.collapse ELSE ask.expand
      after(ask) == IF asked(ask) \notin found THEN old
                    ELSE IF ask.collapse = ask.expand THEN SymDiff(old, {asked(ask)})
                    ELSE IF ask.collapse # Nobody THEN old \cup {ask.collapse}
                    ELSE old \ {ask.expand}
  IN  {after(ask) : ask \in Asks}

\* The processes the recursion comes to, all but those that descend from
\* themselves; and those it leaves out for the filter, for neither they nor an
\* ancestor match.
Visited(above, found) ==
  {p \in found : above[p] \subseteq found /\ \A q \in {p} \cup above[p] : q \notin above[q]}
FilteredOut(above, visited, f) == {p \in visited : ({p} \cup above[p]) \cap f = {}}

\* _tree_gen, for all processes at once.  What is below a collapsed process is
\* marked when its parent is come back to, except under no_update or when the
\* parent is filtered out; a process with children also marks itself.  A match
\* keeps the mark it had.
TreeGen(pp, above, visited, coll, f, anew, was) ==
  LET out == FilteredOut(above, visited, f)
      below == {p \in visited : above[p] \cap coll # {}}
      counted == IF anew THEN {p \in below : pp[p] \notin out} ELSE {}
      parents == {p \in below \ out : \E q \in visited : pp[q] = p}
      kept == IF f = Pids THEN {} ELSE {p \in visited \cap was : above[p] \cap f = {}}
  IN  [filtered |-> (was \ visited) \cup out \cup counted \cup parents \cup kept,
       count |-> Cardinality(out) + Cardinality(counted)]

\* The elements of s that are in S, in their order.
Kept(s, S) ==
  LET keep[i \in 0 .. Len(s)] == IF i = 0 THEN <<>>
                                 ELSE IF s[i] \in S THEN Append(keep[i - 1], s[i]) ELSE keep[i - 1]
  IN  keep[Len(s)]

\* tree_sort and the final sort: the tree in depth-first order, siblings in
\* the order of the list.
DepthFirst(pp, visited, order) ==
  LET children(p) == Kept(order, {q \in visited : pp[q] = p})
      walk[p \in visited] == LET c == children(p)
                             IN  <<p>> \o FlattenSeq([i \in DOMAIN c |-> walk[c[i]]])
      roots == children(Nobody)
  IN  FlattenSeq([i \in DOMAIN roots |-> walk[roots[i]]])

\* A process the recursion does not come to stands where its old tree_index
\* puts it; rows leaves it out.  All marks are removed first if the filter, f
\* by now, is applied anew.
Regenerate(found, anew) ==
  \E pp \in IF anew THEN Remembered(found) ELSE {ppid} :
  \E above \in {Above(pp)}, f \in Filters, coll \in Collapsed(found) :
    LET visited == Visited(above, found)
        shouldFilter == anew \/ f # filter
        marks == TreeGen(pp, above, visited, coll, f, anew, IF shouldFilter THEN {} ELSE filtered)
        trees == {DepthFirst(pp, visited, order) : order \in Orders}
    IN  /\ ppid' = pp /\ collapsed' = coll /\ filtered' = marks.filtered /\ filter' = f
        /\ hidden' = (IF shouldFilter \/ f # Pids THEN 0 ELSE hidden) + marks.count
        /\ rows' \in {Kept(tree, visited \ marks.filtered) : tree \in trees}

CollectAnew ==
  /\ live # {} /\ procs' = live
  /\ Regenerate(live, TRUE)
  /\ stale' = FALSE
  /\ UNCHANGED <<live, parent, events>>

\* no_update, after another filter or sort column has been chosen.  What is
\* collapsed is then shown until the next collection, and miscounted.
CollectCached ==
  /\ procs # {}
  /\ Regenerate(procs, FALSE)
  /\ stale' = (stale \/ collapsed # {} \/ collapsed' # {})
  /\ UNCHANGED <<live, parent, procs, events>>

Next ==
  \/ \E p, by \in Pids : Starts(p, by)
  \/ \E p \in Pids : Ends(p)
  \/ CollectAnew \/ CollectCached

-----------------------------------------------------------------------------
\* However processes end, start under old pids, are collapsed and filtered: the
\* tree shows every process that matches or descends from a match and has no
\* collapsed ancestor, each below its parent and above what is not below it,
\* and numpids is the number of its rows.  Except where the code is known to
\* fail: a pid used again made a process its own ancestor, a match is below a
\* process that is collapsed and does not match, the list was sorted anew from
\* the cache (btop_collect.cpp:1851-1961, 2333-2427).
TreeShown ==
  LET above == Above(ppid)
      matches(p) == ({p} \cup above[p]) \cap filter # {}
  IN  /\ procs # {} /\ ~stale
      /\ \A p \in procs : p \notin above[p]
      /\ \A p \in collapsed : matches(p)
      => /\ ToSet(rows) = {p \in procs : matches(p) /\ above[p] \cap collapsed = {}}
         /\ \A i, k \in DOMAIN rows :
              rows[i] \in above[rows[k]] =>
                i < k /\ \A j \in i + 1 .. k : rows[i] \in above[rows[j]]
         /\ Cardinality(procs) - hidden = Len(rows)
==============================================================================
