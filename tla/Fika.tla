-------------------------------- MODULE Fika --------------------------------
(***************************************************************************)
(* FikaModule.gather of raidwatch/modules/fika.py as the collector calls   *)
(* it: Collector._call_module of raidwatch/collector.py, once per cycle,   *)
(* with the backoff of a module that keeps failing.  A gathering discovers *)
(* the processes, tails the log (LogTail), and decides whether the         *)
(* headless client has crashed.  The files it only reads for display       *)
(* (config.json, boot.config, the plugins) are left out.                   *)
(***************************************************************************)
EXTENDS LogTail

CONSTANTS
  Threshold,  \* _MODULE_BACKOFF_THRESHOLD
  Backoff     \* _MODULE_BACKOFF_SECONDS, in cycles

ASSUME FikaAssumption == Threshold \in Nat \ {0} /\ Backoff \in Nat \ {0}

VARIABLES
  spt,      \* the SPT server runs
  headless, \* a headless client runs
  at,       \* where the worker thread is: "idle" between the cycles
  found,    \* what the discovery saw of the two
  seen,     \* _ever_seen_headless
  streak,   \* _headless_zero_streak, as far as it counts
  crashed,  \* headless_crashed of the latest snapshot
  failures, \* _module_failures of the module, as far as they count
  since     \* cycles since _module_last_poll, as far as they count

world == <<spt, headless>>
verdict == <<seen, streak, crashed>>
calls == <<failures, since>>
fikaVars == <<vars, world, at, found, verdict, calls>>

Nothing == [spt |-> FALSE, headless |-> FALSE]
AtMost(n, max) == IF n > max THEN max ELSE n

FikaInit ==
  /\ Init
  /\ spt \in BOOLEAN /\ headless \in BOOLEAN
  /\ at = "idle" /\ found = Nothing
  /\ seen = FALSE /\ streak = 0 /\ crashed = FALSE
  /\ failures = 0 /\ since = Backoff

-----------------------------------------------------------------------------
(* The surroundings: the server logs, the two programs start and end.       *)

Server == (Append1 \/ Rotate) /\ UNCHANGED <<world, at, found, verdict, calls>>

Programs ==
  /\ spt' \in BOOLEAN /\ headless' \in BOOLEAN
  /\ UNCHANGED <<vars, at, found, verdict, calls>>

-----------------------------------------------------------------------------
(* Cycles.                                                                  *)

BackedOff == failures >= Threshold /\ since < Backoff

\* A module in backoff is not called; the snapshot gets the defaults.
Skip ==
  /\ at = "idle" /\ BackedOff
  /\ since' = since + 1
  /\ crashed' = FALSE
  /\ UNCHANGED <<vars, world, at, found, seen, streak, failures>>

\* The processes of the system, in one pass.
Discover ==
  /\ at = "idle" /\ ~BackedOff
  /\ found' = [spt |-> spt, headless |-> headless]
  /\ at' = "tail"
  /\ UNCHANGED <<vars, world, verdict, calls>>

\* The pass raises: the log is not looked at, the snapshot gets the defaults.
DiscoverFails ==
  /\ at = "idle" /\ ~BackedOff
  /\ failures' = AtMost(failures + 1, Threshold)
  /\ since' = 1
  /\ crashed' = FALSE
  /\ UNCHANGED <<vars, world, at, found, seen, streak>>

\* Stat and read are two steps, whatever fails in them stays within.
Tail ==
  /\ at = "tail" /\ Poll
  /\ at' = IF from' = None THEN "decide" ELSE "tail"
  /\ UNCHANGED <<world, found, verdict, calls>>

\* MUTANT: the two other cases are swapped.
Decide_Swapped ==
  /\ at = "decide" /\ at' = "idle"
  /\ seen' = (seen \/ found.headless)
  /\ streak' = IF ~found.headless /\ ~found.spt THEN AtMost(streak + 1, 2) ELSE 0
  /\ crashed' = (found.spt /\ ~found.headless /\ seen /\ streak' = 2)
  /\ failures' = 0 /\ since' = 1 /\ found' = Nothing
  /\ UNCHANGED <<vars, world>>

\* The verdict: two discoveries in a row, of those that did not raise, without
\* a headless client, next to a server, after one had been seen.
Decide ==
  /\ at = "decide" /\ at' = "idle"
  /\ seen' = (seen \/ found.headless)
  /\ streak' = IF ~found.headless /\ found.spt THEN AtMost(streak + 1, 2) ELSE 0
  /\ crashed' = (found.spt /\ ~found.headless /\ seen /\ streak' = 2)
  /\ failures' = 0 /\ since' = 1 /\ found' = Nothing
  /\ UNCHANGED <<vars, world>>

Cycle == Skip \/ Discover \/ DiscoverFails \/ Tail \/ Decide

FikaNext == Server \/ Programs \/ Cycle

\* The collector works its cycles for ever, and not every discovery raises;
\* nothing makes the programs act.
FikaSpec == FikaInit /\ [][FikaNext]_fikaVars /\ WF_fikaVars(Cycle) /\ SF_fikaVars(Discover)

-----------------------------------------------------------------------------
\* A headless client that has been seen and stays away while the server runs is
\* reported, however many discoveries fail and however long the module is in
\* backoff (fika.py:86-104, collector.py:239-265).
CrashNoticed == seen /\ ~headless /\ spt ~> crashed \/ headless \/ ~spt
=============================================================================
