----------------------------- MODULE Diagnostics -----------------------------
(***************************************************************************)
(* The diagnostics of the core side by side: allocation totals of call     *)
(* sites, the watchdog of arenas that grow, the frame profiler and the     *)
(* statistics counters.  They share no state, so a step of one is a step   *)
(* of any order of theirs.                                                 *)
(***************************************************************************)
EXTENDS ArenaDiagnostics, PerfScope, Stats

DiagnosticsInit == AllocInit /\ WatchdogInit /\ PerfInit /\ StatsInit

DiagnosticsNext ==
  \/ AllocNext /\ UNCHANGED <<watchdog_vars, perf_vars, stats_vars>>
  \/ WatchdogNext /\ UNCHANGED <<alloc_vars, perf_vars, stats_vars>>
  \/ PerfNext /\ UNCHANGED <<alloc_vars, watchdog_vars, stats_vars>>
  \/ StatsNext /\ UNCHANGED <<alloc_vars, watchdog_vars, perf_vars>>

diagnostics_vars == <<alloc_vars, watchdog_vars, perf_vars, stats_vars>>

DiagnosticsSpec == DiagnosticsInit /\ [][DiagnosticsNext]_diagnostics_vars

-----------------------------------------------------------------------------
(* DiagnosticsAreTrue: allocation totals are exact until the table is full *)
(* and a report lists the largest; the watchdog's samples belong to the    *)
(* arena that lives at the address now; the profiler gives every scope its *)
(* own time; and a statistics counter is found, switched and counted as    *)
(* what it was registered (arena_alloc_tracker.c, arena_watchdog.c,        *)
(* perf_scope.c, stats.c).                                                 *)
DiagnosticsAreTrue ==
  /\ TotalsAreExact /\ ReportsAreTop
  /\ EntriesAreLive /\ GrowthIsReal
  /\ ScopesAreTheirs /\ TreesArePreorder
  /\ CountersAreTheirs
=============================================================================
