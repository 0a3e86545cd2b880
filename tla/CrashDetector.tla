---------------------------- MODULE CrashDetector ----------------------------
(***************************************************************************)
(* The crash history of src/core/crash_detector.c and the signal handler   *)
(* of src/core/crash_handler.c that adds to it: sessions of one program,   *)
(* one after the other, that share a file.  The main thread may be stopped *)
(* by a crash of its own, by a crash of a worker or by a power cut between *)
(* any two steps, and the clock may step backward.                         *)
(***************************************************************************)
EXTENDS Integers, Sequences, SequencesExt, FiniteSetsExt

CONSTANTS
  CRASH_HISTORY_SIZE, CRASH_LOOP_THRESHOLD, CRASH_LOOP_WINDOW_SECONDS,
  LongSession,            (* an uptime that counts as successful           *)
  TimeWidth,              (* times are unsigned numbers below it           *)
  MaxClock, MaxSteps, MaxCrashes, (* bounds: the clock, its backward steps, *)
                          (* records                                       *)
  WorkersCrash,           (* other threads may crash as well               *)
  StartupFirst            (* a session that shuts down has recorded its    *)
                          (* startup                                       *)

ASSUME CrashAssumption ==
  /\ {CRASH_HISTORY_SIZE, TimeWidth} \subseteq Nat \ {0}
  /\ {CRASH_LOOP_THRESHOLD, CRASH_LOOP_WINDOW_SECONDS, LongSession} \subseteq Nat

VARIABLES
  file,        (* the crash state on disk, if it can be read as one        *)
  clock, steps, (* the clock and its steps backward so far                 *)
  session,     (* the process: is it running, has it installed the         *)
               (* handler, has it prepared and recorded its startup, and   *)
               (* its true age, up to a long one                           *)
  op,          (* the save the main thread has under way                   *)
  handler,     (* the handler: idle, entered, or with the state it read    *)
  recorded,    (* times of the records made since the history was cleared, *)
               (* or torn: a session ended while the file was truncated    *)
  verdict,     (* the last answer of crash_detector_check and the truth    *)
  cleared      (* the ages at which the session cleared the history        *)

crash_vars == <<file, clock, steps, session, op, handler, recorded, verdict, cleared>>

Unreadable == << >>          (* no file, a short one, a foreign one        *)
FreshState == [count |-> 0, safe |-> FALSE, startup |-> 0, times |-> [i \in 0..CRASH_HISTORY_SIZE - 1 |-> 0]]
NoSession == [up |-> FALSE, installed |-> FALSE, ready |-> FALSE, started |-> FALSE, age |-> 0]
NoVerdict == [answer |-> "None", real |-> FALSE]
Resting == [at |-> "idle"]

load_crash_state == IF file = Unreadable THEN FreshState ELSE Head(file)

(* Mutant: the count is raised before the slot is chosen.                  *)
AddAfterCount(state, time) ==
  [state EXCEPT !.times[(state.count + 1) % CRASH_HISTORY_SIZE] = time, !.count = @ + 1]

AddRecord(state, time) ==
  [state EXCEPT !.times[state.count % CRASH_HISTORY_SIZE] = time, !.count = @ + 1]

Kept(n) == Min({n, CRASH_HISTORY_SIZE})
IsRecent(time) == clock >= time /\ clock - time <= CRASH_LOOP_WINDOW_SECONDS
RecentCrashes(state) == Cardinality({i \in 0..Kept(state.count) - 1 : IsRecent(state.times[i])})

(* The main thread is between two calls.                                   *)
MainIsFree == session.up /\ op = Resting /\ handler = Resting
(* It runs on while the handler of a worker's crash records.               *)
MainRuns == session.up /\ IF handler = Resting THEN TRUE ELSE handler.worker

(* save_crash_state: the directory is made, the file truncated, then       *)
(* written.  Without HOME or the directory nothing is saved.               *)
Saves(state, effect) ==
  op' \in {Resting, [at |-> "truncate", state |-> state, effect |-> effect, time |-> clock]}
truncate ==
  /\ MainRuns /\ op.at = "truncate"
  /\ file' = Unreadable
  /\ op' = [op EXCEPT !.at = "write"]
  /\ UNCHANGED <<clock, steps, session, handler, recorded, verdict, cleared>>
write ==
  /\ MainRuns /\ op.at = "write"
  /\ file' = <<op.state>>
  /\ recorded' = CASE op.effect = "keep" -> recorded
                   [] op.effect = "clear" -> << >>
                   [] OTHER -> Append(recorded, op.time)
  /\ op' = Resting
  /\ UNCHANGED <<clock, steps, session, handler, verdict, cleared>>

crash_detector_check ==
  LET loop == RecentCrashes(load_crash_state) >= CRASH_LOOP_THRESHOLD
      real == Cardinality({i \in DOMAIN recorded : IsRecent(recorded[i]) /\
                             i > Len(recorded) - CRASH_HISTORY_SIZE}) >= CRASH_LOOP_THRESHOLD
  IN  /\ MainIsFree
      /\ verdict' = [answer |-> CASE load_crash_state.safe -> "SafeModeActive"
                                  [] ~load_crash_state.safe /\ loop -> "Detected"
                                  [] OTHER -> "None",
                     real |-> real]
      /\ IF ~load_crash_state.safe /\ loop
         THEN Saves([load_crash_state EXCEPT !.safe = TRUE], "keep")
         ELSE op' = op
      /\ UNCHANGED <<file, clock, steps, session, handler, recorded, cleared>>

(* From normal context, as a program with handlers of its own would.       *)
crash_detector_record_crash ==
  /\ MainIsFree /\ load_crash_state.count < MaxCrashes
  /\ Saves(AddRecord(load_crash_state, clock), "add")
  /\ UNCHANGED <<file, clock, steps, session, handler, recorded, verdict, cleared>>

crash_detector_record_successful_startup ==
  /\ MainIsFree /\ ~session.started
  /\ Saves([load_crash_state EXCEPT !.startup = clock], "keep") /\ op' # Resting
  /\ session' = [session EXCEPT !.started = TRUE]
  /\ UNCHANGED <<file, clock, steps, handler, recorded, verdict, cleared>>

WasLong(startup) == clock >= startup /\ (clock - startup) % TimeWidth >= LongSession

crash_detector_clear_on_graceful_shutdown ==
  /\ MainIsFree /\ (StartupFirst => session.started)
  /\ LET state == load_crash_state
     IN  IF state.startup # 0 /\ WasLong(state.startup)
         THEN /\ Saves([state EXCEPT !.count = 0, !.safe = FALSE], "clear")
              /\ cleared' = cleared \cup {session.age}
         ELSE UNCHANGED <<op, cleared>>
  /\ UNCHANGED <<file, clock, steps, session, handler, recorded, verdict>>

crash_detector_exit_safe_mode ==
  /\ MainIsFree /\ load_crash_state.safe
  /\ Saves([load_crash_state EXCEPT !.count = 0, !.safe = FALSE], "clear")
  /\ UNCHANGED <<file, clock, steps, session, handler, recorded, verdict, cleared>>

crash_handler_install ==
  /\ MainIsFree /\ ~session.installed
  /\ \E ready \in BOOLEAN : session' = [session EXCEPT !.installed = TRUE, !.ready = ready]
  /\ UNCHANGED <<file, clock, steps, op, handler, recorded, verdict, cleared>>

(* The cached path stays ready.                                            *)
crash_handler_uninstall ==
  /\ MainIsFree /\ session.installed
  /\ session' = [session EXCEPT !.installed = FALSE]
  /\ UNCHANGED <<file, clock, steps, op, handler, recorded, verdict, cleared>>

-----------------------------------------------------------------------------
(* Crashes and restarts.                                                   *)

Torn == recorded' = IF file = Unreadable THEN << >> ELSE recorded
Dies ==
  /\ session' = NoSession /\ op' = Resting /\ handler' = Resting
  /\ verdict' = NoVerdict /\ cleared' = {}
  /\ UNCHANGED <<clock, steps>>

Launch ==
  /\ ~session.up
  /\ session' = [NoSession EXCEPT !.up = TRUE]
  /\ UNCHANGED <<file, clock, steps, op, handler, recorded, verdict, cleared>>

(* crash_signal_handler, and a second crash while it runs.                 *)
Crash(worker) ==
  /\ session.up /\ (worker => WorkersCrash)
  /\ IF session.installed /\ handler = Resting
     THEN /\ handler' = [at |-> "entered", worker |-> worker]
          /\ UNCHANGED <<clock, steps, session, op, recorded, verdict, cleared>>
     ELSE Dies /\ Torn
  /\ UNCHANGED file

(* record_crash_from_signal writes over the file without truncating it.    *)
read_in_handler ==
  /\ handler.at = "entered"
  /\ load_crash_state.count < MaxCrashes
  /\ IF session.ready
     THEN /\ handler' = [at |-> "read", worker |-> handler.worker, state |-> load_crash_state]
          /\ UNCHANGED <<clock, steps, session, op, recorded, verdict, cleared>>
     ELSE Dies /\ Torn
  /\ UNCHANGED file

crash_detector_record_crash_from_signal ==
  /\ handler.at = "read"
  /\ file' = <<AddRecord(handler.state, clock)>>
  /\ recorded' = IF handler.state = FreshState THEN <<clock>> ELSE Append(recorded, clock)
  /\ Dies

(* The process exits, is killed, or the power fails.                       *)
Exit == session.up /\ Dies /\ Torn /\ UNCHANGED file

ClockTick ==
  /\ clock < MaxClock /\ clock' = clock + 1
  /\ session' = [session EXCEPT !.age = IF session.up THEN Min({@ + 1, LongSession}) ELSE 0]
  /\ UNCHANGED <<file, steps, op, handler, recorded, verdict, cleared>>

StepBackward ==
  /\ clock > 1 /\ steps < MaxSteps
  /\ clock' = clock - 1 /\ steps' = steps + 1
  /\ UNCHANGED <<file, session, op, handler, recorded, verdict, cleared>>

CrashInit ==
  /\ file = Unreadable /\ clock = 1 /\ steps = 0
  /\ session = NoSession /\ op = Resting /\ handler = Resting
  /\ recorded = << >> /\ verdict = NoVerdict /\ cleared = {}

CrashNext ==
  \/ truncate \/ write
  \/ crash_detector_check \/ crash_detector_record_crash
  \/ crash_detector_record_successful_startup \/ crash_detector_clear_on_graceful_shutdown
  \/ crash_detector_exit_safe_mode \/ crash_handler_install \/ crash_handler_uninstall
  \/ Launch \/ Exit \/ \E worker \in BOOLEAN : Crash(worker)
  \/ read_in_handler \/ crash_detector_record_crash_from_signal
  \/ ClockTick \/ StepBackward

CrashSpec == CrashInit /\ [][CrashNext]_crash_vars

-----------------------------------------------------------------------------
(* LoopsAreDetected: crash_detector_check misses no crash loop among the   *)
(* crashes that were recorded, whatever session wrote them and however     *)
(* their slots were reused, and outside safe mode it reports only real     *)
(* ones (crash_detector.c:158-210).                                        *)
LoopsAreDetected ==
  /\ verdict.answer = "None" => ~verdict.real
  /\ verdict.answer = "Detected" => verdict.real

(* RecordsSurvive: the file keeps the last crashes recorded in it since it *)
(* was cleared or torn (crash_detector.c:198-210, 244-276).                *)
RecordsSurvive ==
  file # Unreadable =>
    /\ Head(file).count = Len(recorded)
    /\ \A i \in 1..Len(recorded) :
         i > Len(recorded) - CRASH_HISTORY_SIZE => Head(file).times[(i - 1) % CRASH_HISTORY_SIZE] = recorded[i]

(* OnlyLongSessionsClear: the history is cleared on exit only by a session *)
(* that really ran that long, even if the clock stepped backward           *)
(* (crash_detector.c:302-330).                                             *)
OnlyLongSessionsClear == \A age \in cleared : age >= LongSession

(* CrashHistoryIsTrue: whatever is interrupted by a crash or a kill, and    *)
(* whichever way the clock steps, a crash loop is found when there is one   *)
(* and only then, records are lost only with a torn file, and the history   *)
(* is cleared only after a long session (crash_detector.c, crash_handler.c).*)
CrashHistoryIsTrue == LoopsAreDetected /\ RecordsSurvive /\ OnlyLongSessionsClear
=============================================================================
