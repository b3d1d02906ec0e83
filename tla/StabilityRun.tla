---------------------------- MODULE StabilityRun ----------------------------
(***************************************************************************)
(* The measuring loop of the long run, src/src/47_long_duration_           *)
(* stability.py: it counts frames, and at the end of every interval writes *)
(* a row to a file and keeps it for the summary.                           *)
(*                                                                         *)
(* Time is counted from start_mono.  It passes between any two steps, and  *)
(* an interrupt from the keyboard may end the loop after any of them.  The *)
(* latencies, the alerts and the use of resources go into the rows and     *)
(* decide nothing.                                                         *)
(***************************************************************************)
EXTENDS Naturals, SequencesExt

CONSTANTS Interval, Duration,
          MaxClock, MaxFrames   \* bounds

VARIABLES
    pc,              \* the step of the loop that comes next
    clock,           \* time.perf_counter() - start_mono
    now,             \* the reading of line 260
    interval_start, next_report,
    total_frames, interval_frames,
    rows,
    file,            \* the rows in the CSV file
    interrupted      \* the loop was left by KeyboardInterrupt

counts == <<total_frames, interval_frames>>
marks == <<interval_start, next_report>>
reports == <<rows, file>>
vars == <<pc, clock, now, marks, counts, reports, interrupted>>

Init ==
    /\ pc = "test" /\ clock = 0 /\ now = 0
    /\ interval_start = 0 /\ next_report = Interval
    /\ total_frames = 0 /\ interval_frames = 0
    /\ rows = <<>> /\ file = <<>> /\ interrupted = FALSE

-----------------------------------------------------------------------------
Tick ==
    /\ clock < MaxClock /\ clock' = clock + 1
    /\ UNCHANGED <<pc, now, marks, counts, reports, interrupted>>

TestEnd == IF clock < Duration THEN "receive" ELSE "done"

Test ==
    /\ pc = "test" /\ pc' = TestEnd
    /\ UNCHANGED <<clock, now, marks, counts, reports, interrupted>>

(* Fault: recv waits for a frame, without a time-out. *)
ReceiveFrame ==
    /\ pc = "receive" /\ pc' = "check"
    /\ total_frames < MaxFrames
    /\ total_frames' = total_frames + 1
    /\ interval_frames' = interval_frames + 1
    /\ UNCHANGED <<clock, now, marks, reports, interrupted>>

(* recv returns a frame, which is counted, or nothing.                     *)
Receive ==
    /\ pc = "receive" /\ pc' = "check"
    /\ \/ /\ total_frames < MaxFrames
          /\ total_frames' = total_frames + 1
          /\ interval_frames' = interval_frames + 1
       \/ UNCHANGED counts
    /\ UNCHANGED <<clock, now, marks, reports, interrupted>>

Check ==
    /\ pc = "check" /\ now' = clock
    /\ pc' = IF clock >= next_report \/ clock >= Duration THEN "keep" ELSE "test"
    /\ UNCHANGED <<clock, marks, counts, reports, interrupted>>

Row == [elapsed |-> now, sec |-> now - interval_start,
        frames |-> interval_frames, cumulative |-> total_frames]

Keep ==
    /\ pc = "keep" /\ pc' = "write"
    /\ rows' = Append(rows, Row)
    /\ UNCHANGED <<clock, now, marks, counts, file, interrupted>>

Write ==
    /\ pc = "write" /\ pc' = "reset"
    /\ file' = Append(file, Last(rows))
    /\ UNCHANGED <<clock, now, marks, counts, rows, interrupted>>

(* Fault: one interval further only, however long the loop was stalled. *)
OneFurther == next_report + Interval

(* The first report later than now.                                        *)
FirstLater ==
    IF next_report > now THEN next_report
    ELSE next_report + Interval * ((now - next_report) \div Interval + 1)

(* Fault: the frames of the interval are counted in the next one, too. *)
ResetTimeOnly ==
    /\ pc = "reset" /\ pc' = "test"
    /\ interval_start' = now /\ next_report' = FirstLater
    /\ UNCHANGED <<clock, now, counts, reports, interrupted>>

Reset ==
    /\ pc = "reset" /\ pc' = "test"
    /\ interval_frames' = 0 /\ interval_start' = now /\ next_report' = FirstLater
    /\ UNCHANGED <<clock, now, total_frames, reports, interrupted>>

(* Fault: the interrupted loop adds a row to the file that it does not keep. *)
InterruptWritesRow ==
    /\ pc # "done" /\ pc' = "done" /\ interrupted' = TRUE
    /\ file' = Append(file, Row)
    /\ UNCHANGED <<clock, now, marks, counts, rows>>

(* Nothing reads the counters of the interval afterwards: where it is in   *)
(* the middle of a step that the interrupt comes makes no difference.      *)
Interrupt ==
    /\ pc # "done" /\ pc' = "done" /\ interrupted' = TRUE
    /\ UNCHANGED <<clock, now, marks, counts, reports>>

Loop == Test \/ Receive \/ Check \/ Keep \/ Write \/ Reset
Next == Tick \/ Loop \/ Interrupt

Spec == Init /\ [][Next]_vars

-----------------------------------------------------------------------------
Steps == {"test", "receive", "check", "keep", "write", "reset", "done"}
Rows == [elapsed : 0 .. MaxClock, sec : 0 .. MaxClock, frames : 0 .. MaxFrames,
         cumulative : 0 .. MaxFrames]

TypeOK ==
    /\ pc \in Steps /\ interrupted \in BOOLEAN
    /\ clock \in 0 .. MaxClock /\ now \in 0 .. clock
    /\ interval_start \in 0 .. now /\ next_report \in Nat
    /\ total_frames \in 0 .. MaxFrames /\ interval_frames \in 0 .. total_frames
    /\ rows \in Seq(Rows) /\ file \in Seq(Rows)

(* The rows of the file leave no time and no frame out and count none      *)
(* twice: each begins where the one before it ends, and its cumulative     *)
(* count is that of the one before it and its own.  Unless the loop was    *)
(* interrupted, no frames but those since the last row are in none.        *)
RowsAddUp ==
    /\ \A i \in DOMAIN file :
         LET before == IF i = 1 THEN [elapsed |-> 0, cumulative |-> 0] ELSE file[i - 1]
         IN  /\ file[i].elapsed = before.elapsed + file[i].sec
             /\ file[i].cumulative = before.cumulative + file[i].frames
    /\ pc = "done" /\ ~interrupted =>
         total_frames = interval_frames + (IF file = <<>> THEN 0 ELSE Last(file).cumulative)

(* No two rows are written in one interval, not even after a stall over    *)
(* several: the last row alone, at the end of the run, may be short.       *)
NotTwoRowsAnInterval == \A i, j \in DOMAIN rows :
    i < j => \/ rows[i].elapsed \div Interval < rows[j].elapsed \div Interval
             \/ rows[j].elapsed >= Duration

(* The summary, made of the rows kept, is that of the rows in the file and *)
(* of one more at most, even if the run is interrupted in a report.        *)
SummaryOfFile ==
    /\ IsPrefix(file, rows)
    /\ Len(rows) <= Len(file) + 1
    /\ pc = "done" /\ ~interrupted => rows = file

(* As long as time passes and the loop goes on, its recv waiting 0.2       *)
(* seconds at most, the run ends, whether or not frames come.              *)
RunEnds == <>(pc = "done")
=============================================================================
