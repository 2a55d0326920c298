--------------------------- MODULE SizeEstimation ---------------------------
(***************************************************************************)
(* The "Measuring size..." feature of the create-backup form (and the      *)
(* identical handlePathBlur of the edit-backup dialog).  Leaving the       *)
(* source path field POSTs measureSize, which returns a task id; an        *)
(* interval then polls getTaskResult every second, and a 30 s timeout      *)
(* clears the interval.  The server's du -sk task ends on its own time.    *)
(*                                                                         *)
(* Blur number k is measurement k.  Each blur runs the handlePathBlur of   *)
(* the latest render, so its closures see isMeasuring as it was at that    *)
(* blur: captured[k].  An interval tick's request is async: clearInterval  *)
(* does not cancel a request already sent, and its reply is still handled. *)
(* Paths and sizes are abstracted to the measurement they belong to.       *)
(***************************************************************************)
EXTENDS Naturals

CONSTANTS
    MaxBlurs   \* bound on blurs of the source path field

Meas == 1..MaxBlurs
NoSize == 0

\* What getTaskResult can answer for a task in each server state: a JSON
\* object (truthy) whose status is the task's, or an error (non-2xx or a
\* network failure), which the poll ignores.
Answers(st) ==
    CASE st = "pending"   -> {"error", "pending"}
      [] st = "completed" -> {"error", "completed"}
      [] st = "failed"    -> {"error", "failed"}

VARIABLES
    isMeasuring,  \* the isMeasuring state ("Measuring size..." shown)
    measuredSize, \* the measurement whose size is shown, or NoSize
    blurs,        \* blurs so far; the latest measurement is blurs
    req,          \* req[k]: the measureSize POST of k
    task,         \* task[k]: server state of k's size task
    polling,      \* polling[k]: k's interval is active
    inflight,     \* inflight[k]: a getTaskResult of k awaits its reply
    timer,        \* timer[k]: k's 30 s timeout is pending
    captured      \* captured[k]: isMeasuring as k's closures see it

vars == <<isMeasuring, measuredSize, blurs, req, task, polling, inflight,
          timer, captured>>

TypeOK ==
    /\ isMeasuring \in BOOLEAN
    /\ measuredSize \in Meas \cup {NoSize}
    /\ blurs \in 0..MaxBlurs
    /\ req \in [Meas -> {"none", "sent", "done"}]
    /\ task \in [Meas -> {"none", "pending", "completed", "failed"}]
    /\ polling \in [Meas -> BOOLEAN]
    /\ inflight \in [Meas -> BOOLEAN]
    /\ timer \in [Meas -> BOOLEAN]
    /\ captured \in [Meas -> BOOLEAN]

Init ==
    /\ isMeasuring = FALSE
    /\ measuredSize = NoSize
    /\ blurs = 0
    /\ req = [k \in Meas |-> "none"]
    /\ task = [k \in Meas |-> "none"]
    /\ polling = [k \in Meas |-> FALSE]
    /\ inflight = [k \in Meas |-> FALSE]
    /\ timer = [k \in Meas |-> FALSE]
    /\ captured = [k \in Meas |-> FALSE]

\* handlePathBlur with a non-empty path: isMeasuring = true, the shown
\* size is cleared, and measureSize(hostId, path) is awaited.
PathBlur ==
    /\ blurs < MaxBlurs
    /\ LET k == blurs + 1 IN
         /\ blurs' = k
         /\ captured' = [captured EXCEPT ![k] = isMeasuring]
         /\ req' = [req EXCEPT ![k] = "sent"]
    /\ isMeasuring' = TRUE
    /\ measuredSize' = NoSize
    /\ UNCHANGED <<task, polling, inflight, timer>>

\* measureSize answers: with a task id the interval and the timeout are
\* set up; on error isMeasuring = false.
MeasureReply(k) ==
    /\ req[k] = "sent"
    /\ req' = [req EXCEPT ![k] = "done"]
    /\ \/ /\ task' = [task EXCEPT ![k] = "pending"]
          /\ polling' = [polling EXCEPT ![k] = TRUE]
          /\ timer' = [timer EXCEPT ![k] = TRUE]
          /\ UNCHANGED isMeasuring
       \/ /\ isMeasuring' = FALSE
          /\ UNCHANGED <<task, polling, timer>>
    /\ UNCHANGED <<measuredSize, blurs, inflight, captured>>

\* The server's size task ends (spec 4.6: completed with a size, or failed).
TaskEnds(k) ==
    /\ task[k] = "pending"
    /\ \E st \in {"completed", "failed"} : task' = [task EXCEPT ![k] = st]
    /\ UNCHANGED <<isMeasuring, measuredSize, blurs, req, polling, inflight,
                   timer, captured>>

\* The interval fires: getTaskResult(task_id) is sent.
PollSend(k) ==
    /\ polling[k]
    /\ ~inflight[k]
    /\ inflight' = [inflight EXCEPT ![k] = TRUE]
    /\ UNCHANGED <<isMeasuring, measuredSize, blurs, req, task, polling,
                   timer, captured>>

\* The reply: an error is ignored; any result object clears the interval,
\* shows result.data.size if it has one, and sets isMeasuring = false.
PollReply(k) ==
    /\ inflight[k]
    /\ inflight' = [inflight EXCEPT ![k] = FALSE]
    /\ \E r \in Answers(task[k]) :
         IF r = "error"
         THEN UNCHANGED <<polling, measuredSize, isMeasuring>>
         ELSE /\ polling' = [polling EXCEPT ![k] = FALSE]
              /\ measuredSize' = IF r = "completed" THEN k ELSE measuredSize
              /\ isMeasuring' = FALSE
    /\ UNCHANGED <<blurs, req, task, timer, captured>>

\* After 30 s: clearInterval(poll); if (isMeasuring) setIsMeasuring(false)
\* -- with isMeasuring read from the blur's closure.
Timeout(k) ==
    /\ timer[k]
    /\ timer' = [timer EXCEPT ![k] = FALSE]
    /\ polling' = [polling EXCEPT ![k] = FALSE]
    /\ isMeasuring' = IF captured[k] THEN FALSE ELSE isMeasuring
    /\ UNCHANGED <<measuredSize, blurs, req, task, inflight, captured>>

Next ==
    \/ PathBlur
    \/ \E k \in Meas :
         \/ MeasureReply(k) \/ TaskEnds(k) \/ PollSend(k) \/ PollReply(k)
         \/ Timeout(k)

\* The browser fires intervals and timeouts and delivers replies, and the
\* server's task ends; the user's blurs are not forced.
Fairness ==
    \A k \in Meas :
        /\ WF_vars(MeasureReply(k)) /\ WF_vars(TaskEnds(k))
        /\ WF_vars(PollSend(k)) /\ WF_vars(PollReply(k))
        /\ WF_vars(Timeout(k))

Spec == Init /\ [][Next]_vars /\ Fairness

-----------------------------------------------------------------------------
(* Properties                                                              *)

\* "Measuring size..." does not stay forever: a measurement either shows a
\* result or is given up after the timeout (spec 4.6: exceeding the timeout
\* is not an error, the estimation simply goes unobserved).
MeasuringEnds == isMeasuring ~> ~isMeasuring

=============================================================================
