----------------------------- MODULE BackupWork -----------------------------
(***************************************************************************)
(* BackupExecutor, which runs backups, restores and checks one at a time on *)
(* its own thread, with MountedDriveService, which it tells of their        *)
(* progress and of their end.                                               *)
(***************************************************************************)
EXTENDS MountedDriveService, FiniteSets

CONSTANTS
    Jobs,      \* backup jobs
    Endings    \* how a run may end: "unavailable" (RunStatus.UNAVAILABLE), or "done" for every other end

ASSUME WorkAssumption ==
    /\ NoOperation \notin Jobs
    /\ Endings \subseteq {"done", "unavailable"}

VARIABLES
    queued,    \* jobs that have something queued or running
    adding,    \* tasks between queued.add and thread.execute
    tasks,     \* the queue of the executor's thread
    task,      \* what it runs
    worker     \* where it is

work == <<queued, adding, tasks, task, worker>>
vars == <<serviceVars, work>>

Reasons == {"manual", "scheduled"}
NoTask == [job |-> NoOperation, reason |-> "none"]

Init ==
    /\ ServiceInit
    /\ queued = {} /\ adding = {} /\ tasks = <<>> /\ task = NoTask /\ worker = "idle"

-----------------------------------------------------------------------------
\* Mutant: start looks whether the job is queued and adds it later.
StartUnguarded(j, reason) ==
    /\ ~crashed
    /\ j \notin queued \/ \A t \in adding : t.job # j
    /\ queued' = queued \cup {j}
    /\ adding' = adding \cup {[job |-> j, reason |-> reason]}
    /\ UNCHANGED <<serviceVars, tasks, task, worker>>

\* start: from a button, a notification, a delay or the scheduler.  What comes before
\* thread.execute (the run's state, the delay and the prompt of the job) is taken not to
\* throw: a throw there would leave the job queued, and ends the process of its caller.
Start(j, reason) ==
    /\ ~crashed
    /\ j \notin queued
    /\ queued' = queued \cup {j}
    /\ adding' = adding \cup {[job |-> j, reason |-> reason]}
    /\ UNCHANGED <<serviceVars, tasks, task, worker>>

Execute(t) ==
    /\ t \in adding /\ ~crashed
    /\ adding' = adding \ {t}
    /\ tasks' = Append(tasks, t)
    /\ UNCHANGED <<serviceVars, queued, task, worker>>

-----------------------------------------------------------------------------
(* The executor's thread.                                                   *)

Take ==
    /\ worker = "idle" /\ tasks # <<>> /\ ~crashed
    /\ task' = Head(tasks) /\ tasks' = Tail(tasks)
    /\ worker' = "progress"
    /\ UNCHANGED <<serviceVars, queued, adding>>

\* operationProgress: "Starting", and then at most once a second.  An update that comes too
\* soon after the last is not posted.
Progress(soon) ==
    /\ worker = "progress" /\ ~crashed
    /\ operation' = task.job
    /\ worker' = IF operation # NoOperation /\ running /\ soon THEN "run" ELSE "refresh"
    /\ UNCHANGED <<titles, flags, main, mounting, android, queued, adding, tasks, task>>

ProgressRefresh ==
    /\ worker = "refresh" /\ ~crashed
    /\ CallRefresh
    /\ worker' = "run"
    /\ UNCHANGED <<fields, main, mounting, queued, adding, tasks, task>>

Report ==
    /\ worker = "run" /\ ~crashed
    /\ worker' = "progress"
    /\ UNCHANGED <<serviceVars, queued, adding, tasks, task>>

\* A scheduled run that finds its drive unplugged ends without a word.
RunEnds(ending) ==
    /\ worker = "run" /\ ~crashed
    /\ worker' = IF ending = "unavailable" /\ task.reason = "scheduled" THEN "final" ELSE "finish"
    /\ UNCHANGED <<serviceVars, queued, adding, tasks, task>>

\* operationFinished
Finish ==
    /\ worker = "finish" /\ ~crashed
    /\ operation' = NoOperation
    /\ worker' = "finished"
    /\ UNCHANGED <<titles, flags, main, mounting, android, queued, adding, tasks, task>>

FinishRefresh ==
    /\ worker = "finished" /\ ~crashed
    /\ CallRefresh
    /\ worker' = "final"
    /\ UNCHANGED <<fields, main, mounting, queued, adding, tasks, task>>

\* Mutant: the job is never taken out of the set.
FinallyKeepsQueued ==
    /\ worker = "final" /\ ~crashed
    /\ task' = NoTask /\ worker' = "idle"
    /\ UNCHANGED <<serviceVars, queued, adding, tasks>>

Finally ==
    /\ worker = "final" /\ ~crashed
    /\ queued' = queued \ {task.job}
    /\ task' = NoTask /\ worker' = "idle"
    /\ UNCHANGED <<serviceVars, adding, tasks>>

-----------------------------------------------------------------------------
Next ==
    \/ \E drives \in SUBSET Drives : Update(drives) /\ UNCHANGED work
    \/ \E m \in Mounters, drives \in SUBSET Drives : MounterUpdate(m, drives) /\ UNCHANGED work
    \/ ServiceStep /\ UNCHANGED work
    \/ \E j \in Jobs, reason \in Reasons : Start(j, reason)
    \/ \E t \in adding : Execute(t)
    \/ Take \/ ProgressRefresh \/ Report \/ Finish \/ FinishRefresh \/ Finally
    \/ \E soon \in BOOLEAN : Progress(soon)
    \/ \E ending \in Endings : RunEnds(ending)

\* The main thread's queue is first in, first out, so what Android has queued gets its turn
\* however often drives come and go.  Every start() runs to its end, and so does every
\* update() and the executor's thread.  A run ends, however many reports it makes: what it reads is finite.
Fairness ==
    /\ WF_vars((MainRefresh \/ InForeground \/ CheckNeeded \/ Refusing \/ StopSelf) /\ UNCHANGED work)
    /\ SF_vars(HandleEvent /\ UNCHANGED work)
    /\ \A m \in Mounters : WF_vars(MounterRefresh(m) /\ UNCHANGED work)
    /\ \A j \in Jobs, reason \in Reasons : WF_vars(Execute([job |-> j, reason |-> reason]))
    /\ WF_vars(Take \/ ProgressRefresh \/ Finish \/ FinishRefresh \/ Finally
               \/ \E soon \in BOOLEAN : Progress(soon))
    /\ SF_vars(\E ending \in Endings : RunEnds(ending))

Spec == Init /\ [][Next]_vars /\ Fairness

-----------------------------------------------------------------------------
(* Properties.                                                              *)

(* The shape of the service's fields and of the executor's queue.           *)
TypeOK ==
    /\ ServiceTypeOK
    /\ operation \in Jobs \cup {NoOperation}
    /\ queued \subseteq Jobs
    /\ adding \subseteq [job : Jobs, reason : Reasons]
    /\ tasks \in Seq([job : Jobs, reason : Reasons])
    /\ task \in [job : Jobs, reason : Reasons] \cup {NoTask}
    /\ worker \in {"idle", "progress", "refresh", "run", "finish", "finished", "final"}

\* "False if that job already has something queued or running" (BackupExecutor.start): a
\* job in the queue has one task, whoever started it, and one that is not has none.
OneTaskPerJob ==
    \A j \in Jobs :
        Cardinality({t \in adding : t.job = j}) + Cardinality({i \in DOMAIN tasks : tasks[i].job = j})
            + (IF task.job = j THEN 1 ELSE 0)
        = (IF j \in queued THEN 1 ELSE 0)

\* "Stopping a service before it has called startForeground crashes the process"
\* (onStartCommand): no order of drives, runs and Android's calls does that, unless
\* Android has refused startForeground itself.
StopsOnlyAfterStart == crashed => refused

\* "A running foreground service exempts the process" from being frozen (MountedDriveService):
\* whenever no thread has anything left to do for the service, it is in the foreground if a
\* drive is mounted or a run goes on, unless Android has refused it, or no permitted USB
\* device was there when it was asked for and an ordinary notification stands in for it.
ForegroundWhileNeeded ==
    main = "idle" /\ mounting = {} /\ events = <<>> /\ worker \in {"idle", "run"} /\ ~crashed =>
        (titles # {} \/ worker = "run" => Foreground \/ refused \/ plainPosted)

\* A job that is queued is run, and leaves the queue.
QueuedJobsEnd == \A j \in Jobs : (j \in queued) ~> (j \notin queued \/ crashed)

\* "Started from the activity when the first drive mounts; stopped when the last one goes"
\* (MountedDriveService): with no drive mounted and nothing to run the service ends.
EndsWhenNothingIsLeft ==
    (titles = {} /\ queued = {}) ~> (~Foreground \/ titles # {} \/ queued # {} \/ crashed)
=============================================================================
