-------------------------- MODULE BackupWorkProofs --------------------------
(***************************************************************************)
(* Proofs about modules MountedDriveService and BackupWork, for any drives   *)
(* and any jobs: the foreground service is never stopped before it has       *)
(* called startForeground unless Android refused that call, it is up         *)
(* whenever it is needed, and a job never has two tasks.                     *)
(***************************************************************************)
EXTENDS BackupWork, FiniteSetTheorems, SequenceTheorems, TLAPS

USE WorkAssumption

-----------------------------------------------------------------------------
(* The inductive invariant.  The service goes through five phases while the *)
(* process lives; in each one its flags, the calls Android has queued and   *)
(* where the main thread is determine one another.                          *)

\* Android does not have the service; at most its end is still to be told.
Off ==
    /\ ~record /\ ~mine /\ ~promised /\ ~startPending /\ ~running
    /\ events \in {<<>>, <<"destroy">>}
    /\ main \in {"idle", "refresh", "check"}

\* startForegroundService was called, and onStartCommand has not run.
Asked ==
    /\ record /\ ~mine /\ promised /\ startPending /\ ~running
    /\ events \in {<<"start">>, <<"destroy", "start">>}
    /\ main \in {"idle", "refresh", "check"}

\* onStartCommand has called startForeground, which returned or threw.
Starting ==
    /\ record /\ mine /\ startPending /\ ~running
    /\ events = <<>>
    /\ \/ main = "started" /\ ~promised
       \/ main = "refusing" /\ promised

\* The service is in the foreground.
Up ==
    /\ record /\ mine /\ ~promised /\ ~startPending /\ running
    /\ events = <<>>
    /\ main \in {"idle", "refresh", "check"}

\* Android refused startForeground and the service is about to stop itself.  The thread of
\* the backups may have asked for it again meanwhile.
Stopping ==
    /\ refused /\ record /\ mine /\ promised /\ ~running
    /\ events = IF startPending THEN <<"start">> ELSE <<>>
    /\ main = "stop"

\* Android has ended the process over a service stopped too early.
Ended ==
    /\ refused /\ ~record /\ ~running
    /\ events \in {<<"destroy">>, <<"start", "destroy">>}
    /\ main = "idle"

Phase == IF crashed THEN Ended ELSE Off \/ Asked \/ Starting \/ Up \/ Stopping

\* A drive that is mounted while the service is down is about to be shown, or was refused,
\* or has an ordinary notification.
DrivesShown ==
    ~crashed /\ ~record /\ titles # {} => main = "refresh" \/ mounting # {} \/ refused \/ plainPosted

\* A run has a task and shows it: operation is its job from the first report on, and a run
\* that goes on while the service is down was refused it or has an ordinary notification.
RunShown ==
    /\ worker \in {"progress", "refresh", "run"} => task.job \in Jobs
    /\ worker \in {"refresh", "run"} => operation = task.job
    /\ ~crashed /\ ~record /\ worker = "run" => refused \/ plainPosted

\* The types of all but the calls Android has queued, which the phases bound.
WorkType ==
    /\ operation \in Jobs \cup {NoOperation}
    /\ queued \subseteq Jobs
    /\ adding \subseteq [job : Jobs, reason : Reasons]
    /\ tasks \in Seq([job : Jobs, reason : Reasons])
    /\ task \in [job : Jobs, reason : Reasons] \cup {NoTask}
    /\ worker \in {"idle", "progress", "refresh", "run", "finish", "finished", "final"}
    /\ worker = "idle" => task = NoTask

\* The tasks of one job: it has at most one, in one place, and has one just when it is queued.
OnePlace ==
    /\ \A s, t \in adding : s.job = t.job => s = t
    /\ \A i, k \in DOMAIN tasks : tasks[i].job = tasks[k].job => i = k
    /\ \A t \in adding : \A i \in DOMAIN tasks : t.job # tasks[i].job
    /\ \A t \in adding : t.job \in queued /\ t.job # task.job
    /\ \A i \in DOMAIN tasks : tasks[i].job \in queued /\ tasks[i].job # task.job
    /\ task.job \in Jobs => task.job \in queued
    /\ \A j \in queued : \/ task.job = j
                         \/ \E t \in adding : t.job = j
                         \/ \E i \in DOMAIN tasks : tasks[i].job = j

Service == FlagType /\ titles \subseteq Drives /\ mounting \subseteq Mounters /\ Phase

Inv == Service /\ WorkType /\ DrivesShown /\ RunShown /\ OnePlace

-----------------------------------------------------------------------------
(* The service.                                                             *)

\* A second call behind the first.
LEMMA AppendSecond == ASSUME NEW S, NEW a \in S, NEW b \in S PROVE Append(<<a>>, b) = <<a, b>>
<1>1. <<a>> \in Seq(S) /\ Len(<<a>>) = 1 /\ <<a>>[1] = a
  OBVIOUS
<1>2. <<a, b>> \in Seq(S) /\ Len(<<a, b>>) = 2 /\ <<a, b>>[1] = a /\ <<a, b>>[2] = b
  OBVIOUS
<1>3. /\ Append(<<a>>, b) \in Seq(S) /\ Len(Append(<<a>>, b)) = 2
      /\ Append(<<a>>, b)[1] = a /\ Append(<<a>>, b)[2] = b
  BY <1>1, AppendProperties
<1> DEFINE s == Append(<<a>>, b)
           t == <<a, b>>
<1>4. s \in Seq(S) /\ t \in Seq(S) /\ Len(s) = Len(t) /\ \A i \in 1 .. Len(s) : s[i] = t[i]
  BY <1>2, <1>3
<1> HIDE DEF s, t
<1>5. s = t
  BY <1>4, SeqEqual
<1> QED
  BY <1>5 DEF s, t

\* What Android's queue holds after a call is queued or taken.
LEMMA Queues ==
    /\ Append(<<>>, "start") = <<"start">> /\ Append(<<>>, "destroy") = <<"destroy">>
    /\ Append(<<"destroy">>, "start") = <<"destroy", "start">>
    /\ Append(<<"start">>, "destroy") = <<"start", "destroy">>
    /\ Tail(<<"start">>) = <<>> /\ Tail(<<"destroy">>) = <<>>
    /\ Tail(<<"destroy", "start">>) = <<"start">>
    /\ Head(<<"start">>) = "start" /\ Head(<<"destroy">>) = "destroy"
    /\ Head(<<"destroy", "start">>) = "destroy"
    /\ <<"start">> # <<>> /\ <<"destroy">> # <<>> /\ <<"destroy", "start">> # <<>>
    /\ <<"start">> # <<"destroy">>
<1>1. Append(<<>>, "start") = <<"start">> /\ Append(<<>>, "destroy") = <<"destroy">>
  OBVIOUS
<1>2. Append(<<"destroy">>, "start") = <<"destroy", "start">>
  BY AppendSecond, "start" \in {"start", "destroy"}, "destroy" \in {"start", "destroy"}
<1>3. Append(<<"start">>, "destroy") = <<"start", "destroy">>
  BY AppendSecond, "start" \in {"start", "destroy"}, "destroy" \in {"start", "destroy"}
<1>4. Tail(<<"start">>) = <<>> /\ Tail(<<"destroy">>) = <<>>
  OBVIOUS
<1>5. Tail(<<"destroy", "start">>) = <<"start">>
  OBVIOUS
<1>6. Head(<<"start">>) = "start" /\ Head(<<"destroy">>) = "destroy" /\ Head(<<"destroy", "start">>) = "destroy"
  OBVIOUS
<1>7. <<"start">> # <<>> /\ <<"destroy">> # <<>> /\ <<"destroy", "start">> # <<>> /\ <<"start">> # <<"destroy">>
  OBVIOUS
<1> QED
  BY <1>1, <1>2, <1>3, <1>4, <1>5, <1>6, <1>7

\* refresh moves the service from phase to phase, on whichever thread it runs.
LEMMA RefreshPhase ==
    ASSUME NEW mayRun \in BOOLEAN, NEW allowed \in BOOLEAN,
           Service, ~crashed, Refresh(mayRun, allowed),
           titles' = titles, mounting' \subseteq mounting, main' = main \/ (main = "refresh" /\ main' = "idle")
    PROVE  Service'
<1> USE Queues DEF flags, android
<1>1. FlagType'
  BY DEF Service, FlagType, Refresh, StartService, StopService
<1>2. CASE UNCHANGED <<flags, android>>
  BY <1>1, <1>2 DEF Service, Phase, Ended, Off, Asked, Starting, Up, Stopping
<1>3. CASE Off
  BY <1>1, <1>3 DEF Service, FlagType, Phase, Ended, Off, Asked, Refresh, StartService, StopService
<1>4. CASE Up
  BY <1>1, <1>4 DEF Service, FlagType, Phase, Ended, Off, Up, Refresh, StartService, StopService
<1>5. CASE Stopping
  BY <1>1, <1>5 DEF Service, FlagType, Phase, Ended, Stopping, Refresh, StartService, StopService
<1>6. CASE Asked
  BY <1>1, <1>6 DEF Service, FlagType, Phase, Ended, Asked, Refresh, StartService, StopService
<1>7. CASE Starting
  BY <1>1, <1>7 DEF Service, FlagType, Phase, Ended, Starting, Refresh, StartService, StopService
<1> QED
  BY <1>3, <1>4, <1>5, <1>6, <1>7 DEF Service, Phase

\* The steps of the main thread, Android's calls among them, and of the mounting threads.
ServiceSteps ==
    \/ \E drives \in SUBSET Drives : Update(drives)
    \/ \E m \in Mounters, drives \in SUBSET Drives : MounterUpdate(m, drives)
    \/ ServiceStep

\* They move it likewise.  Only the service's
\* own stop after a refused startForeground can end the process.
LEMMA MainPhase ==
    ASSUME Service, ServiceSteps
    PROVE  Service'
<1> USE Queues DEF flags, fields, android
<1>1. ASSUME NEW drives \in SUBSET Drives, Update(drives) PROVE Service'
  BY <1>1 DEF Update, Service, FlagType, Phase, Ended, Off, Asked, Starting, Up, Stopping
<1>2. CASE MainRefresh
  <2>1. PICK mayRun \in BOOLEAN, allowed \in BOOLEAN : Refresh(mayRun, allowed)
    BY <1>2 DEF MainRefresh, CallRefresh
  <2>2. ~crashed /\ titles' = titles /\ mounting' \subseteq mounting /\ main = "refresh" /\ main' = "idle"
    BY <1>2 DEF MainRefresh
  <2> QED
    BY <2>1, <2>2, RefreshPhase
<1>3. ASSUME NEW allowed \in BOOLEAN, OnStartCommand(allowed) PROVE Service'
  <2>1. FlagType' /\ titles' \subseteq Drives /\ mounting' \subseteq Mounters /\ ~crashed'
    BY <1>3 DEF OnStartCommand, Service, FlagType
  <2>2. Asked /\ events = <<"start">>
    BY <1>3 DEF OnStartCommand, Service, FlagType, Phase, Off, Asked, Starting, Up, Stopping
  <2>3. Starting'
    BY <1>3, <2>2 DEF OnStartCommand, Service, FlagType, Asked, Starting
  <2> QED
    BY <2>1, <2>3 DEF Service, Phase
<1>4. CASE OnDestroy
  BY <1>4 DEF OnDestroy, Service, FlagType, Phase, Ended, Off, Asked, Starting, Up, Stopping
<1>5. CASE InForeground
  BY <1>5 DEF InForeground, Service, FlagType, Phase, Ended, Off, Asked, Starting, Up, Stopping
<1>6. CASE CheckNeeded
  BY <1>6 DEF CheckNeeded, StopService, Service, FlagType, Phase, Ended, Off, Asked, Starting, Up, Stopping
<1>7. CASE Refusing
  BY <1>7 DEF Refusing, Service, FlagType, Phase, Ended, Off, Asked, Starting, Up, Stopping
<1>8. CASE StopSelf
  BY <1>8 DEF StopSelf, StopService, Service, FlagType, Phase, Ended, Off, Asked, Starting, Up, Stopping
<1>9. ASSUME NEW m \in Mounters, NEW drives \in SUBSET Drives, MounterUpdate(m, drives) PROVE Service'
  BY <1>9 DEF MounterUpdate, Service, FlagType, Phase, Ended, Off, Asked, Starting, Up, Stopping
<1>10. ASSUME NEW m \in Mounters, MounterRefresh(m) PROVE Service'
  <2>1. PICK mayRun \in BOOLEAN, allowed \in BOOLEAN : Refresh(mayRun, allowed)
    BY <1>10 DEF MounterRefresh, CallRefresh
  <2>2. ~crashed /\ titles' = titles /\ mounting' \subseteq mounting /\ main' = main
    BY <1>10 DEF MounterRefresh
  <2> QED
    BY <2>1, <2>2, RefreshPhase
<1> QED
  BY <1>1, <1>2, <1>3, <1>4, <1>5, <1>6, <1>7, <1>8, <1>9, <1>10 DEF ServiceSteps, ServiceStep, HandleEvent

-----------------------------------------------------------------------------
(* What is shown.                                                           *)

\* refresh leaves nothing that is needed without the service, a refusal or a notification.
LEMMA RefreshShows ==
    ASSUME NEW mayRun \in BOOLEAN, NEW allowed \in BOOLEAN,
           Service, ~crashed, Refresh(mayRun, allowed),
           ~record'
    PROVE  titles # {} \/ operation # NoOperation => refused' \/ plainPosted'
  BY DEF flags, android, Refresh, StartService, StopService, Needed, Service, FlagType,
         Phase, Off, Asked, Starting, Up, Stopping

\* A step of these threads keeps what is mounted and what runs shown.
LEMMA MainShows ==
    ASSUME Service, WorkType, DrivesShown, RunShown, UNCHANGED work, ServiceSteps
    PROVE  DrivesShown' /\ RunShown' /\ WorkType'
<1> USE DEF flags, fields, android, work
<1>1. WorkType' /\ operation' = operation
  BY DEF ServiceSteps, Update, MounterUpdate, MounterRefresh, ServiceStep, HandleEvent, MainRefresh, OnStartCommand, OnDestroy,
         InForeground, CheckNeeded, Refusing, StopSelf, WorkType
<1>2. worker = "run" => operation # NoOperation
  BY DEF RunShown
<1>3. ASSUME NEW drives \in SUBSET Drives, Update(drives) PROVE DrivesShown' /\ RunShown'
  BY <1>3 DEF Update, DrivesShown, RunShown
<1>4. CASE MainRefresh
  <2>1. PICK mayRun \in BOOLEAN, allowed \in BOOLEAN : Refresh(mayRun, allowed)
    BY <1>4 DEF MainRefresh, CallRefresh
  <2>2. ~crashed /\ UNCHANGED fields
    BY <1>4 DEF MainRefresh
  <2> QED
    BY <1>1, <1>2, <2>1, <2>2, RefreshShows DEF DrivesShown, RunShown
<1>5. ASSUME NEW allowed \in BOOLEAN, OnStartCommand(allowed) PROVE DrivesShown' /\ RunShown'
  BY <1>5 DEF OnStartCommand, DrivesShown, RunShown
<1>6. CASE OnDestroy
  BY <1>1, <1>6 DEF OnDestroy, DrivesShown, RunShown
<1>7. CASE InForeground
  BY <1>1, <1>7 DEF InForeground, Service, Phase, Off, Asked, Starting, Up, Stopping, DrivesShown, RunShown
<1>8. CASE CheckNeeded
  BY <1>1, <1>2, <1>8 DEF CheckNeeded, StopService, Needed, DrivesShown, RunShown
<1>9. CASE Refusing
  BY <1>1, <1>9 DEF Refusing, DrivesShown, RunShown
<1>10. CASE StopSelf
  BY <1>1, <1>10 DEF StopSelf, StopService, Service, Phase, Off, Asked, Starting, Up, Stopping,
               DrivesShown, RunShown
<1>11. ASSUME NEW m \in Mounters, NEW drives \in SUBSET Drives, MounterUpdate(m, drives)
       PROVE  DrivesShown' /\ RunShown'
  BY <1>11 DEF MounterUpdate, DrivesShown, RunShown
<1>12. ASSUME NEW m \in Mounters, MounterRefresh(m) PROVE DrivesShown' /\ RunShown'
  <2>1. PICK mayRun \in BOOLEAN, allowed \in BOOLEAN : Refresh(mayRun, allowed)
    BY <1>12 DEF MounterRefresh, CallRefresh
  <2>2. ~crashed /\ UNCHANGED fields
    BY <1>12 DEF MounterRefresh
  <2> QED
    BY <1>1, <1>2, <2>1, <2>2, RefreshShows DEF DrivesShown, RunShown
<1> QED
  BY <1>1, <1>3, <1>4, <1>5, <1>6, <1>7, <1>8, <1>9, <1>10, <1>11, <1>12
     DEF ServiceSteps, ServiceStep, HandleEvent

\* So does refresh on the thread of the backups, after a report and after the run's end.
LEMMA WorkerRefresh ==
    ASSUME Service, WorkType, DrivesShown, RunShown, ProgressRefresh \/ FinishRefresh
    PROVE  Service' /\ WorkType' /\ DrivesShown' /\ RunShown'
<1> USE DEF flags, fields, android
<1>1. PICK mayRun \in BOOLEAN, allowed \in BOOLEAN : Refresh(mayRun, allowed)
  BY DEF ProgressRefresh, FinishRefresh, CallRefresh
<1>2. ~crashed /\ UNCHANGED <<fields, main, mounting, queued, adding, tasks, task>>
  BY DEF ProgressRefresh, FinishRefresh
<1>3. Service'
  BY <1>1, <1>2, RefreshPhase
<1>4. WorkType'
  BY <1>2 DEF ProgressRefresh, FinishRefresh, WorkType
<1>5. DrivesShown'
  BY <1>1, <1>2, RefreshShows DEF DrivesShown
<1>6. RunShown'
  <2>1. CASE ProgressRefresh
    BY <1>1, <1>2, <2>1, RefreshShows DEF ProgressRefresh, RunShown
  <2>2. CASE FinishRefresh
    BY <1>2, <2>2 DEF FinishRefresh, RunShown
  <2> QED
    BY <2>1, <2>2
<1> QED
  BY <1>3, <1>4, <1>5, <1>6

-----------------------------------------------------------------------------
(* The queue.                                                               *)

\* thread.execute moves a task from those being added to the end of the queue.
LEMMA ExecuteKeepsPlaces ==
    ASSUME WorkType, OnePlace, NEW t \in adding, Execute(t)
    PROVE  OnePlace'
<1>1. /\ Len(tasks') = Len(tasks) + 1 /\ tasks'[Len(tasks) + 1] = t
      /\ DOMAIN tasks' = 1 .. Len(tasks) + 1 /\ DOMAIN tasks = 1 .. Len(tasks) /\ Len(tasks) \in Nat
      /\ \A i \in DOMAIN tasks : tasks'[i] = tasks[i]
  BY DEF Execute, WorkType
<1>2. adding' = adding \ {t} /\ UNCHANGED <<queued, task>>
  BY DEF Execute
<1>3. \A i \in DOMAIN tasks' : i \in DOMAIN tasks \/ i = Len(tasks) + 1
  BY <1>1
<1>4. ~(Len(tasks) + 1 \in DOMAIN tasks)
  BY <1>1
<1>5. \A i, k \in DOMAIN tasks' : tasks'[i].job = tasks'[k].job => i = k
  BY <1>1, <1>3 DEF OnePlace
<1>6. \A s \in adding' : \A i \in DOMAIN tasks' : s.job # tasks'[i].job
  BY <1>1, <1>2, <1>3 DEF OnePlace
<1>7. \A i \in DOMAIN tasks' : tasks'[i].job \in queued' /\ tasks'[i].job # task'.job
  BY <1>1, <1>2, <1>3 DEF OnePlace
<1>8. ASSUME NEW j \in queued' 
      PROVE  \/ task'.job = j
             \/ \E s \in adding' : s.job = j
             \/ \E i \in DOMAIN tasks' : tasks'[i].job = j
  BY <1>1, <1>2 DEF OnePlace
<1> QED
  BY <1>2, <1>5, <1>6, <1>7, <1>8 DEF OnePlace

\* The thread takes the first task of the queue while it has none.
LEMMA TakeKeepsPlaces ==
    ASSUME WorkType, OnePlace, Take
    PROVE  OnePlace' /\ task' \in [job : Jobs, reason : Reasons] /\ tasks' \in Seq([job : Jobs, reason : Reasons])
<1>1. /\ task' = tasks[1] /\ Len(tasks) \in Nat /\ Len(tasks) > 0
      /\ DOMAIN tasks = 1 .. Len(tasks) /\ DOMAIN tasks' = 1 .. (Len(tasks) - 1)
      /\ \A i \in DOMAIN tasks' : tasks'[i] = tasks[i + 1]
      /\ tasks' \in Seq([job : Jobs, reason : Reasons])
  BY DEF Take, WorkType
<1>2. task.job = NoOperation /\ UNCHANGED <<queued, adding>> /\ 1 \in DOMAIN tasks
  BY <1>1 DEF Take, WorkType, NoTask
<1>3. \A i \in DOMAIN tasks' : i + 1 \in DOMAIN tasks /\ i + 1 # 1
  BY <1>1
<1>4. \A i \in DOMAIN tasks : i = 1 \/ (i - 1 \in DOMAIN tasks' /\ tasks'[i - 1] = tasks[i])
  BY <1>1
<1>5. task' \in [job : Jobs, reason : Reasons]
  <2>1. \A i \in 1 .. Len(tasks) : tasks[i] \in [job : Jobs, reason : Reasons]
    BY ElementOfSeq DEF WorkType
  <2> QED
    BY <1>1, <2>1
<1>6. \A i, k \in DOMAIN tasks' : tasks'[i].job = tasks'[k].job => i = k
  <2> SUFFICES ASSUME NEW i \in DOMAIN tasks', NEW k \in DOMAIN tasks', tasks'[i].job = tasks'[k].job
               PROVE  i = k
    OBVIOUS
  <2>1. i + 1 = k + 1
    BY <1>1, <1>3 DEF OnePlace
  <2> QED
    BY <1>1, <2>1
<1>7. \A i \in DOMAIN tasks' : tasks'[i].job \in queued' /\ tasks'[i].job # task'.job
  BY <1>1, <1>2, <1>3 DEF OnePlace
<1>8. \A t \in adding' : \A i \in DOMAIN tasks' : t.job # tasks'[i].job
  BY <1>1, <1>2, <1>3 DEF OnePlace
<1>9. \A t \in adding' : t.job \in queued' /\ t.job # task'.job
  BY <1>1, <1>2 DEF OnePlace
<1>10. ASSUME NEW j \in queued' 
       PROVE  \/ task'.job = j
              \/ \E s \in adding' : s.job = j
              \/ \E i \in DOMAIN tasks' : tasks'[i].job = j
  <2>1. j # NoOperation
    BY <1>2 DEF WorkType
  <2>2. CASE \E i \in DOMAIN tasks : tasks[i].job = j
    BY <1>1, <1>4, <2>2
  <2> QED
    BY <1>2, <2>1, <2>2 DEF OnePlace
<1> QED
  BY <1>1, <1>2, <1>5, <1>6, <1>7, <1>8, <1>9, <1>10 DEF OnePlace

\* start adds a task for a job that has none.
LEMMA StartKeepsPlaces ==
    ASSUME WorkType, OnePlace, NEW j \in Jobs, NEW reason \in Reasons, Start(j, reason)
    PROVE  OnePlace' /\ queued' \subseteq Jobs /\ adding' \subseteq [job : Jobs, reason : Reasons]
<1> DEFINE new == [job |-> j, reason |-> reason]
<1>1. /\ j \notin queued /\ queued' = queued \cup {j} /\ adding' = adding \cup {new}
      /\ UNCHANGED <<tasks, task>>
  BY DEF Start
<1>2. new \in [job : Jobs, reason : Reasons] /\ new.job = j
  OBVIOUS
<1> HIDE DEF new
<1>3. queued' \subseteq Jobs /\ adding' \subseteq [job : Jobs, reason : Reasons]
  BY <1>1, <1>2 DEF WorkType
<1>4. j # task.job
  BY <1>1 DEF OnePlace
<1>5. \A s, t \in adding' : s.job = t.job => s = t
  BY <1>1, <1>2 DEF OnePlace
<1>6. \A t \in adding' : \A i \in DOMAIN tasks : t.job # tasks[i].job
  BY <1>1, <1>2 DEF OnePlace
<1>7. \A t \in adding' : t.job \in queued' /\ t.job # task.job
  BY <1>1, <1>2, <1>4 DEF OnePlace
<1>8. ASSUME NEW k \in queued'
      PROVE  \/ task.job = k
             \/ \E t \in adding' : t.job = k
             \/ \E i \in DOMAIN tasks : tasks[i].job = k
  BY <1>1, <1>2 DEF OnePlace
<1> QED
  BY <1>1, <1>3, <1>5, <1>6, <1>7, <1>8 DEF OnePlace

\* The end of a run takes its job out of the set, and its task with it.
LEMMA FinallyKeepsPlaces ==
    ASSUME WorkType, OnePlace, Finally
    PROVE  OnePlace'
<1>1. queued' = queued \ {task.job} /\ task' = NoTask /\ UNCHANGED <<adding, tasks>>
  BY DEF Finally
<1>2. task'.job = NoOperation
  BY <1>1 DEF NoTask
<1>3. NoOperation \notin queued
  BY DEF WorkType
<1> QED
  BY <1>1, <1>2, <1>3 DEF OnePlace

-----------------------------------------------------------------------------
(* The invariant holds.                                                     *)

\* At the start there is no service and no task.
LEMMA InitInv == Init => Inv
<1> SUFFICES ASSUME Init PROVE Inv
  OBVIOUS
<1>1. Service
  BY DEF Init, ServiceInit, Service, FlagType, Phase, Off
<1>2. WorkType
  BY DEF Init, ServiceInit, WorkType
<1>3. DrivesShown /\ RunShown
  BY DEF Init, ServiceInit, DrivesShown, RunShown
<1>4. OnePlace
  <2>1. DOMAIN tasks = {} /\ adding = {} /\ queued = {} /\ task.job = NoOperation
    BY DEF Init, NoTask
  <2> QED
    BY <2>1 DEF OnePlace
<1> QED
  BY <1>1, <1>2, <1>3, <1>4 DEF Inv

\* Every step of the main thread, of Android and of the executor keeps it.
LEMMA StepInv == Inv /\ [Next]_vars => Inv'
<1> SUFFICES ASSUME Inv, [Next]_vars PROVE Inv'
  OBVIOUS
<1> USE DEF Inv
<1>0. ASSUME UNCHANGED serviceVars
      PROVE  Service' /\ DrivesShown' /\ UNCHANGED <<operation, record, refused, plainPosted, crashed>>
  BY <1>0 DEF serviceVars, fields, flags, android, Service, FlagType, DrivesShown,
              Phase, Ended, Off, Asked, Starting, Up, Stopping
<1>1. ASSUME UNCHANGED <<queued, adding, tasks, task>> PROVE OnePlace'
  BY <1>1 DEF OnePlace
<1>2. CASE UNCHANGED work /\ ServiceSteps
  <2>1. Service'
    BY <1>2, MainPhase
  <2>2. DrivesShown' /\ RunShown' /\ WorkType'
    BY <1>2, MainShows
  <2> QED
    BY <1>1, <1>2, <2>1, <2>2 DEF work
<1>3. ASSUME NEW j \in Jobs, NEW reason \in Reasons, Start(j, reason) PROVE Inv'
  <2>1. OnePlace' /\ queued' \subseteq Jobs /\ adding' \subseteq [job : Jobs, reason : Reasons]
    BY <1>3, StartKeepsPlaces
  <2>2. UNCHANGED <<serviceVars, tasks, task, worker>>
    BY <1>3 DEF Start
  <2> QED
    BY <1>0, <2>1, <2>2 DEF WorkType, RunShown
<1>4. ASSUME NEW t \in adding, Execute(t) PROVE Inv'
  <2>1. OnePlace'
    BY <1>4, ExecuteKeepsPlaces
  <2>2. UNCHANGED <<serviceVars, queued, task, worker>> /\ adding' \subseteq adding
    BY <1>4 DEF Execute
  <2>3. tasks' \in Seq([job : Jobs, reason : Reasons])
    BY <1>4, AppendProperties DEF Execute, WorkType
  <2> QED
    BY <1>0, <2>1, <2>2, <2>3 DEF WorkType, RunShown
<1>5. CASE Take
  <2>1. OnePlace' /\ task' \in [job : Jobs, reason : Reasons] /\ tasks' \in Seq([job : Jobs, reason : Reasons])
    BY <1>5, TakeKeepsPlaces
  <2>2. UNCHANGED <<serviceVars, queued, adding>> /\ worker' = "progress"
    BY <1>5 DEF Take
  <2> QED
    BY <1>0, <2>1, <2>2 DEF WorkType, RunShown
<1>6. CASE ProgressRefresh \/ FinishRefresh
  <2>1. Service' /\ WorkType' /\ DrivesShown' /\ RunShown'
    BY <1>6, WorkerRefresh
  <2>2. UNCHANGED <<queued, adding, tasks, task>>
    BY <1>6 DEF ProgressRefresh, FinishRefresh
  <2> QED
    BY <1>1, <2>1, <2>2
<1>7. ASSUME NEW soon \in BOOLEAN, Progress(soon) PROVE Inv'
  <2>1. UNCHANGED <<titles, flags, main, mounting, android>>
    BY <1>7 DEF Progress
  <2>2. Service' /\ DrivesShown' /\ UNCHANGED <<record, refused, plainPosted, crashed>>
    BY <2>1 DEF flags, android, Service, FlagType, DrivesShown,
                Phase, Ended, Off, Asked, Starting, Up, Stopping
  <2>3. UNCHANGED <<queued, adding, tasks, task>> /\ operation' = task.job /\ task.job \in Jobs
    BY <1>7 DEF Progress, RunShown
  <2>4. worker' = "refresh" \/ (worker' = "run" /\ running)
    BY <1>7 DEF Progress
  <2>5. running /\ ~crashed => record
    BY DEF Service, Phase, Off, Asked, Starting, Up, Stopping
  <2>6. worker # "idle"
    BY <1>7 DEF Progress
  <2>7. WorkType'
    BY <2>3, <2>4 DEF WorkType
  <2>8. RunShown'
    BY <2>2, <2>3, <2>4, <2>5 DEF RunShown
  <2>9. OnePlace'
    BY <1>1, <2>3
  <2> QED
    BY <2>2, <2>7, <2>8, <2>9
<1>8. CASE Report \/ \E ending \in Endings : RunEnds(ending)
  <2>1. UNCHANGED <<serviceVars, queued, adding, tasks, task>> /\ worker = "run"
        /\ worker' \in {"progress", "final", "finish"}
    BY <1>8 DEF Report, RunEnds
  <2> QED
    BY <1>0, <1>1, <2>1 DEF WorkType, RunShown
<1>9. CASE Finish
  <2>1. UNCHANGED <<titles, flags, main, mounting, android, queued, adding, tasks, task>>
        /\ operation' = NoOperation /\ worker' = "finished"
    BY <1>9 DEF Finish
  <2>2. Service' /\ DrivesShown'
    BY <2>1 DEF flags, android, Service, FlagType, DrivesShown,
                Phase, Ended, Off, Asked, Starting, Up, Stopping
  <2> QED
    BY <1>1, <2>1, <2>2 DEF WorkType, RunShown
<1>10. CASE Finally
  <2>1. OnePlace'
    BY <1>10, FinallyKeepsPlaces
  <2>2. UNCHANGED <<serviceVars, adding, tasks>> /\ queued' \subseteq queued
        /\ task' = NoTask /\ worker' = "idle"
    BY <1>10 DEF Finally
  <2> QED
    BY <1>0, <2>1, <2>2 DEF WorkType, RunShown
<1>11. CASE UNCHANGED vars
  BY <1>0, <1>1, <1>11 DEF vars, work, WorkType, RunShown
<1> QED
  BY <1>2, <1>3, <1>4, <1>5, <1>6, <1>7, <1>8, <1>9, <1>10, <1>11 DEF Next, ServiceSteps

\* The invariant holds in every reachable state.
THEOREM Invariant == Spec => []Inv
  BY InitInv, StepInv, PTL DEF Spec

-----------------------------------------------------------------------------
(* What it gives.                                                           *)

\* Every variable has its type, and Android never has more than two calls queued.
THEOREM TypeCorrect == Spec => []TypeOK
<1>1. Inv => TypeOK
  <2> SUFFICES ASSUME Inv PROVE TypeOK
    OBVIOUS
  <2>1. events \in {<<>>, <<"start">>, <<"destroy">>, <<"destroy", "start">>, <<"start", "destroy">>}
        /\ main \in {"idle", "refresh", "started", "check", "refusing", "stop"}
    BY DEF Inv, Service, Phase, Ended, Off, Asked, Starting, Up, Stopping
  <2>2. events \in Seq({"start", "destroy"}) /\ Len(events) <= 2
    <3> DEFINE Types(s) == s \in Seq({"start", "destroy"}) /\ Len(s) <= 2
    <3>1. Types(<<>>) /\ Types(<<"start">>) /\ Types(<<"destroy">>)
      OBVIOUS
    <3>2. Types(<<"destroy", "start">>)
      OBVIOUS
    <3>3. Types(<<"start", "destroy">>)
      OBVIOUS
    <3> HIDE DEF Types
    <3>4. Types(events)
      BY <2>1, <3>1, <3>2, <3>3
    <3> QED
      BY <3>4 DEF Types
  <2> QED
    BY <2>1, <2>2 DEF Inv, Service, WorkType, TypeOK, ServiceTypeOK
<1> QED
  BY <1>1, Invariant, PTL

\* MountedDriveService: a stop before startForeground ends the process only after Android
\* has refused startForeground itself.
THEOREM StopFollowsStart == Spec => []StopsOnlyAfterStart
<1>1. Inv => StopsOnlyAfterStart
  BY DEF Inv, Service, Phase, Ended, StopsOnlyAfterStart
<1> QED
  BY <1>1, Invariant, PTL

\* MountedDriveService: when the threads are at rest the service is in the foreground while
\* a drive is mounted or a run goes on, unless Android refused it or no permitted device was
\* there and an ordinary notification is shown.
THEOREM ForegroundKept == Spec => []ForegroundWhileNeeded
<1>1. Inv => ForegroundWhileNeeded
  <2> SUFFICES ASSUME Inv, main = "idle", mounting = {}, events = <<>>, ~crashed
               PROVE  titles # {} \/ worker = "run" => Foreground \/ refused \/ plainPosted
    BY DEF ForegroundWhileNeeded
  <2>1. ~record \/ ~promised
    BY Queues DEF Inv, Service, Phase, Off, Asked, Starting, Up, Stopping
  <2> QED
    BY <2>1 DEF Inv, DrivesShown, RunShown, Foreground
<1> QED
  BY <1>1, Invariant, PTL

\* BackupExecutor: a queued job has one task, being added, in the queue or running; one that
\* is not queued has none.
THEOREM JobsHaveOneTask == Spec => []OneTaskPerJob
<1>1. Inv => OneTaskPerJob
  <2> SUFFICES ASSUME Inv, NEW j \in Jobs
               PROVE  Cardinality({t \in adding : t.job = j})
                          + Cardinality({i \in DOMAIN tasks : tasks[i].job = j})
                          + (IF task.job = j THEN 1 ELSE 0)
                      = (IF j \in queued THEN 1 ELSE 0)
    BY DEF OneTaskPerJob
  <2> DEFINE A == {t \in adding : t.job = j}
             T == {i \in DOMAIN tasks : tasks[i].job = j}
  <2>1. A = {} \/ \E t : A = {t}
    BY DEF Inv, OnePlace
  <2>2. T = {} \/ \E i : T = {i}
    BY DEF Inv, OnePlace
  <2>3. /\ Cardinality(A) = IF A = {} THEN 0 ELSE 1
        /\ Cardinality(T) = IF T = {} THEN 0 ELSE 1
    <3>1. \A x : Cardinality({x}) = 1 /\ {x} # {}
      BY FS_Singleton
    <3>2. Cardinality({}) = 0
      BY FS_EmptySet
    <3> HIDE DEF A, T
    <3> QED
      BY <2>1, <2>2, <3>1, <3>2
  <2>4. j \in queued <=> (A # {} \/ T # {} \/ task.job = j)
    BY DEF Inv, OnePlace
  <2>5. ~(A # {} /\ T # {}) /\ ~(A # {} /\ task.job = j) /\ ~(T # {} /\ task.job = j)
    BY DEF Inv, OnePlace
  <2> HIDE DEF A, T
  <2>6. Cardinality(A) + Cardinality(T) + (IF task.job = j THEN 1 ELSE 0) = (IF j \in queued THEN 1 ELSE 0)
    BY <2>3, <2>4, <2>5
  <2> QED
    BY <2>6 DEF A, T
<1> QED
  BY <1>1, Invariant, PTL
=============================================================================
