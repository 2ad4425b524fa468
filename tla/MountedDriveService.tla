------------------------ MODULE MountedDriveService ------------------------
(***************************************************************************)
(* MountedDriveService: the foreground service that keeps the process from  *)
(* being frozen while a drive is mounted or an operation runs.              *)
(*                                                                          *)
(* Its fields are set by the main thread, where drives come and go and      *)
(* Android calls the service, by the threads that mount drives, and by the  *)
(* thread of the backups.  titles and operation are set without a lock;     *)
(* refresh decides under one what they ask for.  A service asked for with   *)
(* startForegroundService and stopped before it has called startForeground  *)
(* takes the process down with it.                                          *)
(*                                                                          *)
(* This module has the service, the main thread, the mounting threads and   *)
(* what Android does to them.  The thread of the backups is in BackupWork.  *)
(***************************************************************************)
EXTENDS Naturals, Sequences

CONSTANTS
    Drives,      \* drives that can be mounted, backups on the phone among them
    Mounters,    \* threads other than the main one that mount drives (Dispatchers.IO)
    NoOperation  \* operation == null

VARIABLES
    titles,       \* the mounted drives
    operation,    \* the operation whose progress is shown
    running,      \* the service is in the foreground
    startPending, \* startForegroundService was called, onStartCommand has not run
    plainPosted,  \* an ordinary notification is up instead
    refused,      \* the last start was refused
    main,         \* where the main thread is
    mounting,     \* threads that have set titles and not yet called refresh
    record,       \* Android has the service as started
    mine,         \* what the main thread is in belongs to that service
    promised,     \* startForeground is owed for it
    events,       \* calls Android has queued for the main thread
    crashed       \* Android has ended the process

fields  == <<titles, operation>>
flags   == <<running, startPending, plainPosted, refused>>
android == <<record, mine, promised, events, crashed>>
serviceVars == <<fields, flags, main, mounting, android>>

ServiceInit ==
    /\ titles = {} /\ operation = NoOperation
    /\ running = FALSE /\ startPending = FALSE /\ plainPosted = FALSE /\ refused = FALSE
    /\ main = "idle" /\ mounting = {}
    /\ record = FALSE /\ mine = FALSE /\ promised = FALSE /\ events = <<>>
    /\ crashed = FALSE

Needed == titles # {} \/ operation # NoOperation

-----------------------------------------------------------------------------
(* What Android does with a call.                                           *)

\* startForegroundService: a start is queued, and the service owes startForeground.
StartService ==
    /\ record' = TRUE /\ promised' = TRUE
    /\ events' = Append(events, "start")
    /\ UNCHANGED <<mine, crashed>>

\* stopService, or stopSelf of the service that is started.
StopService ==
    /\ crashed' = (crashed \/ (record /\ promised))
    /\ record' = FALSE /\ promised' = FALSE /\ mine' = FALSE
    /\ events' = IF record THEN Append(events, "destroy") ELSE events

-----------------------------------------------------------------------------
(* refresh, all of it under the lock.  mayRun is mayRunInForeground: from   *)
(* Android 14 on it asks for a permitted USB device, whatever is mounted.   *)
(* allowed is whether the start is accepted.                                *)

\* Mutant: a start in flight is stopped at once.
RefreshStopsPending(mayRun, allowed) ==
    IF ~Needed
    THEN /\ plainPosted' = FALSE
         /\ IF running \/ startPending THEN StopService ELSE UNCHANGED android
         /\ running' = FALSE /\ startPending' = FALSE
         /\ UNCHANGED refused
    ELSE IF running \/ startPending THEN UNCHANGED <<flags, android>>
    ELSE /\ startPending' = TRUE /\ StartService
         /\ UNCHANGED <<running, plainPosted, refused>>

\* Mutant: a start that is in flight is not remembered.
RefreshStartsAgain(mayRun, allowed) ==
    IF ~Needed THEN UNCHANGED <<flags, android>>
    ELSE IF running THEN UNCHANGED <<flags, android>>
    ELSE /\ startPending' = TRUE /\ StartService
         /\ UNCHANGED <<running, plainPosted, refused>>

Refresh(mayRun, allowed) ==
    IF ~Needed
    THEN /\ plainPosted' = FALSE
         /\ UNCHANGED <<startPending, refused>>
         /\ IF startPending THEN UNCHANGED <<running, android>>
            ELSE /\ running' = FALSE
                 /\ IF running THEN StopService ELSE UNCHANGED android
    ELSE IF running \/ startPending THEN UNCHANGED <<flags, android>>
    ELSE IF ~mayRun THEN plainPosted' = TRUE /\ UNCHANGED <<running, startPending, refused, android>>
    ELSE IF ~allowed THEN refused' = TRUE /\ UNCHANGED <<running, startPending, plainPosted, android>>
    ELSE startPending' = TRUE /\ StartService /\ UNCHANGED <<running, plainPosted, refused>>

\* refresh is called, and finds whatever Android answers it.
CallRefresh == \E mayRun \in BOOLEAN, allowed \in BOOLEAN : Refresh(mayRun, allowed)

-----------------------------------------------------------------------------
(* Drives come and go.  The list is any: it was read off the mounted drives *)
(* before, and may be older than the one it replaces.                       *)

\* update on the main thread: the list is set, and then refresh.

Update(drives) ==
    /\ main = "idle" /\ ~crashed
    /\ titles' = drives
    /\ main' = "refresh"
    /\ UNCHANGED <<operation, flags, mounting, android>>

MainRefresh ==
    /\ main = "refresh" /\ ~crashed
    /\ CallRefresh
    /\ main' = "idle"
    /\ UNCHANGED <<fields, mounting>>

\* update on a thread that has mounted a drive.
MounterUpdate(m, drives) ==
    /\ m \notin mounting /\ ~crashed
    /\ titles' = drives
    /\ mounting' = mounting \cup {m}
    /\ UNCHANGED <<operation, flags, main, android>>

MounterRefresh(m) ==
    /\ m \in mounting /\ ~crashed
    /\ CallRefresh
    /\ mounting' = mounting \ {m}
    /\ UNCHANGED <<fields, main>>

-----------------------------------------------------------------------------
(* What the main thread does for Android.                                   *)

\* onStartCommand, as far as startForeground, which may throw.
OnStartCommand(allowed) ==
    /\ main = "idle" /\ ~crashed
    /\ events # <<>> /\ Head(events) = "start"
    /\ events' = Tail(events)
    /\ mine' = record
    /\ promised' = (promised /\ ~allowed)
    /\ main' = IF allowed THEN "started" ELSE "refusing"
    /\ UNCHANGED <<fields, mounting, flags, record, crashed>>

InForeground ==
    /\ main = "started" /\ ~crashed
    /\ startPending' = FALSE /\ running' = TRUE /\ refused' = FALSE
    /\ main' = "check"
    /\ UNCHANGED <<fields, mounting, plainPosted, android>>

\* Mutant: onStartCommand does not look whether everything has ended meanwhile.
CheckNeededNot ==
    /\ main = "check" /\ ~crashed
    /\ main' = "idle"
    /\ UNCHANGED <<fields, mounting, flags, android>>

\* Mutant: only the drives are looked at.
CheckNeededDrives ==
    /\ main = "check" /\ ~crashed
    /\ IF titles = {}
       THEN /\ running' = FALSE
            /\ IF mine THEN StopService ELSE UNCHANGED android
       ELSE UNCHANGED <<running, android>>
    /\ main' = "idle"
    /\ UNCHANGED <<fields, mounting, startPending, plainPosted, refused>>

\* Everything ended while Android was starting the service.
CheckNeeded ==
    /\ main = "check" /\ ~crashed
    /\ IF ~Needed
       THEN /\ running' = FALSE
            /\ IF mine THEN StopService ELSE UNCHANGED android
       ELSE UNCHANGED <<running, android>>
    /\ main' = "idle"
    /\ UNCHANGED <<fields, mounting, startPending, plainPosted, refused>>

\* startForeground threw.
Refusing ==
    /\ main = "refusing" /\ ~crashed
    /\ refused' = TRUE
    /\ startPending' = FALSE /\ running' = FALSE
    /\ main' = "stop"
    /\ UNCHANGED <<fields, mounting, plainPosted, android>>

StopSelf ==
    /\ main = "stop" /\ ~crashed
    /\ IF mine THEN StopService ELSE UNCHANGED android
    /\ main' = "idle"
    /\ UNCHANGED <<fields, mounting, flags>>

OnDestroy ==
    /\ main = "idle" /\ ~crashed
    /\ events # <<>> /\ Head(events) = "destroy"
    /\ events' = Tail(events)
    /\ running' = FALSE
    /\ UNCHANGED <<fields, startPending, plainPosted, refused, main, mounting, record, mine, promised, crashed>>

HandleEvent == (\E allowed \in BOOLEAN : OnStartCommand(allowed)) \/ OnDestroy

ServiceStep ==
    \/ MainRefresh \/ HandleEvent
    \/ \E m \in Mounters : MounterRefresh(m)
    \/ InForeground \/ CheckNeeded \/ Refusing \/ StopSelf

-----------------------------------------------------------------------------
\* The service is up and has called startForeground.
Foreground == record /\ ~promised

FlagType ==
    /\ running \in BOOLEAN /\ startPending \in BOOLEAN
    /\ plainPosted \in BOOLEAN /\ refused \in BOOLEAN
    /\ record \in BOOLEAN /\ mine \in BOOLEAN
    /\ promised \in BOOLEAN /\ crashed \in BOOLEAN

\* The shape of the service's fields (part of BackupWork's TypeOK): at most a destroy and a
\* start are ever under way.
ServiceTypeOK ==
    /\ titles \subseteq Drives
    /\ FlagType
    /\ main \in {"idle", "refresh", "started", "check", "refusing", "stop"}
    /\ mounting \subseteq Mounters
    /\ events \in Seq({"start", "destroy"}) /\ Len(events) <= 2
=============================================================================
