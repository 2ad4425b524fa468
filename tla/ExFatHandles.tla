---------------------------- MODULE ExFatHandles ----------------------------
(***************************************************************************)
(* Who holds the native nodes of a mounted exFAT volume, and for how long   *)
(* (exfat/ExFatFile.kt, exfat/ExFatFileSystem.kt, the reference counts of   *)
(* node.c, and the calls of ExFatNative.cpp that take or give back one).    *)
(*                                                                          *)
(* Every listing hands out one ExFatFile per entry, each with a reference   *)
(* to its native node, and most are simply dropped: the garbage collector   *)
(* finalizes them, the finalizer queues the node, and a thread of its own   *)
(* gives the reference back.  Meanwhile files are opened, renamed, deleted  *)
(* and created again, and the volume may be unmounted under all of it.      *)
(*                                                                          *)
(* The requests of the document provider that look a file up and then       *)
(* change it hold the drive's lock (onDrive); opening a file, finalizers,   *)
(* the releaser and unmount do not.  Each native call holds the lock of     *)
(* the file system (withNative), and is one step.                           *)
(***************************************************************************)
EXTENDS Integers, Sequences, FiniteSets, Functions

CONSTANTS
    Names,       \* names of files, all in the root
    Nodes,       \* places in native memory for a node
    None, Stop,  \* no node; STOP_RELEASER
    QueueCap,    \* pendingReleases holds that many (512)
    MaxRefs      \* bound on the references to one node

ASSUME HandlesAssumption ==
    /\ {None, Stop, "waiting", "stopped"} \cap Nodes = {} /\ None # Stop
    /\ QueueCap \in Nat \ {0} /\ MaxRefs \in Nat \ {0}

VARIABLES
    tree,        \* the cached directory: the node of each name
    state,       \* of each node: "free" memory, "linked", or "unlinked"
    refs,        \* node->references
    open,        \* handles a client has open, for each node
    litter,      \* handles nobody has any more, not yet finalized
    dropped,     \* references given up because the queue was full
    call,        \* the provider's request that holds the drive's lock
    opening,     \* the node of a handle openDocument has looked up
    finalizing,  \* the node of a handle whose finalizer has passed the check
    queue,       \* pendingReleases
    releaser,    \* what the releaser thread has taken
    interrupted, \* it has been interrupted
    mounted,     \* how far unmount is
    crash        \* how native code has ended the process

native == <<tree, state, refs>>
kotlin == <<open, litter, dropped, call, opening>>
release == <<finalizing, queue, releaser, interrupted>>
vars == <<native, kotlin, release, mounted, crash>>

Idle == [op |-> "none"]

Init ==
    /\ tree \in [Names -> Nodes \cup {None}]
    /\ \A a, b \in Names : a # b /\ tree[a] = tree[b] => tree[a] = None
    /\ state = [n \in Nodes |-> IF n \in Range(tree) THEN "linked" ELSE "free"]
    /\ refs = [n \in Nodes |-> 0]
    /\ open = refs /\ litter = refs /\ dropped = refs
    /\ call = Idle /\ opening = None
    /\ finalizing = None /\ queue = <<>> /\ releaser = "waiting" /\ interrupted = FALSE
    /\ mounted = "yes"
    /\ crash = "no"

Linked == {n \in Nodes : state[n] = "linked"}

\* withNative, onDrive: whether a native call is made at all.
Usable == mounted = "yes" /\ crash = "no"

Bump(f, S) == [n \in DOMAIN f |-> IF n \in S THEN f[n] + 1 ELSE f[n]]
Less(f, n) == [f EXCEPT ![n] = @ - 1]

\* Mutant: putNode does not look whether the node is unlinked, and no one frees it.
PutNodeOnly(n) ==
    /\ crash' = IF state[n] = "free" \/ refs[n] = 0 THEN "bug" ELSE crash
    /\ refs' = IF state[n] = "free" \/ refs[n] = 0 THEN refs ELSE Less(refs, n)
    /\ UNCHANGED state

\* putNode: exfat_put_node, which takes a count below zero for a bug, and
\* exfat_cleanup_node for an unlinked node nobody refers to any more.
PutNode(n) ==
    LET bug == state[n] = "free" \/ refs[n] = 0 IN
    /\ crash' = IF bug THEN "bug" ELSE crash
    /\ refs' = IF bug THEN refs ELSE Less(refs, n)
    /\ state' = IF ~bug /\ refs[n] = 1 /\ state[n] = "unlinked"
                THEN [state EXCEPT ![n] = "free"] ELSE state

-----------------------------------------------------------------------------
(* Lookups: readDir gives a handle to every child of the directory, and all *)
(* but the one that was looked for are litter.                              *)

List(keep) ==
    /\ Usable
    /\ \A n \in Linked : refs[n] < MaxRefs
    /\ refs' = Bump(refs, Linked)
    /\ litter' = Bump(litter, Linked \ {keep})

\* deleteDocument, renameDocument: getFileForDocId under the drive's lock.
Find(op, name, new) ==
    /\ call = Idle
    /\ List(tree[name])
    /\ call' = IF tree[name] = None THEN Idle ELSE [op |-> op, name |-> name, new |-> new, n |-> tree[name]]
    /\ UNCHANGED <<tree, state, open, dropped, opening, release, mounted, crash>>

\* openDocument: the same, without the lock.
OpenFind(name) ==
    /\ opening = None
    /\ List(tree[name])
    /\ opening' = tree[name]
    /\ UNCHANGED <<tree, state, open, dropped, call, release, mounted, crash>>

\* queryChildDocuments, or the search that ends createFile.
ListAll ==
    /\ call = Idle
    /\ List(None)
    /\ UNCHANGED <<tree, state, open, dropped, call, opening, release, mounted, crash>>

\* It returns the descriptor, having truncated the file if asked to; or it throws.
OpenDone(fails) ==
    /\ opening # None /\ crash = "no"
    /\ open' = IF fails THEN open ELSE Bump(open, {opening})
    /\ litter' = IF fails THEN Bump(litter, {opening}) ELSE litter
    /\ crash' = IF mounted = "yes" /\ state[opening] = "free" THEN "dangling" ELSE crash
    /\ opening' = None
    /\ UNCHANGED <<native, dropped, call, release, mounted>>

\* onRead, onWrite, onGetSize on an open file.
UseFile(n) ==
    /\ open[n] > 0 /\ call = Idle /\ Usable
    /\ crash' = IF state[n] = "free" THEN "dangling" ELSE crash
    /\ UNCHANGED <<native, kotlin, release, mounted>>

\* onRelease: ExFatFile.close
Close(n) ==
    /\ open[n] > 0 /\ call = Idle /\ crash = "no"
    /\ open' = Less(open, n)
    /\ IF mounted = "yes" THEN PutNode(n) ELSE UNCHANGED <<state, refs, crash>>
    /\ UNCHANGED <<tree, litter, dropped, call, opening, release, mounted>>

-----------------------------------------------------------------------------
(* Requests that change the directory.                                      *)

\* The request ends, and its handle becomes litter.
Done ==
    /\ litter' = Bump(litter, {call.n})
    /\ call' = Idle

\* createFile: exfat_mknod, which refuses a name that is taken.
CreateFile(name) ==
    /\ call = Idle /\ Usable
    /\ tree[name] = None
    /\ \E n \in Nodes :
         /\ state[n] = "free"
         /\ tree' = [tree EXCEPT ![name] = n]
         /\ state' = [state EXCEPT ![n] = "linked"]
         /\ refs' = [refs EXCEPT ![n] = 0]
    /\ UNCHANGED <<kotlin, release, mounted, crash>>

\* deleteNode: exfat_unlink.  Its caller still has a handle, so the node stays.
DeleteNode ==
    /\ call.op = "delete" /\ Usable
    /\ IF state[call.n] = "linked"
       THEN /\ tree' = [a \in Names |-> IF tree[a] = call.n THEN None ELSE tree[a]]
            /\ state' = [state EXCEPT ![call.n] = "unlinked"]
            /\ UNCHANGED crash
       ELSE crash' = "dangling" /\ UNCHANGED <<tree, state>>
    /\ Done
    /\ UNCHANGED <<refs, open, dropped, opening, release, mounted>>

\* rename: exfat_rename by paths.  A file that has the new name is unlinked and cleaned
\* up at once: exfat_cleanup_node ends the process if something still refers to it.
Rename ==
    LET taken == tree[call.new] IN
    /\ call.op = "rename" /\ Usable
    /\ IF tree[call.name] = None \/ call.new = call.name
       THEN UNCHANGED <<tree, state, crash>>
       ELSE /\ tree' = [tree EXCEPT ![call.name] = None, ![call.new] = tree[call.name]]
            /\ state' = IF taken = None THEN state
                        ELSE [state EXCEPT ![taken] = IF refs[taken] = 0 THEN "free" ELSE "unlinked"]
            /\ crash' = IF taken # None /\ refs[taken] > 0 THEN "overwrite" ELSE crash
    /\ Done
    /\ UNCHANGED <<refs, open, dropped, opening, release, mounted>>

\* A request that holds the drive's lock finds the volume unmounted, or a native call that
\* fails before it has changed anything.
Refused ==
    /\ call # Idle
    /\ Done
    /\ UNCHANGED <<native, open, dropped, opening, release, mounted, crash>>

-----------------------------------------------------------------------------
(* Finalizers and the releaser.                                             *)

\* finalize, up to the check of isUnmounted.
Finalize(n) ==
    /\ litter[n] > 0 /\ finalizing = None /\ crash = "no"
    /\ litter' = Less(litter, n)
    /\ finalizing' = IF mounted = "yes" THEN n ELSE None
    /\ UNCHANGED <<native, open, dropped, call, opening, queue, releaser, interrupted, mounted, crash>>

\* Mutant: a finalizer whose handle has found no room leaves it to be finalized again.
OfferAgain ==
    /\ finalizing # None
    /\ IF Len(queue) < QueueCap
       THEN queue' = Append(queue, finalizing)
       ELSE UNCHANGED queue
    /\ litter' = Bump(litter, {finalizing})
    /\ UNCHANGED dropped
    /\ finalizing' = None
    /\ UNCHANGED <<native, open, call, opening, releaser, interrupted, mounted, crash>>

\* Mutant: the queue has no bound.
OfferUnbounded ==
    /\ finalizing # None
    /\ queue' = Append(queue, finalizing)
    /\ finalizing' = None
    /\ UNCHANGED <<native, open, litter, dropped, call, opening, releaser, interrupted, mounted, crash>>

\* releaseNodeLater: offer, which gives up when the queue is full.
Offer ==
    /\ finalizing # None
    /\ IF Len(queue) < QueueCap
       THEN queue' = Append(queue, finalizing) /\ UNCHANGED dropped
       ELSE dropped' = Bump(dropped, {finalizing}) /\ UNCHANGED queue
    /\ finalizing' = None
    /\ UNCHANGED <<native, open, litter, call, opening, releaser, interrupted, mounted, crash>>

\* take: the next pointer, the sentinel, or an interrupt.
Take ==
    /\ releaser = "waiting"
    /\ IF interrupted THEN releaser' = "stopped" /\ UNCHANGED queue
       ELSE /\ queue # <<>>
            /\ releaser' = IF Head(queue) = Stop THEN "stopped" ELSE Head(queue)
            /\ queue' = Tail(queue)
    /\ UNCHANGED <<native, kotlin, finalizing, interrupted, mounted, crash>>

\* Mutant: the releaser does not look at isUnmounted.
ReleaseAlways ==
    /\ releaser \in Nodes /\ crash = "no"
    /\ releaser' = "waiting"
    /\ PutNode(releaser)
    /\ UNCHANGED <<tree, kotlin, finalizing, queue, interrupted, mounted>>

\* Under the lock: nothing more after an unmount.
Release ==
    /\ releaser \in Nodes /\ crash = "no"
    /\ releaser' = "waiting"
    /\ IF mounted = "yes" THEN PutNode(releaser) ELSE UNCHANGED <<state, refs, crash>>
    /\ UNCHANGED <<tree, kotlin, finalizing, queue, interrupted, mounted>>

-----------------------------------------------------------------------------
(* ExFatFileSystem.unmount                                                  *)

\* Under the lock: the flag, and exfat_unmount, which frees what is in the tree.
Unmount ==
    /\ Usable
    /\ mounted' = "clear"
    /\ tree' = [a \in Names |-> None]
    /\ state' = [n \in Nodes |-> IF state[n] = "linked" THEN "free" ELSE state[n]]
    /\ UNCHANGED <<refs, kotlin, release, crash>>

ClearQueue ==
    /\ mounted = "clear"
    /\ queue' = <<>>
    /\ mounted' = "stop"
    /\ UNCHANGED <<native, kotlin, finalizing, releaser, interrupted, crash>>

OfferStop ==
    /\ mounted = "stop"
    /\ queue' = IF Len(queue) < QueueCap THEN Append(queue, Stop) ELSE queue
    /\ mounted' = "interrupt"
    /\ UNCHANGED <<native, kotlin, finalizing, releaser, interrupted, crash>>

\* Mutant: the thread is left to find the sentinel.
InterruptNot ==
    /\ mounted = "interrupt"
    /\ mounted' = "no"
    /\ UNCHANGED <<native, kotlin, finalizing, queue, releaser, interrupted, crash>>

Interrupt ==
    /\ mounted = "interrupt"
    /\ interrupted' = TRUE
    /\ mounted' = "no"
    /\ UNCHANGED <<native, kotlin, finalizing, queue, releaser, crash>>

Next ==
    \/ \E name, new \in Names : Find("rename", name, new)
    \/ \E name \in Names : Find("delete", name, name) \/ OpenFind(name) \/ CreateFile(name)
    \/ ListAll
    \/ \E fails \in BOOLEAN : OpenDone(fails)
    \/ \E n \in Nodes : UseFile(n) \/ Close(n) \/ Finalize(n)
    \/ DeleteNode \/ Rename \/ Refused
    \/ Offer \/ Take \/ Release
    \/ Unmount \/ ClearQueue \/ OfferStop \/ Interrupt

\* unmount runs to its end once begun, finalizers end, and the releaser is a thread of
\* its own that only waits for the queue and the lock.
Fairness ==
    /\ WF_vars(ClearQueue) /\ WF_vars(OfferStop) /\ WF_vars(Interrupt)
    /\ WF_vars(Offer) /\ WF_vars(Take) /\ WF_vars(Release)

Spec == Init /\ [][Next]_vars /\ Fairness

-----------------------------------------------------------------------------
(* Properties.                                                              *)

Counts == [Nodes -> Nat]
Requests == [op : {"delete", "rename"}, name : Names, new : Names, n : Nodes]

(* The shape of the state: names, nodes, counts and the places of the       *)
(* threads.                                                                 *)
TypeOK ==
    /\ tree \in [Names -> Nodes \cup {None}]
    /\ state \in [Nodes -> {"free", "linked", "unlinked"}]
    /\ refs \in Counts /\ open \in Counts /\ litter \in Counts /\ dropped \in Counts
    /\ call \in Requests \cup {Idle}
    /\ opening \in Nodes \cup {None} /\ finalizing \in Nodes \cup {None}
    /\ queue \in Seq(Nodes \cup {Stop}) /\ Len(queue) <= QueueCap
    /\ releaser \in Nodes \cup {"waiting", "stopped"}
    /\ interrupted \in BOOLEAN
    /\ mounted \in {"yes", "clear", "stop", "interrupt", "no"}
    /\ crash \in {"no", "overwrite", "bug", "dangling"}

\* The references to n that something in the app still stands for.
One(b) == IF b THEN 1 ELSE 0

Owed(n) ==
      open[n] + litter[n] + dropped[n]
    + One(call # Idle /\ call.n = n) + One(opening = n) + One(finalizing = n) + One(releaser = n)
    + Cardinality({i \in DOMAIN queue : queue[i] = n})

\* While the volume is mounted each reference the native count holds is one that a
\* handle, the queue or the releaser will give back, or that was dropped with the queue
\* full: none is given back twice and none is forgotten.
ReferencesOwed == mounted = "yes" /\ crash = "no" => \A n \in Nodes : refs[n] = Owed(n)

\* A node that was unlinked is there exactly as long as something refers to it, so its
\* clusters are freed with the last reference and its memory is not used after that.
UnlinkedIsReferred ==
    mounted = "yes" /\ crash = "no" =>
        \A n \in Nodes : /\ state[n] = "unlinked" => refs[n] > 0
                         /\ state[n] = "free" => Owed(n) = 0

\* No native call aborts the app or uses memory that was freed: counts never go below
\* zero and nothing is called after unmount.  There is one exception, which the code has: a
\* rename to the name of a file that something still refers to (exfat_cleanup_node).
NoNativeCrash == crash \in {"no", "overwrite"}

\* After an unmount the releaser ends, whatever finalizers do to its queue.
ReleaserEnds == (mounted = "no") ~> (releaser = "stopped")

=============================================================================
