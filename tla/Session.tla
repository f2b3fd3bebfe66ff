------------------------------ MODULE Session -------------------------------
(***************************************************************************)
(* The life of a client process: Alice.main starts it, the PacketListener  *)
(* thread tweaks the kernel, launches FastCollector, learns the name of    *)
(* its tempfile and reads packets (module CaptureRing); any thread may set *)
(* the quit event; the main thread and the listener clean up, shred and    *)
(* delete the tempfile, and main exits, which ends all other threads where *)
(* they are.  FastCollector is a process of its own, which is told to stop *)
(* by a signal, and otherwise outlives the client.                         *)
(***************************************************************************)
EXTENDS CaptureRing

CONSTANTS
    Modes,  \* "live" on Linux, or on a "bsd"; playback of a "file" or a "gzip" one
    Troublesome \* BOUND: <<mode, step of main's cleanup>> where there may be a ^C
                \* in it, or a signal

VARIABLES
    main,           \* what the main thread is about to do
    thread,         \* what the listener's thread is about to do
    lock,           \* who holds PacketListener.lock, and "main" perhaps "main twice"
    cleaning,       \* thread -> the step of cleanup that it is at
    leaving,        \* main leaves its cleanup for a ^C, the listener for an error
    mode, quit,     \* kind of capture; is quit_event set?
    kernel, kernel_tweaked,     \* the kernel's buffers; have we set them all?
    fifo,           \* is there a named pipe from zcat?
    process, killed,            \* FastCollector: how far it is; has it been told to stop?
    disk,           \* the tempfile: what is in it
    tmpfile, mapped,            \* does the listener know it; is it mapped?
    troubles        \* history: what has gone wrong

mains     == <<main, mode, fifo>>
threads   == <<thread, quit>>
system    == <<kernel, kernel_tweaked>>
tempfile  == <<disk, tmpfile, mapped>>
processes == <<process, killed>>
cleanups  == <<lock, cleaning, leaving>>
ring      == <<mem, collectorVars, listenerVars>>
sessionVars == <<mains, threads, system, tempfile, processes, cleanups, troubles, ring>>

SessionInit ==
    /\ Init
    /\ main = "starting" /\ thread = "new" /\ lock = "none"
    /\ cleaning = [t \in {"main", "listener"} |-> "no"] /\ leaving = {}
    /\ mode \in Modes /\ quit = FALSE
    /\ kernel = "original" /\ kernel_tweaked = FALSE
    /\ fifo = FALSE /\ process = "none" /\ killed = FALSE
    /\ disk = "none" /\ tmpfile = FALSE /\ mapped = "never" /\ troubles = {}

Live     == mode \in {"live", "bsd"}
Alive(t) == main # "exited" /\ (t = "main" \/ thread # "dead")

At(t, step)   == Alive(t) /\ cleaning[t] = step
Goto(t, step) == cleaning' = [cleaning EXCEPT ![t] = step]

-----------------------------------------------------------------------------
(* Alice.main *)

\* Alice.__init__ with root's rights and a known clock: then the listener is
\* made, and the link is started.  A gzipped capture with no unzipped copy next
\* to it gets a named pipe.
MainStarts ==
    /\ main = "starting" /\ main' = "linking"
    /\ fifo' \in IF mode = "gzip" THEN BOOLEAN ELSE {FALSE}
    /\ UNCHANGED <<mode, threads, system, tempfile, processes, cleanups, troubles, ring>>

\* Not root, no clock, no interface; or the link is not ready in 20 seconds, or
\* ends before, and a listener with no tempfile has nothing to clean up; or a
\* keyboard interrupt while there is no Alice yet.
MainFails ==
    /\ main \in {"starting", "linking"} /\ main' = "exited"
    /\ UNCHANGED <<mode, fifo, threads, system, tempfile, processes, cleanups, troubles, ring>>

\* The link is ready, and the listener is started.
MainReady ==
    /\ main = "linking" /\ main' = "waiting"
    /\ thread' = "launching"
    /\ UNCHANGED <<mode, fifo, quit, system, tempfile, processes, cleanups, troubles, ring>>

\* Any other thread, at the end of the link or by an exception of its own.
QuitElsewhere ==
    /\ main = "waiting" /\ ~quit /\ quit' = TRUE
    /\ UNCHANGED <<mains, thread, system, tempfile, processes, cleanups, troubles, ring>>

\* The main thread sees the event, and calls the listener's cleanup.
MainWakes ==
    /\ main = "waiting" /\ quit /\ main' = "cleaning"
    /\ Goto("main", "lock")
    /\ UNCHANGED <<mode, fifo, threads, system, tempfile, processes, lock, leaving, troubles, ring>>

\* ^C, or an error of a socket: the handler calls cleanup.  A terminal sends
\* the ^C to FastCollector too.
MainInterrupted ==
    /\ main = "waiting" /\ main' = "handling"
    /\ Goto("main", "lock")
    /\ killed' \in {killed, process # "none"}
    /\ UNCHANGED <<mode, fifo, threads, system, tempfile, process, lock, leaving, troubles, ring>>

\* ^C while main cleans up: the handler cleans up again, and out of the handler
\* main exits.  At the door the lock is not taken, or taken with no owner, since
\* a thread that waits for it is interrupted with it in its hands; on the way
\* out it may not be released, or the tempfile not forgotten.
LeaveAtOnce ==
    /\ cleaning["main"] \in {"lock", "release", "forget"}
    /\ lock' \in {lock} \cup (IF cleaning["main"] = "lock" /\ lock = "none" THEN {"nobody"} ELSE {})
    /\ main' = (IF main = "cleaning" THEN "handling" ELSE "exited")
    /\ Goto("main", "lock")
    /\ UNCHANGED <<kernel, leaving>>

\* Inside, the finally clause comes first.
LeaveByFinally ==
    /\ cleaning["main"] \in {"check", "close", "overwrite", "unlink"}
    /\ Goto("main", "release") /\ leaving' = leaving \cup {"main"}
    /\ UNCHANGED <<main, kernel, lock>>

\* Where every exception is caught, the step has failed, and main goes on.
NotLeave ==
    /\ \/ cleaning["main"] = "restore" /\ Goto("main", "check")
          /\ kernel' \in IF kernel_tweaked THEN {kernel, "partly tweaked"} ELSE {kernel}
       \/ cleaning["main"] = "shred" /\ Goto("main", IF tmpfile THEN "overwrite" ELSE "release")
          /\ UNCHANGED kernel
    /\ UNCHANGED <<main, lock, leaving>>

MainInterruptedAgain ==
    /\ main \in {"cleaning", "handling"} /\ <<mode, cleaning["main"]>> \in Troublesome
    /\ LeaveAtOnce \/ LeaveByFinally \/ NotLeave
    /\ killed' \in {killed, process # "none"}
    /\ troubles' = troubles \cup {"interrupted"}
    /\ UNCHANGED <<mode, fifo, threads, kernel_tweaked, tempfile, process, ring>>

\* A signal that nobody handles.
MainKilled ==
    /\ main \in {"waiting", "cleaning", "handling"} /\ main' = "exited"
    /\ <<mode, cleaning["main"]>> \in Troublesome
    /\ troubles' = troubles \cup {"killed"}
    /\ UNCHANGED <<mode, fifo, threads, system, tempfile, processes, cleanups, ring>>

\* cleanup has returned, or raised an error that nobody catches.
MainExits ==
    /\ main \in {"cleaning", "handling"} /\ cleaning["main"] = "done" /\ main' = "exited"
    /\ UNCHANGED <<mode, fifo, threads, system, tempfile, processes, cleanups, troubles, ring>>

Main == MainStarts \/ MainFails \/ MainReady \/ MainWakes \/ MainInterrupted
        \/ MainInterruptedAgain \/ MainKilled \/ MainExits

-----------------------------------------------------------------------------
(* PacketListener.launch_collector *)

Launching == {"launching", "tweaking", "popen", "naming", "mapping", "datalink"}

Step(from, to) == main # "exited" /\ thread = from /\ thread' = to

\* minimize_packet_loss: the settings are changed one after the other.
StartTweaking ==
    /\ Step("launching", IF Live THEN "tweaking" ELSE "popen")
    /\ kernel' \in IF Live THEN {"original", "partly tweaked"} ELSE {kernel}
    /\ UNCHANGED <<mains, quit, kernel_tweaked, tempfile, processes, cleanups, troubles, ring>>

\* Bug: the settings are not remembered.
TweakForgetting ==
    /\ Step("tweaking", "popen")
    /\ kernel' = (IF kernel = "partly tweaked" THEN "tweaked" ELSE kernel)
    /\ UNCHANGED <<mains, quit, kernel_tweaked, tempfile, processes, cleanups, troubles, ring>>

\* All are changed, and on Linux, where each was saved before, that is noted.
\* Or one fails, and then those already changed are not.
Tweak ==
    /\ Step("tweaking", "popen")
    /\ \/ /\ kernel = "partly tweaked" /\ kernel' = "tweaked"
          /\ kernel_tweaked' = (mode # "bsd") /\ UNCHANGED troubles
       \/ /\ troubles' = troubles \cup (IF kernel = "original" THEN {} ELSE {"partly"})
          /\ UNCHANGED system
    /\ UNCHANGED <<mains, quit, tempfile, processes, cleanups, ring>>

\* Popen, of FastCollector or of bin/FastCollector; and in a live capture
\* prioritise_sniffer, whose handler for a system without renice fails itself.
LaunchCollector ==
    /\ process' = "started"
    /\ \/ Step("popen", "naming") /\ UNCHANGED troubles
       \/ Live /\ Step("popen", "failing") /\ troubles' = troubles \cup {"unreniced"}
    /\ UNCHANGED <<mains, quit, system, tempfile, killed, cleanups, ring>>

\* There is no such program, which sets the event at once, or another error.
LaunchFails ==
    /\ Step("popen", "failing")
    /\ quit' \in {quit, TRUE}
    /\ UNCHANGED <<mains, system, tempfile, processes, cleanups, troubles, ring>>

\* get_tempfile_name: the line is there, or the collector is dead without it.
GetTempfileName ==
    /\ \/ disk # "none" /\ Step("naming", "mapping") /\ tmpfile' = TRUE
       \/ disk = "none" /\ process = "dead" /\ Step("naming", "failing") /\ UNCHANGED tmpfile
    /\ UNCHANGED <<mains, quit, system, disk, mapped, processes, cleanups, troubles, ring>>

\* The file is opened and mapped, and either may fail, as it does if main has
\* forgotten the name by now.
MapTempfile ==
    /\ \/ tmpfile /\ Step("mapping", "datalink") /\ mapped' = "mapped"
       \/ Step("mapping", "failing") /\ UNCHANGED mapped
    /\ UNCHANGED <<mains, quit, system, disk, tmpfile, processes, cleanups, troubles, ring>>

GetPcapDatalink ==
    /\ \/ process = "capturing" /\ Step("datalink", "reading")
       \/ process = "dead" /\ Step("datalink", "failing")
    /\ UNCHANGED <<mains, quit, system, tempfile, processes, cleanups, troubles, ring>>

Launch == StartTweaking \/ Tweak \/ LaunchCollector \/ LaunchFails
          \/ GetTempfileName \/ MapTempfile \/ GetPcapDatalink

-----------------------------------------------------------------------------
(* FastCollector *)

\* open_buffer makes the tempfile, fills it with blanks and prints its name.
OpenBuffer ==
    /\ process = "started" /\ ~killed
    /\ process' = "named" /\ disk' = "blank"
    /\ UNCHANGED <<mains, threads, system, tmpfile, mapped, killed, cleanups, troubles, ring>>

\* start_capture opens device or file and prints pcap_datalink.
StartCapture ==
    /\ process = "named" /\ ~killed
    /\ process' = "capturing"
    /\ UNCHANGED <<mains, threads, system, tempfile, killed, cleanups, troubles, ring>>

\* An error on the way, or the end by a signal that is not yet caught.
StartFails ==
    /\ process \in {"started", "named"} /\ process' = "dead"
    /\ UNCHANGED <<mains, threads, system, tempfile, killed, cleanups, troubles, ring>>

\* The steps of the ring; the tempfile is the ring.  Playback ends with the
\* file; a live capture is ended by a signal.
Capture ==
    /\ process = "capturing"
    /\ MainLoop
    /\ collector' = "exited" => killed \/ (~Live /\ collector = "waiting")
    /\ disk' = (IF collector = "data" /\ collector' # "exited" /\ disk \in {"blank", "shredded"}
                THEN "packets" ELSE disk)
    /\ UNCHANGED <<mains, threads, system, tmpfile, mapped, processes, cleanups, troubles>>

\* The collector goes on when the client has exited.
Collecting == OpenBuffer \/ StartCapture \/ StartFails \/ Capture

-----------------------------------------------------------------------------
(* PacketListener.read_packets *)

\* read_one_packet takes the lock, and without a tempfile there is nothing to
\* read; one that cleanup has unmapped but not yet forgotten is an exception.
StartReading ==
    /\ lock = "none"
    /\ \/ tmpfile /\ mapped = "mapped" /\ Step("reading", "in ring") /\ lock' = "listener"
       \/ tmpfile /\ mapped # "mapped" /\ Step("reading", "failing") /\ UNCHANGED lock
       \/ ~tmpfile /\ Step("reading", "finishing") /\ UNCHANGED lock
    /\ UNCHANGED <<mains, quit, system, tempfile, processes, cleaning, leaving, troubles, ring>>

\* The lock is held while the listener polls for a packet.  A wild length sets
\* the event before the thread exits.
ReadOnePacket ==
    /\ main # "exited" /\ thread = "in ring"
    /\ Listen
    /\ thread' = CASE listener' \in {"error", "quit"}              -> "failing"
                   [] listener' = "complete"                       -> "finishing"
                   [] listener = "clear" /\ listener' = "polling"  -> "reading"
                   [] OTHER                                        -> thread
    /\ lock' = IF thread' = "in ring" THEN lock ELSE "none"
    /\ quit' = (quit \/ listener' = "quit")
    /\ UNCHANGED <<mains, system, tempfile, processes, cleaning, leaving, troubles>>

\* run: after an error as at the normal end the thread cleans up itself.
ListenerCleans ==
    /\ main # "exited" /\ thread \in {"failing", "finishing"} /\ cleaning["listener"] = "no"
    /\ Goto("listener", "lock")
    /\ UNCHANGED <<mains, threads, system, tempfile, processes, lock, leaving, troubles, ring>>

\* Bug: the thread ends and tells nobody.
ListenerEndsQuietly ==
    /\ main # "exited" /\ thread \in {"failing", "finishing"} /\ cleaning["listener"] = "done"
    /\ thread' = "dead"
    /\ fifo' = (fifo /\ thread # "finishing")
    /\ UNCHANGED <<main, mode, quit, system, tempfile, processes, cleanups, troubles, ring>>

\* Then the event is set; the pipe from zcat is removed at a normal end only.
ListenerEnds ==
    /\ main # "exited" /\ thread \in {"failing", "finishing"} /\ cleaning["listener"] = "done"
    /\ thread' = "dead"
    /\ fifo' = (fifo /\ thread # "finishing")
    /\ quit' = TRUE
    /\ UNCHANGED <<main, mode, system, tempfile, processes, cleanups, troubles, ring>>

Listening == Launch \/ StartReading \/ ReadOnePacket \/ ListenerCleans \/ ListenerEnds

-----------------------------------------------------------------------------
(* PacketListener.cleanup, by either thread *)

\* An error in cleanup, which releases the lock and forgets the tempfile all the
\* same.  It is the end of the listener's thread, which sets no event; main was
\* about to exit anyway.
Raise(t) ==
    /\ Goto(t, "release")
    /\ leaving' = leaving \cup ({t} \ {"main"})

\* An RLock: main, back from an interrupted cleanup, may hold it already.
CleanupLocks(t) ==
    /\ At(t, "lock")
    /\ \/ lock = "none" /\ lock' = t
       \/ lock = "main" /\ t = "main" /\ lock' = "main twice"
    /\ Goto(t, "restore")
    /\ UNCHANGED <<mains, threads, system, tempfile, processes, leaving, troubles, ring>>

\* restore_kernel_state, whose errors are logged; they come before all settings
\* are restored.  Main may be too early, before the settings are changed.
CleanupRestores(t) ==
    /\ At(t, "restore") /\ Goto(t, "check")
    /\ LET late == IF t = "main" /\ thread \in {"launching", "tweaking"} THEN {"early"} ELSE {}
       IN  \/ ~kernel_tweaked /\ UNCHANGED system /\ troubles' = troubles \cup late
           \/ /\ kernel_tweaked /\ kernel' = "original" /\ kernel_tweaked' = FALSE
              /\ troubles' = (troubles \ {"unrestored"}) \cup late
           \/ /\ kernel_tweaked /\ kernel' \in {kernel, "partly tweaked"}
              /\ troubles' = troubles \cup {"unrestored"} \cup late
              /\ UNCHANGED kernel_tweaked
    /\ UNCHANGED <<mains, threads, tempfile, processes, lock, leaving, ring>>

\* There may be no tempfile any more; nor yet, if main is too early.
CleanupChecks(t) ==
    /\ At(t, "check")
    /\ Goto(t, IF tmpfile THEN "close" ELSE "release")
    /\ troubles' = troubles \cup (IF t = "main" /\ ~tmpfile /\ thread \in Launching THEN {"early"} ELSE {})
    /\ UNCHANGED <<mains, threads, system, tempfile, processes, lock, leaving, ring>>

\* The tempfile is unmapped, which is an error if it was never mapped, and
\* FastCollector killed.  It gets 0.3 seconds and more to exit.
CleanupCloses(t) ==
    /\ At(t, "close")
    /\ \/ mapped = "never" /\ Raise(t) /\ troubles' = troubles \cup {"unmapped"}
          /\ UNCHANGED <<mapped, killed>>
       \/ mapped # "never" /\ mapped' = "closed" /\ killed' = TRUE /\ Goto(t, "shred")
          /\ UNCHANGED <<leaving, troubles>>
    /\ UNCHANGED <<mains, threads, system, disk, tmpfile, process, lock, ring>>

\* shred; if it fails, as it does where there is no such program or no such
\* file, the file is overwritten instead, unless the other thread has forgotten
\* the tempfile.
CleanupShreds(t) ==
    /\ At(t, "shred")
    /\ \/ tmpfile /\ disk # "gone" /\ disk' = "shredded" /\ Goto(t, "unlink")
       \/ UNCHANGED disk /\ Goto(t, IF tmpfile THEN "overwrite" ELSE "release")
    /\ UNCHANGED <<mains, threads, system, tmpfile, mapped, processes, lock, leaving, troubles, ring>>

CleanupOverwrites(t) ==
    /\ At(t, "overwrite")
    /\ \/ tmpfile /\ disk' = "zeros" /\ Goto(t, "unlink") /\ UNCHANGED leaving
       \/ ~tmpfile /\ Raise(t) /\ UNCHANGED disk
    /\ UNCHANGED <<mains, threads, system, tmpfile, mapped, processes, lock, troubles, ring>>

\* Bug: the tempfile is only shredded.
CleanupUnlinksNot(t) ==
    /\ At(t, "unlink")
    /\ Goto(t, "release")
    /\ UNCHANGED <<mains, threads, system, tempfile, processes, lock, leaving, troubles, ring>>

CleanupUnlinks(t) ==
    /\ At(t, "unlink")
    /\ \/ tmpfile /\ disk' = "gone" /\ Goto(t, "release") /\ UNCHANGED leaving
       \/ ~tmpfile /\ Raise(t) /\ UNCHANGED disk
    /\ UNCHANGED <<mains, threads, system, tmpfile, mapped, processes, lock, troubles, ring>>

\* Bug: the lock is kept.
CleanupReleasesNot(t) ==
    /\ At(t, "release")
    /\ Goto(t, "forget")
    /\ UNCHANGED <<mains, threads, system, tempfile, processes, lock, leaving, troubles, ring>>

\* The lock is released, and after that the tempfile forgotten.
CleanupReleases(t) ==
    /\ At(t, "release") /\ Goto(t, "forget")
    /\ lock' = (IF lock = "main twice" THEN "main" ELSE "none")
    /\ UNCHANGED <<mains, threads, system, tempfile, processes, leaving, troubles, ring>>

\* Who leaves for an exception does so now.
CleanupForgets(t) ==
    /\ At(t, "forget")
    /\ tmpfile' = FALSE /\ leaving' = leaving \ {t}
    /\ LET again == t \in leaving /\ main = "cleaning" /\ t = "main"
       IN  /\ Goto(t, IF again THEN "lock" ELSE "done")
           /\ main' = (IF again THEN "handling" ELSE main)
           /\ thread' = (IF t = "listener" /\ t \in leaving THEN "dead" ELSE thread)
    /\ UNCHANGED <<mode, fifo, quit, system, disk, mapped, processes, lock, troubles, ring>>

Cleanup(t) ==
    \/ CleanupLocks(t) \/ CleanupRestores(t) \/ CleanupChecks(t) \/ CleanupCloses(t)
    \/ CleanupShreds(t) \/ CleanupOverwrites(t) \/ CleanupUnlinks(t)
    \/ CleanupReleases(t) \/ CleanupForgets(t)

-----------------------------------------------------------------------------
SessionNext ==
    \/ Main \/ QuitElsewhere \/ Collecting \/ Listening
    \/ \E t \in {"main", "listener"} : Cleanup(t)

\* Each thread runs; the main thread, waiting for a lock that is released and
\* taken again for every packet, gets it at some time; a process that was told
\* to stop does so.  Nobody need interrupt the client and no packet arrive.
SessionSpec ==
    /\ SessionInit /\ [][SessionNext]_sessionVars
    /\ WF_sessionVars(Listening \/ Cleanup("listener"))
    /\ WF_sessionVars(MainWakes \/ MainExits \/ Cleanup("main"))
    /\ SF_sessionVars(CleanupLocks("main"))
    /\ WF_sessionVars(killed /\ (StartFails \/ Capture))

-----------------------------------------------------------------------------
(* Properties *)

\* What makes either of the next two fail: main cleans up too early, before the
\* listener knows of tempfile or settings; a ^C in cleanup; a signal.
CutShort == {"early", "interrupted", "killed"}

\* A client that has captured packets leaves none behind: its tempfile is gone,
\* or what is left of it is blank, whichever of two threads cleaned up, or both;
\* unless it could not map the tempfile, or had no renice.
NoPacketsLeft ==
    main = "exited" /\ troubles \cap (CutShort \cup {"unmapped", "unreniced"}) = {} =>
        disk # "packets" /\ disk # "shredded"

\* On Linux the kernel's settings are as they were, whichever of two threads
\* cleaned up, or both; unless not all of them could be changed, or restored.
KernelIsRestored ==
    main = "exited" /\ mode # "bsd" /\ troubles \cap (CutShort \cup {"partly", "unrestored"}) = {} =>
        kernel = "original"

\* No packet waits and none comes.
Idle == thread = "in ring" /\ InUse = 0 /\ listener \in {"polling", "checking"} /\ Running

\* A ^C has left the lock taken with no owner, for which main waits again.
Stuck == lock = "nobody"

\* The listener's thread is gone and has not set the event.
DiedQuietly == thread = "dead" /\ ~quit

\* Once the event is set the client exits, unless no packet comes, when the
\* listener polls for packets with the lock that cleanup waits for; or unless
\* main has made its own lock nobody's.
QuitEndsClient == quit ~> (main = "exited" \/ []Idle \/ []Stuck)

\* A collector that fails ends the client, although the listener looks for that
\* only when it finds the ring empty, and the ring may be full; unless there is
\* no listener to look, since it could not map the tempfile.
FailureIsNoticed ==
    collector \in Failures ~>
        (main = "exited" \/ []Stuck \/ [](main = "waiting" /\ DiedQuietly /\ mapped = "never"))
=============================================================================
