--------------------------- MODULE DevkitSession ---------------------------
(***************************************************************************)
(* One run of docker_run.py from the moment its mounts are known: the main *)
(* thread, the thread that listens for events of the container             *)
(* (container_event_handler.py), the thread that removes old images        *)
(* (docker_cleanup.py), the container and whoever else on the host talks   *)
(* to the listener's port.  Time is left out: a timeout may strike at any  *)
(* moment.  What the images are is the subject of DevkitImages; here they  *)
(* are a number of candidates.                                             *)
(***************************************************************************)
EXTENDS Naturals, Sequences, FiniteSets

CONSTANTS Others,         \* other processes that connect to the listener's port
          MaxCandidates,  \* bound: images to remove
          BatchSize       \* CLEANUP_BATCH_SIZE

VARIABLES main,        \* where the main thread is
          listener,    \* where container_event_listener is
          sock,        \* the server socket
          queue,       \* connections that wait for accept, the oldest first
          serving,     \* the connection in recv
          client,      \* client[c]: the connection of c
          event,       \* SocketCancelEvent: its event is set
          container,   \* the container
          cleaner,     \* where cleanup_images is
          candidates,  \* images it has still to remove
          batch,       \* how many of the current batch
          cancel,      \* cleanup_cancel is set
          hung         \* the docker daemon does not answer any more

Inside == "container"
Clients == Others \cup {Inside}
Nobody == "nobody"

ASSUME SessionAssumption == Inside \notin Others

netVars == <<sock, queue, serving, client>>
cleanerVars == <<cleaner, candidates, batch>>
sessionVars == <<main, listener, netVars, event, container, cleanerVars, cancel, hung>>

SessionInit ==
    /\ main = "mounts"
    /\ listener = "off"
    /\ sock = "none"
    /\ queue = <<>>
    /\ serving = Nobody
    /\ client = [c \in Clients |-> "idle"]
    /\ event = FALSE
    /\ container = "none"
    /\ cleaner = "off"
    /\ candidates = 0
    /\ batch = 0
    /\ cancel = FALSE
    /\ hung = FALSE

Main(from, to) == main = from /\ main' = to
Listener(from, to) == listener = from /\ listener' = to
Cleaner(from, to) == cleaner = from /\ cleaner' = to

----------------------------------------------------------------------------
(* docker_run.py: main                                                     *)

(* get_minimal_mounts has returned.                                        *)
mounts_known ==
    /\ Main("mounts", "handler")
    /\ UNCHANGED <<listener, netVars, event, container, cleanerVars, cancel, hung>>

(* The socket is bound here; the thread is to listen.                      *)
start_container_event_handler ==
    /\ Main("handler", "cleanup")
    /\ sock' = "bound"
    /\ listener' = "listen"
    /\ UNCHANGED <<queue, serving, client, event, container, cleanerVars, cancel, hung>>

start_background_cleanup ==
    /\ Main("cleanup", "xhost")
    /\ cleaner' = "delay"
    /\ UNCHANGED <<listener, netVars, event, container, candidates, batch, cancel, hung>>

(* xhost is skipped or succeeds, and docker run is started, ...            *)
docker_run ==
    /\ Main("xhost", "run")
    /\ container' = "starting"
    /\ UNCHANGED <<listener, netVars, event, cleanerVars, cancel, hung>>

(* The process is gone, and with it its threads, which are daemons.        *)
Exits ==
    /\ main' = "exited"
    /\ listener' = "done"
    /\ sock' = "closed"
    /\ queue' = <<>>
    /\ serving' = Nobody
    /\ cleaner' = "done"
    /\ candidates' = 0
    /\ batch' = 0
    /\ UNCHANGED <<client, event, container, cancel, hung>>

(* ... or xhost fails, or Ctrl-C comes before the try block.               *)
fails_early == main \in {"cleanup", "xhost"} /\ Exits

(* docker's client returns when the daemon tells it that the container has *)
(* ended.                                                                  *)
docker_run_returns ==
    /\ ~hung
    /\ container \in {"ended", "refused"} /\ Main("run", "cancel")
    /\ UNCHANGED <<listener, netVars, event, container, cleanerVars, cancel, hung>>

(* Ctrl-C: docker's client is killed, the container may go on by itself.   *)
keyboard_interrupt ==
    /\ Main("run", "cancel")
    /\ \/ UNCHANGED container
       \/ container' = "ended"
    /\ UNCHANGED <<listener, netVars, event, cleanerVars, cancel, hung>>

cleanup_cancel_set ==
    /\ Main("cancel", "event")
    /\ cancel' = TRUE
    /\ UNCHANGED <<listener, netVars, event, container, cleanerVars, hung>>

(* SocketCancelEvent.set: first the event, ...                             *)
SetEvent ==
    /\ Main("event", "shutdown")
    /\ event' = TRUE
    /\ UNCHANGED <<listener, netVars, container, cleanerVars, cancel, hung>>

(* ... then the socket; a socket that does not listen (yet or any more)    *)
(* refuses it with an OSError, which is ignored.                           *)
Shutdown_Forgotten ==                      \* mutant: accept is not woken up
    /\ Main("shutdown", "join cleaner")
    /\ UNCHANGED <<listener, netVars, event, container, cleanerVars, cancel, hung>>

Shutdown ==
    /\ Main("shutdown", "join cleaner")
    /\ sock' = IF sock = "listening" THEN "shut" ELSE sock
    /\ queue' = IF sock = "listening" THEN <<>> ELSE queue
    /\ UNCHANGED <<listener, serving, client, event, container, cleanerVars, cancel, hung>>

join_cleanup_thread ==
    /\ cleaner = "done"
    /\ Main("join cleaner", "join listener")
    /\ UNCHANGED <<listener, netVars, event, container, cleanerVars, cancel, hung>>

join_event_handler_thread == main = "join listener" /\ listener = "done" /\ Exits

(* join(timeout=1.0)                                                       *)
join_times_out_Never ==                    \* mutant: join without a timeout
    FALSE /\ UNCHANGED sessionVars

join_times_out ==
    \/ /\ cleaner # "done"
       /\ Main("join cleaner", "join listener")
       /\ UNCHANGED <<listener, netVars, event, container, cleanerVars, cancel, hung>>
    \/ /\ main = "join listener" /\ listener # "done"
       /\ Exits

(* A second Ctrl-C while the first is being dealt with.                    *)
interrupted_again ==
    main \in {"event", "shutdown", "join cleaner", "join listener"} /\ Exits

----------------------------------------------------------------------------
(* container_event_handler.py: container_event_listener                    *)

listen ==
    /\ Listener("listen", "check")
    /\ sock' = "listening"
    /\ UNCHANGED <<main, queue, serving, client, event, container, cleanerVars, cancel, hung>>

while_not_cancelled ==
    /\ Listener("check", IF event THEN "close" ELSE "accept")
    /\ UNCHANGED <<main, netVars, event, container, cleanerVars, cancel, hung>>

accept ==
    /\ \/ /\ sock = "listening" /\ queue # <<>>
          /\ Listener("accept", "recv")
          /\ serving' = Head(queue)
          /\ queue' = Tail(queue)
       \/ /\ sock = "shut"
          /\ Listener("accept", "close")
          /\ UNCHANGED <<serving, queue>>
    /\ UNCHANGED <<main, sock, client, event, container, cleanerVars, cancel, hung>>

(* recv returns the container's report or another event, which is logged,  *)
(* or nothing, when a client has closed its connection; the loop goes on.  *)
(* A connection that was reset raises an OSError, and an event whose time  *)
(* no platform can represent an OverflowError: either ends the loop.  A    *)
(* client that is silent is waited for.                                    *)
Harms == {"reset", "overflow"}

recv_EmptyEnds ==                          \* mutant: a connection without data ends the loop
    /\ Listener("recv", IF client[serving] = "closed" /\ serving = Inside THEN "check" ELSE "close")
    /\ client[serving] \in {"closed"} \cup Harms
    /\ serving' = Nobody
    /\ UNCHANGED <<main, sock, queue, client, event, container, cleanerVars, cancel, hung>>

recv ==
    /\ Listener("recv", IF client[serving] = "closed" THEN "check" ELSE "close")
    /\ client[serving] \in {"closed"} \cup Harms
    /\ serving' = Nobody
    /\ UNCHANGED <<main, sock, queue, client, event, container, cleanerVars, cancel, hung>>

close ==
    /\ Listener("close", "done")
    /\ sock' = "closed"
    /\ queue' = <<>>
    /\ UNCHANGED <<main, serving, client, event, container, cleanerVars, cancel, hung>>

----------------------------------------------------------------------------
(* The container's entrypoint and other clients of the port.               *)

(* listen(1): Linux keeps two connections waiting and lets others wait for *)
(* their connect.                                                          *)
HasRoom == Len(queue) < 2

(* echo ... > /dev/tcp/...: connect, write, close.                         *)
report ==
    /\ container = "starting"
    /\ sock = "listening" /\ HasRoom
    /\ container' = "running"
    /\ queue' = Append(queue, Inside)
    /\ client' = [client EXCEPT ![Inside] = "closed"]
    /\ UNCHANGED <<main, listener, sock, serving, event, cleanerVars, cancel, hung>>

(* Nobody listens: the entrypoint runs under errexit.                      *)
report_refused ==
    /\ container = "starting"
    /\ sock # "listening"
    /\ container' = "refused"
    /\ UNCHANGED <<main, listener, netVars, event, cleanerVars, cancel, hung>>

container_ends ==
    /\ container \in {"starting", "running"}
    /\ container' = "ended"
    /\ UNCHANGED <<main, listener, netVars, event, cleanerVars, cancel, hung>>

connect(c) ==
    /\ client[c] = "idle"
    /\ sock = "listening" /\ HasRoom
    /\ client' = [client EXCEPT ![c] = "open"]
    /\ queue' = Append(queue, c)
    /\ UNCHANGED <<main, listener, sock, serving, event, container, cleanerVars, cancel, hung>>

disconnect(c) ==
    /\ client[c] = "open"
    /\ \E how \in {"closed"} \cup Harms : client' = [client EXCEPT ![c] = how]
    /\ UNCHANGED <<main, listener, sock, queue, serving, event, container, cleanerVars, cancel, hung>>

----------------------------------------------------------------------------
(* docker_cleanup.py: cleanup_images                                       *)

(* The initial delay ends, or the thread is cancelled in it.               *)
initial_delay ==
    /\ Cleaner("delay", IF cancel THEN "done" ELSE "listing")
    /\ UNCHANGED <<main, listener, netVars, event, container, candidates, batch, cancel, hung>>

(* docker images is waited for, cancelled or not.                          *)
list_candidates(n) ==
    /\ ~hung
    /\ Cleaner("listing", IF n = 0 THEN "done" ELSE "batch")
    /\ candidates' = n
    /\ batch' = IF n < BatchSize THEN n ELSE BatchSize
    /\ UNCHANGED <<main, listener, netVars, event, container, cancel, hung>>

(* Popen for the next image of the batch, unless cancelled.                *)
start_rmi ==
    /\ batch > 0
    /\ Cleaner("batch", IF cancel THEN "interval" ELSE "rmi")
    /\ batch' = IF cancel THEN 0 ELSE batch
    /\ UNCHANGED <<main, listener, netVars, event, container, candidates, cancel, hung>>

(* docker rmi has ended, and the next image is in turn whether or not this *)
(* one could be removed; or it is cancelled and terminated.                *)
rmi_ends ==
    /\ Cleaner("rmi", "batch")
    /\ ~hung \/ cancel
    /\ candidates' = candidates - 1
    /\ batch' = batch - 1
    /\ UNCHANGED <<main, listener, netVars, event, container, cancel, hung>>

batch_done ==
    /\ batch = 0
    /\ Cleaner("batch", "interval")
    /\ UNCHANGED <<main, listener, netVars, event, container, candidates, batch, cancel, hung>>

next_batch ==
    /\ Cleaner("interval", IF cancel \/ candidates = 0 THEN "done" ELSE "batch")
    /\ batch' = IF cancel \/ candidates = 0 THEN 0
                ELSE IF candidates < BatchSize THEN candidates ELSE BatchSize
    /\ UNCHANGED <<main, listener, netVars, event, container, candidates, cancel, hung>>

docker_hangs ==
    /\ ~hung
    /\ hung' = TRUE
    /\ UNCHANGED <<main, listener, netVars, event, container, cleanerVars, cancel>>

----------------------------------------------------------------------------
MainThread ==
    \/ start_container_event_handler \/ start_background_cleanup \/ docker_run
    \/ docker_run_returns \/ cleanup_cancel_set \/ SetEvent \/ Shutdown
    \/ join_cleanup_thread \/ join_event_handler_thread

ListenerThread == listen \/ while_not_cancelled \/ accept \/ recv \/ close

CleanerThread ==
    \/ initial_delay
    \/ \E n \in 0..MaxCandidates : list_candidates(n)
    \/ start_rmi \/ rmi_ends \/ batch_done \/ next_batch

Environment ==
    \/ fails_early \/ keyboard_interrupt \/ interrupted_again
    \/ report \/ report_refused \/ container_ends
    \/ \E c \in Others : connect(c) \/ disconnect(c)
    \/ (main # "mounts" /\ docker_hangs)

(* mounts_known is left to the module that knows them.                     *)
SessionNext == MainThread \/ ListenerThread \/ CleanerThread \/ join_times_out \/ Environment

(* The session by itself, whenever the mounts are known.                   *)
SessionSpec == SessionInit /\ [][mounts_known \/ SessionNext]_sessionVars

(* The threads of a process are scheduled; whether the container ends, and *)
(* who connects, is up to others.  Timeouts are left to each property.     *)
SessionFairness ==
    /\ WF_sessionVars(MainThread)
    /\ WF_sessionVars(ListenerThread)
    /\ WF_sessionVars(CleanerThread)

----------------------------------------------------------------------------
(* Properties.                                                             *)

(* A client that connected and says nothing is being waited for.           *)
Silent == listener = "recv" /\ client[serving] = "open"

(* The command returns when its container has ended, unless the daemon     *)
(* hangs before docker run has returned; and it returns after docker run   *)
(* or Ctrl-C although the daemon hangs in the cleanup or a client keeps    *)
(* the listener waiting: both threads are joined with a timeout            *)
(* (docker_run.py:328).                                                    *)
SessionReturns ==
    WF_sessionVars(join_times_out) =>
        /\ main = "run" /\ container \in {"ended", "refused"} ~> main = "exited" \/ hung
        /\ main = "cancel" ~> main = "exited"

(* Cancelling ends both threads by itself, wherever they are - also before *)
(* the socket listens, between the test of the event and accept, during    *)
(* docker rmi - so that no timeout is needed, unless the daemon hangs or a *)
(* silent client is being waited for.                                      *)
CancelEndsThreads ==
    main = "join cleaner" ~>
        (listener = "done" /\ cleaner = "done") \/ main = "exited" \/ hung \/ Silent

(* The cleanup ends by itself, past images that cannot be removed ("until  *)
(* no more candidates need cleaning or the task is cancelled",             *)
(* docker_cleanup.py:226).                                                 *)
CleanupEnds == cleaner = "delay" ~> cleaner = "done" \/ hung

(* The threads of a session end, cancelled or left alone.                  *)
ThreadsEnd == CancelEndsThreads /\ CleanupEnds

Excused == event \/ main = "exited" \/ \E c \in Others : client[c] \in Harms

(* The report of a starting container is refused, which ends the container,*)
(* only before the thread listens, after the session has been cancelled or *)
(* after another client has reset its connection or sent a time out of     *)
(* range: a client that connects and closes does no harm.                  *)
ReportIsHeard ==
    [][report_refused => listener \in {"off", "listen"} \/ Excused]_sessionVars
=============================================================================
