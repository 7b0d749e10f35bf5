----------------------------- MODULE UdpService -----------------------------
(***************************************************************************)
(* udp.Service: one UDP port for a sequence of handlers.  The goroutine of *)
(* acceptHandlerLoop takes a handler, signals the goroutine of             *)
(* runServerLoop to start the socket server, waits for the handler's       *)
(* context and, when no handler comes for the idle time, stops the server. *)
(* Server.ListenAddr runs in the second goroutine, with a third one that   *)
(* closes the connection when the server's context is cancelled.           *)
(*                                                                         *)
(* serverRunCh and handlerCh are unbuffered and sent to with a default     *)
(* case: a send succeeds only while the receiver is in its select.  What   *)
(* the packets contain is left out; a handler that panics is one that      *)
(* returns.                                                                *)
(***************************************************************************)
CONSTANTS
    Handlers, \* the calls of Handle, one per handler
    NoHandler \* s.handler is nil

ASSUME UdpConstants == NoHandler \notin Handlers

VARIABLES
    main,    \* mainCtx is cancelled
    accept,  \* where acceptHandlerLoop is
    handler, \* s.handler
    cur,     \* h, the handler acceptHandlerLoop has taken
    used,    \* the handlers that were taken
    done,    \* the handlers whose context is cancelled
    timer,   \* the idle timer is armed
    run,     \* where runServerLoop is, down into ListenAddr
    server,  \* s.udpServer and s.udpServerStop are set
    stopped, \* the running server's own context is cancelled
    sock,    \* the connection of the present or the last ListenAddr
    missed,  \* history: cur's signal came while no server was to be had
    failed,  \* history: a server has failed since cur was taken
    broken   \* history: some server has failed

acceptVars == <<accept, handler, cur, used, timer>>

runVars == <<run, server, stopped, sock>>

history == <<missed, failed, broken>>

vars == <<main, acceptVars, done, runVars, history>>

AcceptPlaces == {"select", "signal", "wait", "stop", "exited", "panicked"}

(* new is before the first select of runServerLoop; starting to ended are  *)
(* runServer: before the fields are set, before ListenUDP, in the read     *)
(* loop, in the handler, after ListenAddr has returned.                    *)
RunPlaces == {"new", "select", "starting", "binding", "reading", "calling", "ended", "exited"}

(* none; open, or closed under the read loop; or left open by a ListenAddr *)
(* that returned: its closer is on its way, or waits for a cancellation    *)
(* that only mainCtx will bring.                                           *)
Socks == {"none", "open", "closed", "closing", "leaked"}

(* NewService: both goroutines begin. *)
Init ==
    /\ main = FALSE
    /\ accept = "select"
    /\ handler = NoHandler
    /\ cur = NoHandler
    /\ used = {}
    /\ done = {}
    /\ timer = FALSE
    /\ run = "new"
    /\ server = FALSE
    /\ stopped = FALSE
    /\ sock = "none"
    /\ missed = FALSE
    /\ failed = FALSE
    /\ broken = FALSE

CancelMain ==
    /\ ~main
    /\ main' = TRUE
    /\ UNCHANGED <<acceptVars, done, runVars, history>>

(* The owner of a handler cancels the context given to Handle. *)
HandlerDone(h) ==
    /\ h \notin done
    /\ done' = done \cup {h}
    /\ UNCHANGED <<main, acceptVars, runVars, history>>
-----------------------------------------------------------------------------
(* Handle: it finds acceptHandlerLoop in its select, or is refused with    *)
(* ErrBusy (or, when mainCtx is cancelled, without an error).              *)
Handle(h) ==
    /\ accept = "select"
    /\ h \notin used
    /\ used' = used \cup {h}
    /\ cur' = h
    /\ handler' = h
    /\ timer' = FALSE
    /\ accept' = "signal"
    /\ missed' = FALSE
    /\ failed' = FALSE
    /\ UNCHANGED <<main, done, runVars, broken>>

(* The signal: taken by a runServerLoop that waits for it, else dropped. *)
Signal ==
    /\ accept = "signal"
    /\ run' = IF run = "select" THEN "starting" ELSE run
    /\ missed' = (run \in {"new", "ended"} \/ stopped)
    /\ accept' = "wait"
    /\ UNCHANGED <<main, handler, cur, used, done, timer, server, stopped, sock, failed, broken>>

(* The handler is done: from now on the server is idle. *)
Release ==
    /\ accept = "wait"
    /\ cur \in done
    /\ handler' = NoHandler
    /\ timer' = TRUE
    /\ accept' = "select"
    /\ UNCHANGED <<main, cur, used, done, runVars, history>>

(* mutant: a version whose wait for the handler does not end with mainCtx. *)
AcceptExitIdle ==
    /\ main
    /\ accept = "select"
    /\ accept' = "exited"
    /\ timer' = FALSE
    /\ UNCHANGED <<main, handler, cur, used, done, runVars, history>>

(* Either select ends the goroutine; the inner one leaves s.handler set. *)
AcceptExit ==
    /\ main
    /\ accept \in {"select", "wait"}
    /\ accept' = "exited"
    /\ timer' = FALSE
    /\ UNCHANGED <<main, handler, cur, used, done, runVars, history>>

(* mutant: a version that does not look whether a server runs. *)
StopsAnyway == TRUE

StopsServer == server

(* The idle timer: the stop function is looked up under the mutex, ... *)
IdleTimer ==
    /\ accept = "select"
    /\ timer
    /\ timer' = FALSE
    /\ accept' = IF StopsServer THEN "stop" ELSE "select"
    /\ UNCHANGED <<main, handler, cur, used, done, runVars, history>>

(* ... and called without it: the field may be nil by then. *)
IdleStop ==
    /\ accept = "stop"
    /\ accept' = IF server THEN "select" ELSE "panicked"
    /\ stopped' = (stopped \/ server)
    /\ UNCHANGED <<main, handler, cur, used, done, timer, run, server, sock, history>>
-----------------------------------------------------------------------------
RunStarts ==
    /\ run = "new"
    /\ run' = "select"
    /\ UNCHANGED <<main, acceptVars, done, server, stopped, sock, history>>

RunExit ==
    /\ run = "select"
    /\ main
    /\ run' = "exited"
    /\ UNCHANGED <<main, acceptVars, done, server, stopped, sock, history>>

(* runServer makes the server and its context known. *)
SetServer ==
    /\ run = "starting"
    /\ server' = TRUE
    /\ run' = "binding"
    /\ UNCHANGED <<main, acceptVars, done, stopped, sock, history>>

Fails == run' = "ended" /\ failed' = TRUE /\ broken' = TRUE /\ UNCHANGED missed

(* ListenUDP, which fails while the port is taken. *)
Bind ==
    /\ run = "binding"
    /\ sock = "none"
    /\ sock' = "open"
    /\ run' = "reading"
    /\ UNCHANGED <<main, acceptVars, done, server, stopped, history>>

BindFails ==
    /\ run = "binding"
    /\ Fails
    /\ UNCHANGED <<main, acceptVars, done, server, stopped, sock>>

Cancelled == stopped \/ main

(* The goroutine that closes the connection; its context is the one of the *)
(* server, except for a connection whose server has failed.                *)
Close ==
    /\ \/ sock = "open" /\ Cancelled /\ sock' = "closed"
       \/ sock = "closing" /\ sock' = "none"
       \/ sock = "leaked" /\ main /\ sock' = "none"
    /\ UNCHANGED <<main, acceptVars, done, run, server, stopped, history>>

(* A packet: the handler is looked up under the mutex and called. *)
Receive ==
    /\ run = "reading"
    /\ sock = "open"
    /\ handler # NoHandler
    /\ run' = "calling"
    /\ UNCHANGED <<main, acceptVars, done, server, stopped, sock, history>>

Return ==
    /\ run = "calling"
    /\ run' = "reading"
    /\ UNCHANGED <<main, acceptVars, done, server, stopped, sock, history>>

(* The read loop sees the cancellation, or the closed connection: then the *)
(* read ends it without an error, setting the read deadline with one.      *)
ListenEnds ==
    /\ run = "reading"
    /\ \/ Cancelled /\ sock = "open" /\ sock' = "closing"
       \/ sock = "closed" /\ sock' = "none"
    /\ run' = "ended"
    /\ UNCHANGED <<main, acceptVars, done, server, stopped, history>>

(* A read fails: ListenAddr returns and nobody closes the connection. *)
ReadFails ==
    /\ run = "reading"
    /\ sock = "open"
    /\ sock' = IF Cancelled THEN "closing" ELSE "leaked"
    /\ Fails
    /\ UNCHANGED <<main, acceptVars, done, server, stopped>>

(* mutant: a version that runs one server only. *)
RunOnce ==
    /\ run = "ended"
    /\ server' = FALSE
    /\ stopped' = FALSE
    /\ run' = "exited"
    /\ UNCHANGED <<main, acceptVars, done, sock, history>>

(* The end of runServer. *)
ClearServer ==
    /\ run = "ended"
    /\ server' = FALSE
    /\ stopped' = FALSE
    /\ run' = "select"
    /\ UNCHANGED <<main, acceptVars, done, sock, history>>
-----------------------------------------------------------------------------
RunStep == RunStarts \/ SetServer \/ Bind \/ Return \/ ListenEnds \/ ClearServer

Running ==
    \/ CancelMain
    \/ \E h \in Handlers : HandlerDone(h) \/ Handle(h)
    \/ Signal
    \/ Release
    \/ AcceptExit
    \/ IdleTimer
    \/ IdleStop
    \/ RunStep
    \/ BindFails
    \/ RunExit
    \/ Close
    \/ Receive
    \/ ReadFails

(* A panic ends the program. *)
Next == accept # "panicked" /\ Running

Spec == Init /\ [][Next]_vars

Live(A) == accept # "panicked" /\ A

(* Goroutines that can go on do so, handlers return, the idle timer fires, *)
(* and a select with several ready cases does not pass one over for ever.  *)
Fairness ==
    /\ WF_vars(Live(Signal))
    /\ WF_vars(Live(Release))
    /\ SF_vars(Live(AcceptExit))
    /\ WF_vars(Live(IdleTimer))
    /\ WF_vars(Live(IdleStop))
    /\ WF_vars(Live(RunStep \/ BindFails))
    /\ SF_vars(Live(ListenEnds))
    /\ SF_vars(Live(RunExit))
    /\ WF_vars(Live(Close))

FairSpec == Spec /\ Fairness
-----------------------------------------------------------------------------
(* Where the goroutines can be. *)
TypeOK ==
    /\ {main, timer, server, stopped, missed, failed, broken} \subseteq BOOLEAN
    /\ accept \in AcceptPlaces
    /\ {handler, cur} \subseteq Handlers \cup {NoHandler}
    /\ used \subseteq Handlers
    /\ done \subseteq Handlers
    /\ run \in RunPlaces
    /\ sock \in Socks

(* WaitDone returns after mainCtx is cancelled, wherever the goroutines    *)
(* are: starting, serving, stopping or failing.                            *)
WaitDoneReturns == main ~> ({accept, run} = {"exited"} \/ accept = "panicked")

Serves(h) == accept = "wait" /\ cur = h

(* A handler that was accepted gets a server that listens, for as long as  *)
(* it is not done, if no server fails meanwhile: its signal is lost only   *)
(* while the service starts up or the server of the last handler stops.    *)
HandlerServed ==
    \A h \in Handlers :
        [](Serves(h) => <>(~Serves(h) \/ main \/ missed \/ failed
                             \/ (run = "reading" /\ sock = "open" /\ ~stopped)))

(* Calling s.udpServerStop after the mutex is released finds it set,       *)
(* unless the server fails or mainCtx is cancelled just then, or it still  *)
(* is the one the idle stop before has stopped.                            *)
IdleStopSafe == accept = "panicked" => broken \/ main \/ missed
=============================================================================
