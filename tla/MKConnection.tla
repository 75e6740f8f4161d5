------------------------------ MODULE MKConnection ------------------------------
(***************************************************************************)
(* MKConnection objects: the thread that each one is, the TLS streams it   *)
(* reads and writes, and the calls by which its owner starts, stops and    *)
(* reconnects it from the main thread.                                     *)
(*                                                                         *)
(* The thread and the main thread share the instance variables without a   *)
(* lock; what the thread has to say to its delegate goes through the main  *)
(* dispatch queue.  The network decides which events the streams deliver.  *)
(* Framing, voice, pings and the key exchange are left out.                *)
(*                                                                         *)
(* This module has the steps of the thread; who owns the connections and   *)
(* handles the queue is the business of the module that extends it.        *)
(***************************************************************************)
EXTENDS Naturals, Sequences

CONSTANTS
    MaxConns,   \* bound: the number of MKConnection objects made
    None,       \* nil
    Faults      \* failures of the system that are considered

AllFaults == {"startLag",   \* isExecuting is NO for a while after start
              "streams",    \* a stream pair cannot be created
              "stall"}      \* the server stops in the middle of a message

Conns == 1 .. MaxConns

ASSUME ConnAssumption ==
    /\ MaxConns \in Nat /\ None \notin Conns /\ Faults \subseteq AllFaults

VARIABLES
    conns,      \* the instance variables of each connection
    mainQueue,  \* blocks dispatched to the main queue, oldest first
    audioConn   \* the main connection of MKAudio

connVars == <<conns, mainQueue, audioConn>>

(* thread is where the thread is: "new" and "ready" before it runs, "top"   *)
(* of the outer loop, "check" and "wait" in the inner one, "reading" a      *)
(* message, "closed" and "ended" after it, "finished".  streams is the      *)
(* state of the stream pair.  Three are no variables of the code: peer is   *)
(* what the server has done, ended counts the reports of the end of the     *)
(* connection, and orphan says that a stop came before the thread executed. *)
NewConn ==
    [thread |-> "new", keepRunning |-> FALSE, reconnect |-> FALSE,
     streams |-> "none", established |-> FALSE, rejected |-> FALSE,
     connError |-> FALSE, ignoreSSL |-> FALSE, udpSock |-> "nil",
     delegate |-> "none", msgHandler |-> FALSE, modelDelegate |-> FALSE,
     authenticate |-> FALSE, peer |-> "idle", ended |-> 0, orphan |-> FALSE]

ConnInit ==
    /\ conns = [c \in Conns |-> NewConn]
    /\ mainQueue = <<>>
    /\ audioConn = None

--------------------------------------------------------------------------------
(* What the owner calls, as functions of the object's variables. *)

IsExecuting(k) == k.thread \notin {"new", "ready", "finished"}

(* connectToHost:port: *)
Start(k) ==
    [k EXCEPT !.keepRunning = TRUE,
              !.thread = IF "startLag" \in Faults THEN "ready" ELSE "top"]

(* stopConnectionThread does nothing to a thread that does not execute yet. *)
Stop(k) ==
    IF IsExecuting(k) THEN [k EXCEPT !.keepRunning = FALSE]
    ELSE [k EXCEPT !.orphan = @ \/ k.thread = "ready"]

Reconnect(k) == [k EXCEPT !.reconnect = TRUE]

--------------------------------------------------------------------------------
(* The thread's own steps. *)

At(c, place) == conns[c].thread = place

Block(what, c) == [what |-> what, conn |-> c, error |-> conns[c].connError]

Dispatch(what, c) == mainQueue' = Append(mainQueue, Block(what, c))

(* A callback is dispatched when there is a delegate; it is looked up again *)
(* when the block runs.                                                     *)
Tell(what, c) ==
    IF conns[c].delegate = "none" THEN UNCHANGED mainQueue ELSE Dispatch(what, c)

Told(k) == IF k.delegate = "none" THEN k.ended ELSE k.ended + 1

ThreadBegins(c) ==
    /\ At(c, "ready")
    /\ conns' = [conns EXCEPT ![c].thread = "top"]
    /\ UNCHANGED <<mainQueue, audioConn>>

(* Mutant: that the thread was to reconnect is not forgotten. *)
FreshStale(k) == k

Fresh(k) == [k EXCEPT !.reconnect = FALSE]

(* The top of the outer loop.  Without streams the thread just returns. *)
OpenStreams(c) ==
    /\ At(c, "top")
    /\ \/ conns' = [conns EXCEPT ![c] =
                        [Fresh(@) EXCEPT !.thread = "check",
                             !.streams = "connecting", !.peer = "idle"]]
       \/ /\ "streams" \in Faults
          /\ conns' = [conns EXCEPT ![c] =
                        [Fresh(@) EXCEPT !.thread = "finished", !.streams = "refused"]]
    /\ UNCHANGED <<mainQueue, audioConn>>

(* Mutant: the loop is left for a reconnect only. *)
MayRunOn(c) == ~conns[c].reconnect

MayRun(c) == conns[c].keepRunning /\ ~conns[c].reconnect

(* The run loop waits for an event, or is woken by _wakeRunLoop. *)
EnterRunLoop(c) ==
    /\ At(c, "check") /\ MayRun(c)
    /\ conns' = [conns EXCEPT ![c].thread = "wait"]
    /\ UNCHANGED <<mainQueue, audioConn>>

Wake(c) ==
    /\ At(c, "wait") /\ ~MayRun(c)
    /\ conns' = [conns EXCEPT ![c].thread = "check"]
    /\ UNCHANGED <<mainQueue, audioConn>>

(* The UDP socket, if there is one, is invalidated and released, but not    *)
(* forgotten; both streams are closed and set to nil.                       *)
LeaveLoop(c) ==
    /\ At(c, "check") /\ ~MayRun(c)
    /\ conns' = [conns EXCEPT ![c].thread = "closed", ![c].streams = "none",
                              ![c].udpSock = IF @ = "nil" THEN @ ELSE "released"]
    /\ UNCHANGED <<mainQueue, audioConn>>

(* Mutant: a rejected connection counts as opened. *)
WasEstablished(k) == k.established

WasOpened(k) == k.established /\ ~k.rejected

(* Mutant: a rejected connection remains the main connection of MKAudio. *)
AudioAfterClosed(c) == IF WasOpened(conns[c]) THEN None ELSE audioConn

AudioAfterEnd(c) == None

(* An opened connection that was not rejected is reported closed; otherwise *)
(* an error is reported as the inability to connect.                        *)
ReportEnd(c) ==
    /\ At(c, "closed")
    /\ LET k == conns[c]
       IN  /\ conns' = [conns EXCEPT
                ![c].thread = "ended", ![c].established = FALSE,
                ![c].rejected = FALSE,
                ![c].ended = IF WasOpened(k) \/ k.connError THEN Told(k) ELSE @]
           /\ IF WasOpened(k) THEN Tell("closed", c)
              ELSE IF k.connError THEN Tell("unableToConnect", c)
              ELSE UNCHANGED mainQueue
    /\ audioConn' = AudioAfterEnd(c)

LoopOrExit(c) ==
    /\ At(c, "ended")
    /\ conns' = [conns EXCEPT ![c].thread =
                     IF conns[c].reconnect THEN "top" ELSE "finished"]
    /\ UNCHANGED <<mainQueue, audioConn>>

(* A message that another thread has asked to send, here Authenticate, is   *)
(* written by this one, if the connection is open.                          *)
SendMessageHelper(c) ==
    /\ At(c, "wait") /\ conns[c].authenticate
    /\ conns' = [conns EXCEPT ![c].thread = "check", ![c].authenticate = FALSE,
                    ![c].peer = IF conns[c].established THEN "asked" ELSE @]
    /\ UNCHANGED <<mainQueue, audioConn>>

ThreadStep(c) ==
    \/ ThreadBegins(c) \/ OpenStreams(c) \/ EnterRunLoop(c) \/ Wake(c)
    \/ LeaveLoop(c) \/ ReportEnd(c) \/ LoopOrExit(c) \/ SendMessageHelper(c)

--------------------------------------------------------------------------------
(* The events of the streams, each one turn of the run loop. *)

Event(c, state) == At(c, "wait") /\ conns[c].streams = state

(* The TCP connection is there: _setupUdpSock makes a socket, or fails to. *)
OpenCompleted(c) ==
    /\ Event(c, "connecting")
    /\ \E sock \in {"live", "nil"} :
          conns' = [conns EXCEPT ![c].thread = "check", ![c].udpSock = sock,
                                 ![c].streams = "handshake"]
    /\ UNCHANGED <<mainQueue, audioConn>>

(* Mutant: the delegate is not told. *)
SpaceAvailableUntold(c) ==
    /\ Event(c, "handshake")
    /\ conns' = [conns EXCEPT ![c].thread = "check", ![c].streams = "open",
                              ![c].established = TRUE]
    /\ audioConn' = c
    /\ UNCHANGED mainQueue

(* The TLS handshake is done. *)
SpaceAvailable(c) ==
    /\ Event(c, "handshake")
    /\ conns' = [conns EXCEPT ![c].thread = "check", ![c].streams = "open",
                              ![c].established = TRUE]
    /\ Tell("opened", c)
    /\ audioConn' = c

(* Mutant: the error is not kept. *)
FailedSilently(k) == [Stop(k) EXCEPT !.thread = "check", !.streams = "dead"]

(* _handleError: the connection failed or was closed by the server. *)
Failed(k) ==
    [Stop(k) EXCEPT !.thread = "check", !.streams = "dead", !.connError = TRUE]

StreamError(c) ==
    /\ \E state \in {"connecting", "handshake", "open"} : Event(c, state)
    /\ conns' = [conns EXCEPT ![c] = Failed(@)]
    /\ UNCHANGED <<mainQueue, audioConn>>

(* _tryHandleSslError: the chain of the server is not trusted, but the user *)
(* may decide to.  The thread goes on waiting, on streams that are dead.    *)
TrustFailure(c) ==
    /\ Event(c, "handshake") /\ ~conns[c].ignoreSSL
    /\ conns' = [conns EXCEPT ![c].thread = "check", ![c].streams = "dead"]
    /\ Tell("trustFailure", c)
    /\ UNCHANGED audioConn

(* _messageRecieved: nothing is done without a message handler. *)
Receive(c, state) ==
    Event(c, "open") /\ conns[c].peer = state /\ conns[c].msgHandler

(* _connectionRejected *)
ReceiveReject(c) ==
    /\ Receive(c, "asked")
    /\ Tell("rejected", c)
    /\ conns' = [conns EXCEPT ![c] =
                    [Stop(@) EXCEPT !.thread = "check", !.rejected = TRUE,
                                    !.peer = "done", !.ended = Told(conns[c])]]
    /\ UNCHANGED audioConn

ReceiveServerSync(c) ==
    /\ Receive(c, "asked")
    /\ Dispatch("serverSync", c)
    /\ conns' = [conns EXCEPT ![c].thread = "check", ![c].peer = "joined"]
    /\ UNCHANGED audioConn

(* The server kicks or bans this user: a UserRemove message. *)
ReceiveUserRemove(c) ==
    /\ Receive(c, "joined")
    /\ Dispatch("kicked", c)
    /\ conns' = [conns EXCEPT ![c].thread = "check", ![c].peer = "done"]
    /\ UNCHANGED audioConn

(* _dataReady has read a header: the read of the payload returns when there *)
(* are more bytes, or when the connection is lost.                          *)
ReadBlocks(c) ==
    /\ "stall" \in Faults
    /\ Event(c, "open")
    /\ conns' = [conns EXCEPT ![c].thread = "reading"]
    /\ UNCHANGED <<mainQueue, audioConn>>

ReadReturns(c) ==
    /\ At(c, "reading")
    /\ conns' = [conns EXCEPT ![c].thread = "check"]
    /\ UNCHANGED <<mainQueue, audioConn>>

StreamEvent(c) ==
    \/ ReadBlocks(c) \/ ReadReturns(c)
    \/ OpenCompleted(c) \/ SpaceAvailable(c) \/ StreamError(c)
    \/ TrustFailure(c)
    \/ ReceiveReject(c) \/ ReceiveServerSync(c) \/ ReceiveUserRemove(c)
================================================================================
