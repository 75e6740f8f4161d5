------------------------- MODULE MUConnectionController -------------------------
(***************************************************************************)
(* The main thread's side of a connection: MUConnectionController, which   *)
(* makes the connection, follows it through trust failures and rejections  *)
(* and tears it down, and the server view that takes over when the server  *)
(* is joined.  Composed with the connection threads of MKConnection.       *)
(*                                                                         *)
(* The main thread runs one thing at a time: a block of the main queue or  *)
(* the handler of something the user touched.  While it waits in           *)
(* disconnect for a thread to be done it runs nothing else.                *)
(***************************************************************************)
EXTENDS MKConnection

CONSTANT MaxReconnects  \* bound: reconnects of all connections together

ASSUME ReconnectAssumption == MaxReconnects \in Nat

VARIABLES
    made,           \* number of connections made
    connection,     \* _connection
    credentials,    \* _hostname, _username and _password are set
    connectingView, \* the alert "Connecting..." is shown
    trustAlert,     \* the alert about the certificate is shown
    certView,       \* the server's certificates are shown
    rejectAlert,    \* a rejection that may be retried is shown
    root,           \* the connection whose server view is on screen
    leaving,        \* the server view is being dismissed
    waiting,        \* the connection disconnect is waiting for
    reconnects      \* number of reconnects

views == <<connectingView, trustAlert, certView, rejectAlert>>
rootVars == <<root, leaving>>
vars == <<connVars, made, connection, credentials, views, rootVars, waiting,
          reconnects>>

MainFree == waiting = None

--------------------------------------------------------------------------------
(* Mutant: the connection keeps its delegate. *)
DisownedModel(k) ==
    [Stop(k) EXCEPT !.modelDelegate = FALSE, !.msgHandler = root = connection]

(* The delegates are unset and the thread is told to stop.  The model is    *)
(* released with the server view, unless that is on screen.                 *)
Disowned(k) ==
    [Stop(k) EXCEPT !.delegate = "none", !.modelDelegate = FALSE,
                    !.msgHandler = root = connection]

(* Mutant: disconnect does not wait. *)
AwaitedNever(k) == None

(* disconnect waits for as long as the thread executes. *)
Awaited(k) == IF IsExecuting(k) THEN connection ELSE None

(* teardownConnection.  A second one finds nothing to do. *)
Teardown ==
    IF connection = None THEN UNCHANGED <<conns, connection, waiting>>
    ELSE /\ conns' = [conns EXCEPT ![connection] = Disowned(@)]
         /\ waiting' = Awaited(conns[connection])
         /\ connection' = None

(* disconnectFromServer also dismisses the server view. *)
DisconnectFromServer ==
    /\ Teardown
    /\ leaving' = (root # None)
    /\ UNCHANGED root

(* Mutant: connectToHost is not called. *)
EstablishUnstarted ==
    /\ made < MaxConns
    /\ made' = made + 1
    /\ connection' = made + 1
    /\ conns' = [conns EXCEPT ![made + 1] =
                    [@ EXCEPT !.delegate = "controller",
                        !.msgHandler = TRUE, !.modelDelegate = TRUE]]

(* establishConnection *)
Establish ==
    /\ made < MaxConns
    /\ made' = made + 1
    /\ connection' = made + 1
    /\ conns' = [conns EXCEPT ![made + 1] =
                    [Start(@) EXCEPT !.delegate = "controller",
                        !.msgHandler = TRUE, !.modelDelegate = TRUE]]

MayReconnect == reconnects < MaxReconnects

(* reconnect, with or without checking the certificate again. *)
ReconnectIt(ignore) ==
    /\ MayReconnect
    /\ reconnects' = reconnects + 1
    /\ LET k == conns[connection]
       IN  conns' = [conns EXCEPT ![connection] =
                        [Reconnect(k) EXCEPT !.ignoreSSL = k.ignoreSSL \/ ignore]]

--------------------------------------------------------------------------------
(* What the user does. *)

(* connetToHostname: the user picks a server; no alert or view is in front. *)
ConnetToHostname ==
    /\ MainFree /\ connection = None /\ root = None
    /\ ~connectingView /\ ~rejectAlert
    /\ Establish
    /\ credentials' = TRUE
    /\ connectingView' = TRUE
    /\ UNCHANGED <<mainQueue, audioConn, trustAlert, certView, rejectAlert,
                   rootVars, waiting, reconnects>>

CancelConnecting ==
    /\ MainFree /\ connectingView
    /\ connectingView' = FALSE
    /\ Teardown
    /\ UNCHANGED <<mainQueue, audioConn, made, credentials, trustAlert,
                   certView, rejectAlert, rootVars, reconnects>>

DismissRejection ==
    /\ MainFree /\ rejectAlert
    /\ rejectAlert' = FALSE
    /\ UNCHANGED <<connVars, made, connection, credentials, connectingView,
                   trustAlert, certView, rootVars, waiting, reconnects>>

RetryRejected ==
    /\ MainFree /\ rejectAlert
    /\ rejectAlert' = FALSE
    /\ Establish
    /\ connectingView' = TRUE
    /\ UNCHANGED <<mainQueue, audioConn, credentials, trustAlert, certView,
                   rootVars, waiting, reconnects>>

CancelTrust ==
    /\ MainFree /\ trustAlert
    /\ trustAlert' = FALSE
    /\ Teardown
    /\ UNCHANGED <<mainQueue, audioConn, made, credentials, connectingView,
                   certView, rejectAlert, rootVars, reconnects>>

(* "Ignore" and "Trust Certificate" *)
AcceptTrust ==
    /\ MainFree /\ trustAlert
    /\ trustAlert' = FALSE
    /\ ReconnectIt(TRUE)
    /\ connectingView' = TRUE
    /\ UNCHANGED <<mainQueue, audioConn, made, connection, credentials,
                   certView, rejectAlert, rootVars, waiting>>

ShowCertificates ==
    /\ MainFree /\ trustAlert
    /\ trustAlert' = FALSE /\ certView' = TRUE
    /\ UNCHANGED <<connVars, made, connection, credentials, connectingView,
                   rejectAlert, rootVars, waiting, reconnects>>

(* The server's certificates are dismissed: the connection is tried again. *)
CertViewDidDismiss ==
    /\ MainFree /\ certView
    /\ certView' = FALSE /\ connectingView' = TRUE
    /\ ReconnectIt(FALSE)
    /\ UNCHANGED <<mainQueue, audioConn, made, connection, credentials,
                   trustAlert, rejectAlert, rootVars, waiting>>

UserDisconnects ==
    /\ MainFree /\ root # None /\ ~leaving
    /\ DisconnectFromServer
    /\ UNCHANGED <<mainQueue, audioConn, made, credentials, views, reconnects>>

(* The server view is gone from the screen, and deallocated with its model. *)
RootDismissed ==
    /\ MainFree /\ leaving
    /\ conns' = [conns EXCEPT ![root].msgHandler = FALSE]
    /\ root' = None /\ leaving' = FALSE
    /\ UNCHANGED <<mainQueue, audioConn, made, connection, credentials, views,
                   waiting, reconnects>>

UserStep ==
    \/ ConnetToHostname \/ CancelConnecting \/ DismissRejection \/ RetryRejected
    \/ CancelTrust \/ AcceptTrust \/ ShowCertificates \/ CertViewDidDismiss
    \/ UserDisconnects

--------------------------------------------------------------------------------
(* The blocks of the main queue. *)

Run(what) ==
    /\ MainFree
    /\ mainQueue # <<>> /\ Head(mainQueue).what = what
    /\ mainQueue' = Tail(mainQueue)
    /\ UNCHANGED audioConn

Delegate == conns[Head(mainQueue).conn].delegate

(* No delegate, or one whose method is empty. *)
Unheeded(heeding) ==
    /\ Delegate \notin heeding
    /\ UNCHANGED <<conns, made, connection, credentials, views, rootVars,
                   waiting, reconnects>>

(* Mutant: the alert stays. *)
KeepConnectingView == UNCHANGED connectingView

HideConnectingView == connectingView' = FALSE

(* Mutant: the credentials are forgotten when they are sent. *)
ConnectionOpenedForgetting ==
    /\ Run("opened")
    /\ \/ Unheeded({"controller"})
       \/ /\ Delegate = "controller"
          /\ conns' = [conns EXCEPT ![Head(mainQueue).conn].authenticate = TRUE]
          /\ credentials' = FALSE
          /\ UNCHANGED <<made, connection, views, rootVars, waiting, reconnects>>

(* The connection is authenticated, with the credentials. *)
ConnectionOpened ==
    /\ Run("opened")
    /\ \/ Unheeded({"controller"})
       \/ /\ Delegate = "controller"
          /\ conns' = [conns EXCEPT ![Head(mainQueue).conn].authenticate = TRUE]
          /\ UNCHANGED <<made, connection, credentials, views, rootVars,
                         waiting, reconnects>>

ClosedWithError ==
    /\ Run("closed")
    /\ \/ Unheeded({"controller", "root"})
       \/ /\ Delegate = "controller"
          /\ HideConnectingView
          /\ IF Head(mainQueue).error THEN Teardown
             ELSE UNCHANGED <<conns, connection, waiting>>
          /\ UNCHANGED rootVars
          /\ UNCHANGED <<made, credentials, trustAlert, certView, rejectAlert,
                         reconnects>>
       \/ /\ Delegate = "root"
          /\ IF Head(mainQueue).error THEN DisconnectFromServer
             ELSE UNCHANGED <<conns, connection, waiting, rootVars>>
          /\ UNCHANGED <<made, credentials, views, reconnects>>

UnableToConnect ==
    /\ Run("unableToConnect")
    /\ \/ Unheeded({"controller"})
       \/ /\ Delegate = "controller"
          /\ HideConnectingView
          /\ Teardown
          /\ UNCHANGED <<made, credentials, trustAlert, certView, rejectAlert,
                         rootVars, reconnects>>

(* The digest of the certificate matches the one on file and the connection *)
(* is tried again, or the user is asked.                                    *)
TrustFailureInCertificateChain ==
    /\ Run("trustFailure")
    /\ \/ Unheeded({"controller"})
       \/ /\ Delegate = "controller"
          /\ \/ /\ ReconnectIt(TRUE)
                /\ UNCHANGED views
             \/ /\ HideConnectingView
                /\ trustAlert' = TRUE
                /\ UNCHANGED <<conns, certView, rejectAlert, reconnects>>
          /\ UNCHANGED <<made, connection, credentials, rootVars, waiting>>

(* The user may try again after some rejections, and not after others. *)
RejectedWithReason ==
    /\ Run("rejected")
    /\ \/ Unheeded({"controller"})
       \/ /\ Delegate = "controller"
          /\ HideConnectingView
          /\ Teardown
          /\ rejectAlert' \in BOOLEAN
          /\ UNCHANGED <<made, credentials, trustAlert, certView, rootVars,
                         reconnects>>

(* The message handler hears of it unless it is deallocated, and tells its  *)
(* delegates that the server is joined: the server view takes over.         *)
JoinedServer ==
    /\ Run("serverSync")
    /\ LET c == Head(mainQueue).conn
       IN  IF conns[c].msgHandler /\ conns[c].modelDelegate
           THEN /\ HideConnectingView
                /\ conns' = [conns EXCEPT ![c].delegate = "root"]
                /\ credentials' = FALSE
                /\ root' = c /\ leaving' = FALSE
                /\ UNCHANGED <<trustAlert, certView, rejectAlert>>
           ELSE UNCHANGED <<conns, credentials, views, rootVars>>
    /\ UNCHANGED <<made, connection, waiting, reconnects>>

(* The server view, a delegate of the model, disconnects. *)
UserKicked ==
    /\ Run("kicked")
    /\ IF conns[Head(mainQueue).conn].msgHandler THEN DisconnectFromServer
       ELSE UNCHANGED <<conns, connection, waiting, rootVars>>
    /\ UNCHANGED <<made, credentials, views, reconnects>>

MainQueueStep ==
    \/ ConnectionOpened \/ ClosedWithError \/ UnableToConnect
    \/ TrustFailureInCertificateChain \/ RejectedWithReason
    \/ JoinedServer \/ UserKicked

(* disconnect has seen the thread finished. *)
DisconnectReturns ==
    /\ waiting # None
    /\ ~IsExecuting(conns[waiting])
    /\ waiting' = None
    /\ UNCHANGED <<connVars, made, connection, credentials, views, rootVars,
                   reconnects>>

--------------------------------------------------------------------------------
Init ==
    /\ ConnInit
    /\ made = 0
    /\ connection = None
    /\ credentials = FALSE
    /\ connectingView = FALSE /\ trustAlert = FALSE
    /\ certView = FALSE /\ rejectAlert = FALSE
    /\ root = None /\ leaving = FALSE
    /\ waiting = None
    /\ reconnects = 0

Threads == \E c \in Conns : ThreadStep(c) \/ StreamEvent(c)

MainStep == MainQueueStep \/ RootDismissed \/ DisconnectReturns

Next ==
    \/ UserStep \/ MainStep
    \/ /\ Threads
       /\ UNCHANGED <<made, connection, credentials, views, rootVars, waiting,
                      reconnects>>

(* Threads run and the main thread goes on; neither the user nor the        *)
(* network has to do anything.                                              *)
Fairness ==
    /\ WF_vars(MainStep)
    /\ \A c \in Conns :
          WF_vars(/\ ThreadStep(c)
                  /\ UNCHANGED <<made, connection, credentials, views,
                                 rootVars, waiting, reconnects>>)

Spec == Init /\ [][Next]_vars /\ Fairness

--------------------------------------------------------------------------------
Places ==
    {"new", "ready", "top", "check", "wait", "reading", "closed", "ended",
     "finished"}

TypeOK ==
    /\ \A c \in Conns :
          /\ conns[c].thread \in Places
          /\ conns[c].streams \in {"none", "connecting", "handshake", "open",
                                     "dead", "refused"}
          /\ conns[c].udpSock \in {"nil", "live", "released"}
          /\ conns[c].delegate \in {"none", "controller", "root"}
          /\ conns[c].peer \in {"idle", "asked", "joined", "done"}
          /\ conns[c].orphan \in BOOLEAN
          /\ conns[c].thread = "new" <=> c > made
    /\ \A i \in DOMAIN mainQueue : mainQueue[i].conn \in Conns
    /\ audioConn \in Conns \cup {None}
    /\ {connection, root, waiting} \subseteq 1 .. made \cup {None}

(* A connection reports its end at most once, as closed, as unable to       *)
(* connect or as rejected, whatever errors and reconnects it goes through.  *)
AtMostOneEnd == \A c \in Conns : conns[c].ended <= 1

(* Connections whose owner lets go of them: all but those that were told to *)
(* stop when their thread had not begun to execute, and never hear of it.   *)
Stoppable == {c \in Conns : ~conns[c].orphan}

(* When the main thread runs, no thread is left of any connection but the   *)
(* current one: teardownConnection waits for the old thread before a new    *)
(* connection can be made.                                                  *)
OneThread ==
    MainFree =>
        \A c \in Stoppable \ {connection} : conns[c].thread \in {"new", "finished"}

(* While there is a connection exactly one view from which the user can     *)
(* leave it is in front, and without one none is: no handler leaves an      *)
(* alert behind or a connection that nothing on the screen belongs to.      *)
Fronts ==
    {v \in {"connecting", "trust", "cert", "root"} :
        \/ v = "connecting" /\ connectingView
        \/ v = "trust" /\ trustAlert
        \/ v = "cert" /\ certView
        \/ v = "root" /\ root # None /\ ~leaving}

OneView ==
    MainFree =>
        IF connection = None THEN Fronts = {}
        ELSE \E v \in Fronts : Fronts = {v} /\ (v = "root" => root = connection)

(* MKAudio sends to a connection exactly while that connection is open: the *)
(* end of an old connection never takes the microphone from a new one, as   *)
(* long as no thread was left behind.                                       *)
AudioFollowsConnection ==
    Stoppable = Conns =>
        \A c \in Conns : conns[c].established <=> audioConn = c

(* Credentials are there for as long as they may be needed: until the       *)
(* server is joined, and while a rejection may be retried.                  *)
CredentialsHeld ==
    /\ \A c \in Conns : conns[c].delegate = "controller" => credentials
    /\ rejectAlert => credentials

(* A callback is dispatched to no one but the owner of the current          *)
(* connection: what an old connection still has in the queue cannot tear    *)
(* down the next one, or authenticate it.                                   *)
OldBlocksAreUnheeded ==
    [][mainQueue # <<>> /\ Head(mainQueue).conn # connection
           /\ mainQueue' = Tail(mainQueue)
       => UNCHANGED <<connection, views, conns, waiting>>]_vars

(* disconnect does not wait for ever: wherever the thread was when it was   *)
(* stopped, it ends, unless it reads a message the server does not finish.  *)
DisconnectEnds ==
    waiting # None ~> waiting = None \/ conns[waiting].thread = "reading"

(* A connection whose thread has ended is given up by its owner: the        *)
(* failure was reported, and acted on.  (Not when there were no streams.)   *)
FailureIsNoticed ==
    \A c \in Conns :
        connection = c /\ conns[c].thread = "finished"
            /\ conns[c].streams # "refused" ~> connection # c

(* An opened connection is authenticated, or not the current one any more,  *)
(* or the server keeps its thread in the middle of a message.               *)
OpenedIsAuthenticated ==
    \A c \in Conns :
        connection = c /\ conns[c].established
            ~> \/ connection # c \/ conns[c].peer # "idle"
               \/ conns[c].thread = "reading"

(* The thread of a connection that was torn down ends: stopConnectionThread *)
(* does "Stop the MKConnection's thread".                                   *)
TeardownStopsThread ==
    \A c \in Conns :
        c <= made /\ connection # c /\ c \in Stoppable
            ~> conns[c].thread \in {"finished", "reading"}

(* The UDP socket is torn down only while there is one.                     *)
TeardownNeedsSocket ==
    [][\A c \in Conns :
          At(c, "check") /\ conns'[c].thread = "closed"
          => conns[c].udpSock # "released"]_vars
================================================================================
