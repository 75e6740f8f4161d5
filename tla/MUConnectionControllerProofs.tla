---------------------- MODULE MUConnectionControllerProofs ----------------------
(***************************************************************************)
(* What the main thread and the connection threads keep true together, for *)
(* any number of connections and reconnects and any of the failures.       *)
(*                                                                         *)
(* The argument has three parts.  What is on the screen is a function of   *)
(* the current connection and of who its delegate is (Screen).  A thread   *)
(* that has something to do belongs to the current connection, to the one  *)
(* disconnect waits for, or was stopped before it executed (Threads).  And *)
(* the current connection has at most one thing to tell its owner at a     *)
(* time: that the certificate is not trusted, which only a reconnect       *)
(* follows, or its end, which nothing follows (Current, Told).             *)
(***************************************************************************)
EXTENDS MUConnectionController, SequenceTheorems, TLAPS

Conn ==
    [thread : Places, keepRunning : BOOLEAN, reconnect : BOOLEAN,
     streams : {"none", "connecting", "handshake", "open", "dead", "refused"},
     established : BOOLEAN, rejected : BOOLEAN, connError : BOOLEAN,
     ignoreSSL : BOOLEAN, udpSock : {"nil", "live", "released"},
     delegate : {"none", "controller", "root"}, msgHandler : BOOLEAN,
     modelDelegate : BOOLEAN, authenticate : BOOLEAN,
     peer : {"idle", "asked", "joined", "done"}, ended : Nat, orphan : BOOLEAN]

EndsTold == {"closed", "unableToConnect", "rejected"}
Whats == EndsTold \cup {"opened", "trustFailure", "serverSync", "kicked"}

Typed ==
    /\ conns \in [Conns -> Conn]
    /\ mainQueue \in Seq([what : Whats, conn : Conns, error : BOOLEAN])
    /\ audioConn \in Conns \cup {None}
    /\ made \in 0 .. MaxConns
    /\ {connection, root, waiting} \subseteq 1 .. made \cup {None}
    /\ credentials \in BOOLEAN /\ leaving \in BOOLEAN
    /\ connectingView \in BOOLEAN /\ trustAlert \in BOOLEAN
    /\ certView \in BOOLEAN /\ rejectAlert \in BOOLEAN

(* A connection that is not made yet is as it will be found. *)
Unmade ==
    /\ \A c \in Conns : IF c > made THEN conns[c] = NewConn
                        ELSE conns[c].thread # "new"
    /\ \A i \in DOMAIN mainQueue : mainQueue[i].conn <= made

(* Only the current connection has an owner that listens. *)
Owned ==
    \A c \in Conns :
        /\ conns[c].delegate # "none" <=> c = connection
        /\ conns[c].modelDelegate <=> c = connection
        /\ c = connection => conns[c].msgHandler
        /\ conns[c].msgHandler => c \in {connection, root}

Controlled == conns[connection].delegate = "controller"

Screen ==
    /\ IF connection = None
       THEN ~connectingView /\ ~trustAlert /\ ~certView /\ (leaving <=> root # None)
       ELSE IF Controlled
       THEN /\ root = None /\ ~leaving /\ credentials
            /\ connectingView \/ trustAlert \/ certView
            /\ ~(connectingView /\ trustAlert)
            /\ ~(connectingView /\ certView) /\ ~(trustAlert /\ certView)
       ELSE ~connectingView /\ ~trustAlert /\ ~certView /\ root = connection /\ ~leaving
    /\ rejectAlert => connection = None /\ root = None /\ credentials

Running == {"check", "wait", "reading", "closed"}

ThreadsOwned ==
    /\ waiting # None => connection = None /\ conns[waiting].thread # "ready"
    /\ \A c \in Conns :
          /\ ~conns[c].orphan /\ c \notin {connection, waiting}
                => conns[c].thread \in {"new", "finished"}
          /\ conns[c].established => conns[c].thread \in Running

(* What a current connection is like.  asking: its owner has been, or is to *)
(* be, told that the certificate is not trusted, and has not reconnected.   *)
Current(k, asking) ==
    /\ k.connError \/ k.rejected => ~k.keepRunning
    /\ ~k.keepRunning =>
          k.connError \/ k.rejected \/ k.thread \in {"ended", "finished"}
    /\ k.thread \in {"ready", "top", "wait", "reading"} => k.keepRunning
    /\ k.thread = "closed" => ~k.keepRunning \/ k.reconnect
    /\ k.ended = 1 => \/ k.thread \in {"ended", "finished"}
                      \/ k.thread \in {"check", "closed"} /\ k.rejected /\ ~k.connError
    /\ asking => ~k.reconnect /\ k.thread \in {"check", "wait"} /\ k.streams = "dead"
    /\ k.reconnect => \/ k.thread \in {"check", "wait"} /\ k.streams = "dead"
                      \/ k.thread \in {"closed", "ended", "top"}
    /\ asking \/ k.reconnect =>
          /\ k.keepRunning /\ k.ended = 0 /\ ~k.established /\ k.peer = "idle"
    /\ k.streams \in {"connecting", "handshake"} => ~k.established /\ k.peer = "idle"
    /\ k.thread \in {"ready", "top"} => k.peer = "idle"

OfCurrent(i, kinds) ==
    mainQueue[i].conn = connection /\ mainQueue[i].what \in kinds

Asking ==
    \/ trustAlert \/ certView
    \/ \E i \in DOMAIN mainQueue : OfCurrent(i, {"trustFailure"})

CurrentOK == connection # None => Current(conns[connection], Asking)

(* What the blocks of the queue that are about the current connection say   *)
(* is true of it.                                                           *)
ToldTrue ==
    /\ \A i \in DOMAIN mainQueue :
          /\ OfCurrent(i, EndsTold) => conns[connection].ended = 1
          /\ OfCurrent(i, {"closed"}) => mainQueue[i].error
          /\ OfCurrent(i, {"serverSync"}) => conns[connection].peer # "idle"
          /\ OfCurrent(i, {"kicked"}) =>
                \/ ~Controlled
                \/ \E j \in 1 .. i - 1 : OfCurrent(j, {"serverSync"})
    /\ connection # None /\ Controlled /\ conns[connection].peer = "joined" =>
          \E j \in DOMAIN mainQueue : OfCurrent(j, {"serverSync"})

AskedOnce ==
    \A i \in DOMAIN mainQueue :
        OfCurrent(i, {"trustFailure"}) =>
            /\ ~trustAlert /\ ~certView
            /\ \A j \in DOMAIN mainQueue : OfCurrent(j, {"trustFailure"}) => j = i

IInv ==
    /\ Typed /\ Unmade /\ Owned /\ Screen /\ ThreadsOwned
    /\ CurrentOK /\ ToldTrue /\ AskedOnce
    /\ AtMostOneEnd /\ AudioFollowsConnection

--------------------------------------------------------------------------------
(* The steps of a thread. *)

Blocks == [what : Whats, conn : Conns, error : BOOLEAN]

(* What a step of the thread of c may change, whatever step it is. *)
Shape(c) ==
    /\ conns' \in [Conns -> Conn]
    /\ \A x \in Conns \ {c} : conns'[x] = conns[x]
    /\ conns'[c].delegate = conns[c].delegate
    /\ conns'[c].modelDelegate = conns[c].modelDelegate
    /\ conns'[c].msgHandler = conns[c].msgHandler
    /\ conns'[c].orphan = conns[c].orphan
    /\ conns[c].delegate = "none" => conns'[c].ended = conns[c].ended
    /\ conns[c].thread \notin {"new", "finished"}
    /\ conns'[c].thread \notin {"new", "ready"}
    /\ \/ mainQueue' = mainQueue
       \/ \E b \in Blocks : b.conn = c /\ mainQueue' = Append(mainQueue, b)

(* How it may change which connection is open, and whose voice MKAudio      *)
(* takes.                                                                   *)
Voice(c) ==
    IF conns'[c].established
    THEN /\ conns'[c].thread \in Running
         /\ \/ audioConn' = c
            \/ conns[c].established /\ audioConn' = audioConn
    ELSE \/ audioConn' = None
         \/ ~conns[c].established /\ audioConn' = audioConn

LEMMA ShapeOfThreadStep ==
    ASSUME IInv, NEW c \in Conns, ThreadStep(c)
    PROVE  Shape(c)
<1> DEFINE k == conns[c]
<1>1. k \in Conn /\ conns \in [Conns -> Conn]
  BY DEF IInv, Typed
<1> USE DEF At, Shape
<1>2. CASE ThreadBegins(c)
  BY <1>1, <1>2 DEF ThreadBegins, Conn, Places
<1>3. CASE OpenStreams(c)
  <2> DEFINE fresh == Fresh(k)
             tried == [fresh EXCEPT !.thread = "check", !.streams = "connecting",
                                    !.peer = "idle"]
             refused == [fresh EXCEPT !.thread = "finished", !.streams = "refused"]
  <2>1. /\ fresh \in Conn /\ fresh.delegate = k.delegate /\ fresh.orphan = k.orphan
        /\ fresh.modelDelegate = k.modelDelegate /\ fresh.msgHandler = k.msgHandler
        /\ fresh.ended = k.ended
    BY <1>1 DEF Fresh, Conn
  <2>2. /\ mainQueue' = mainQueue /\ k.thread = "top"
        /\ \/ conns' = [conns EXCEPT ![c] = tried]
           \/ conns' = [conns EXCEPT ![c] = refused]
    BY <1>3, Zenon DEF OpenStreams
  <2> HIDE DEF fresh
  <2>3. /\ tried \in Conn /\ tried.delegate = k.delegate /\ tried.orphan = k.orphan
        /\ tried.modelDelegate = k.modelDelegate /\ tried.msgHandler = k.msgHandler
        /\ tried.thread = "check" /\ tried.ended = k.ended
    BY <2>1 DEF Conn, Places
  <2>4. /\ refused \in Conn /\ refused.delegate = k.delegate
        /\ refused.modelDelegate = k.modelDelegate /\ refused.orphan = k.orphan
        /\ refused.msgHandler = k.msgHandler /\ refused.thread = "finished"
        /\ refused.ended = k.ended
    BY <2>1 DEF Conn, Places
  <2> HIDE DEF tried, refused
  <2> QED
    BY <1>1, <2>2, <2>3, <2>4
<1>4. CASE EnterRunLoop(c)
  BY <1>1, <1>4 DEF EnterRunLoop, Conn, Places
<1>5. CASE Wake(c)
  BY <1>1, <1>5 DEF Wake, Conn, Places
<1>6. CASE LeaveLoop(c)
  BY <1>1, <1>6 DEF LeaveLoop, Conn, Places
<1>7. CASE ReportEnd(c)
  <2> DEFINE ended == IF WasOpened(k) \/ k.connError THEN Told(k) ELSE k.ended
  <2>1. ended \in Nat /\ (k.delegate = "none" => ended = k.ended)
    BY <1>1 DEF Conn, Told
  <2>2. conns' = [conns EXCEPT ![c].thread = "ended", ![c].established = FALSE,
                              ![c].rejected = FALSE, ![c].ended = ended]
    BY <1>7 DEF ReportEnd
  <2>3. \/ mainQueue' = mainQueue
        \/ \E b \in Blocks : b.conn = c /\ mainQueue' = Append(mainQueue, b)
    BY <1>1, <1>7
    DEF ReportEnd, Tell, Dispatch, Block, Blocks, Whats, EndsTold, Conn
  <2>4. k.thread = "closed"
    BY <1>7 DEF ReportEnd
  <2> HIDE DEF ended
  <2> QED
    BY <1>1, <2>1, <2>2, <2>3, <2>4 DEF Conn, Places
<1>8. CASE LoopOrExit(c)
  BY <1>1, <1>8 DEF LoopOrExit, Conn, Places
<1>9. CASE SendMessageHelper(c)
  BY <1>1, <1>9 DEF SendMessageHelper, Conn, Places
<1> QED
  BY <1>2, <1>3, <1>4, <1>5, <1>6, <1>7, <1>8, <1>9 DEF ThreadStep

LEMMA VoiceOfThreadStep ==
    ASSUME IInv, NEW c \in Conns, ThreadStep(c)
    PROVE  Voice(c)
<1> DEFINE k == conns[c]
<1>1. k \in Conn /\ conns \in [Conns -> Conn] /\ (k.established => k.thread \in Running)
  BY DEF IInv, Typed, ThreadsOwned
<1> USE DEF At, Voice, Running
<1>2. CASE ThreadBegins(c)
  BY <1>1, <1>2 DEF ThreadBegins, Conn
<1>3. CASE OpenStreams(c)
  <2> DEFINE fresh == Fresh(k)
             tried == [fresh EXCEPT !.thread = "check", !.streams = "connecting",
                                    !.peer = "idle"]
             refused == [fresh EXCEPT !.thread = "finished", !.streams = "refused"]
  <2>1. /\ audioConn' = audioConn /\ k.thread = "top"
        /\ \/ conns' = [conns EXCEPT ![c] = tried]
           \/ conns' = [conns EXCEPT ![c] = refused]
    BY <1>3, Zenon DEF OpenStreams
  <2>2. /\ tried.established = k.established /\ tried.thread = "check"
        /\ refused.established = k.established
    BY ONLY <1>1 DEF Conn, Fresh
  <2>3. ~k.established
    BY <1>1, <2>1
  <2> HIDE DEF tried, refused
  <2> QED
    BY <1>1, <2>1, <2>2, <2>3
<1>4. CASE EnterRunLoop(c)
  BY <1>1, <1>4 DEF EnterRunLoop, Conn
<1>5. CASE Wake(c)
  BY <1>1, <1>5 DEF Wake, Conn
<1>6. CASE LeaveLoop(c)
  BY <1>1, <1>6 DEF LeaveLoop, Conn
<1>7. CASE ReportEnd(c)
  BY <1>1, <1>7 DEF ReportEnd, Conn, AudioAfterEnd
<1>8. CASE LoopOrExit(c)
  BY <1>1, <1>8 DEF LoopOrExit, Conn
<1>9. CASE SendMessageHelper(c)
  BY <1>1, <1>9 DEF SendMessageHelper, Conn
<1> QED
  BY <1>2, <1>3, <1>4, <1>5, <1>6, <1>7, <1>8, <1>9 DEF ThreadStep

(* What is left of a connection that fails, and of one that is rejected. *)
LEMMA FailedIs ==
    ASSUME NEW k \in Conn, k.thread = "wait"
    PROVE  Failed(k) = [k EXCEPT !.keepRunning = FALSE, !.thread = "check",
                                 !.streams = "dead", !.connError = TRUE]
<1> DEFINE stopped == [k EXCEPT !.keepRunning = FALSE]
<1>1. Stop(k) = stopped
  BY DEF Stop, IsExecuting
<1>2. Failed(k) = [stopped EXCEPT !.thread = "check", !.streams = "dead",
                                  !.connError = TRUE]
  BY <1>1 DEF Failed
<1> QED
  BY <1>2 DEF Conn

LEMMA RejectedIs ==
    ASSUME NEW k \in Conn, k.thread = "wait"
    PROVE  [Stop(k) EXCEPT !.thread = "check", !.rejected = TRUE, !.peer = "done",
                           !.ended = Told(k)]
         = [k EXCEPT !.keepRunning = FALSE, !.thread = "check", !.rejected = TRUE,
                     !.peer = "done", !.ended = Told(k)]
<1> DEFINE stopped == [k EXCEPT !.keepRunning = FALSE]
           ended == Told(k)
<1>1. Stop(k) = stopped
  BY DEF Stop, IsExecuting
<1> HIDE DEF ended
<1>2. [stopped EXCEPT !.thread = "check", !.rejected = TRUE, !.peer = "done",
                      !.ended = ended]
    = [k EXCEPT !.keepRunning = FALSE, !.thread = "check", !.rejected = TRUE,
                !.peer = "done", !.ended = ended]
  BY DEF Conn
<1> QED
  BY <1>1, <1>2 DEF ended

LEMMA ShapeOfStreamEvent ==
    ASSUME IInv, NEW c \in Conns, StreamEvent(c)
    PROVE  Shape(c)
<1> DEFINE k == conns[c]
<1>1. k \in Conn /\ conns \in [Conns -> Conn]
  BY DEF IInv, Typed
<1> USE DEF At, Event, Shape
<1>2. CASE ReadBlocks(c)
  BY <1>1, <1>2 DEF ReadBlocks, Conn, Places
<1>3. CASE ReadReturns(c)
  BY <1>1, <1>3 DEF ReadReturns, Conn, Places
<1>4. CASE OpenCompleted(c)
  BY <1>1, <1>4 DEF OpenCompleted, Conn, Places
<1>5. CASE SpaceAvailable(c)
  BY <1>1, <1>5
  DEF SpaceAvailable, Conn, Places, Tell, Dispatch, Block, Blocks, Whats
<1>6. CASE StreamError(c)
  <2> DEFINE failed == Failed(k)
  <2>1. /\ k.thread = "wait" /\ conns' = [conns EXCEPT ![c] = failed]
        /\ mainQueue' = mainQueue
    BY <1>6 DEF StreamError
  <2>2. failed = [k EXCEPT !.keepRunning = FALSE, !.thread = "check",
                           !.streams = "dead", !.connError = TRUE]
    BY <1>1, <2>1, FailedIs
  <2>3. /\ failed \in Conn /\ failed.delegate = k.delegate /\ failed.orphan = k.orphan
        /\ failed.modelDelegate = k.modelDelegate /\ failed.msgHandler = k.msgHandler
        /\ failed.thread = "check" /\ failed.ended = k.ended
    <3> HIDE DEF k, failed
    <3>1. failed \in Conn
      BY ONLY <1>1, <2>2 DEF Conn, Places
    <3>2. /\ failed.delegate = k.delegate /\ failed.orphan = k.orphan
          /\ failed.modelDelegate = k.modelDelegate /\ failed.msgHandler = k.msgHandler
          /\ failed.thread = "check" /\ failed.ended = k.ended
      BY ONLY <1>1, <2>2 DEF Conn
    <3> QED
      BY ONLY <3>1, <3>2
  <2> HIDE DEF failed
  <2> QED
    BY <1>1, <2>1, <2>3
<1>7. CASE TrustFailure(c)
  BY <1>1, <1>7
  DEF TrustFailure, Conn, Places, Tell, Dispatch, Block, Blocks, Whats
<1>8. CASE ReceiveReject(c)
  <2> DEFINE ended == Told(k)
  <2>1. k.thread = "wait" /\ ended \in Nat /\ (k.delegate = "none" => ended = k.ended)
    BY <1>1, <1>8 DEF ReceiveReject, Receive, Told, Conn
  <2>2. conns' = [conns EXCEPT ![c] =
                     [k EXCEPT !.keepRunning = FALSE, !.thread = "check",
                               !.rejected = TRUE, !.peer = "done", !.ended = ended]]
    BY <1>1, <1>8, <2>1, RejectedIs DEF ReceiveReject
  <2>3. \/ mainQueue' = mainQueue
        \/ \E b \in Blocks : b.conn = c /\ mainQueue' = Append(mainQueue, b)
    BY <1>1, <1>8
    DEF ReceiveReject, Tell, Dispatch, Block, Blocks, Whats, EndsTold, Conn
  <2> DEFINE new == [k EXCEPT !.keepRunning = FALSE, !.thread = "check",
                              !.rejected = TRUE, !.peer = "done", !.ended = ended]
  <2> HIDE DEF ended
  <2>4. /\ new \in Conn /\ new.delegate = k.delegate /\ new.orphan = k.orphan
        /\ new.modelDelegate = k.modelDelegate /\ new.msgHandler = k.msgHandler
        /\ new.thread = "check" /\ new.ended = ended
    BY ONLY <1>1, <2>1 DEF Conn, Places
  <2>5. conns' = [conns EXCEPT ![c] = new]
    BY <2>2
  <2> HIDE DEF new
  <2> QED
    BY <1>1, <2>1, <2>3, <2>4, <2>5
<1>9. CASE ReceiveServerSync(c)
  BY <1>1, <1>9
  DEF ReceiveServerSync, Receive, Conn, Places, Dispatch, Block, Blocks, Whats
<1>10. CASE ReceiveUserRemove(c)
  BY <1>1, <1>10
  DEF ReceiveUserRemove, Receive, Conn, Places, Dispatch, Block, Blocks, Whats
<1> QED
  BY <1>2, <1>3, <1>4, <1>5, <1>6, <1>7, <1>8, <1>9, <1>10 DEF StreamEvent

LEMMA VoiceOfStreamEvent ==
    ASSUME IInv, NEW c \in Conns, StreamEvent(c)
    PROVE  Voice(c)
<1> DEFINE k == conns[c]
<1>1. k \in Conn /\ conns \in [Conns -> Conn] /\ (k.established => k.thread \in Running)
  BY DEF IInv, Typed, ThreadsOwned
<1> USE DEF At, Event, Voice, Running
<1>2. CASE ReadBlocks(c)
  BY <1>1, <1>2 DEF ReadBlocks, Conn
<1>3. CASE ReadReturns(c)
  BY <1>1, <1>3 DEF ReadReturns, Conn
<1>4. CASE OpenCompleted(c)
  BY <1>1, <1>4 DEF OpenCompleted, Conn
<1>5. CASE SpaceAvailable(c)
  BY <1>1, <1>5 DEF SpaceAvailable, Conn
<1>6. CASE StreamError(c)
  <2>1. /\ k.thread = "wait" /\ conns' = [conns EXCEPT ![c] = Failed(k)]
        /\ audioConn' = audioConn
    BY <1>6 DEF StreamError
  <2>2. Failed(k) = [k EXCEPT !.keepRunning = FALSE, !.thread = "check",
                              !.streams = "dead", !.connError = TRUE]
    BY <1>1, <2>1, FailedIs
  <2>3. Failed(k).established = k.established /\ Failed(k).thread = "check"
    BY ONLY <1>1, <2>2 DEF Conn
  <2> QED
    BY <1>1, <2>1, <2>3
<1>7. CASE TrustFailure(c)
  BY <1>1, <1>7 DEF TrustFailure, Conn
<1>8. CASE ReceiveReject(c)
  <2> DEFINE ended == Told(k)
  <2>1. k.thread = "wait" /\ audioConn' = audioConn
    BY <1>8 DEF ReceiveReject, Receive
  <2>2. conns' = [conns EXCEPT ![c] =
                     [k EXCEPT !.keepRunning = FALSE, !.thread = "check",
                               !.rejected = TRUE, !.peer = "done", !.ended = ended]]
    BY <1>1, <1>8, <2>1, RejectedIs DEF ReceiveReject
  <2> HIDE DEF ended
  <2> QED
    BY <1>1, <2>1, <2>2 DEF Conn
<1>9. CASE ReceiveServerSync(c)
  BY <1>1, <1>9 DEF ReceiveServerSync, Receive, Conn
<1>10. CASE ReceiveUserRemove(c)
  BY <1>1, <1>10 DEF ReceiveUserRemove, Receive, Conn
<1> QED
  BY <1>2, <1>3, <1>4, <1>5, <1>6, <1>7, <1>8, <1>9, <1>10 DEF StreamEvent

(* What a step of the current connection does, and what it dispatches: a    *)
(* block that says what, or nothing.                                        *)
Speaks(c, what) ==
    /\ IF what = "nothing" THEN mainQueue' = mainQueue
       ELSE mainQueue' = Append(mainQueue, Block(what, c))
    /\ Current(conns'[c], Asking \/ what = "trustFailure")
    /\ conns'[c].ended <= 1
    /\ conns[c].ended = 1 => conns'[c].ended = 1
    /\ conns[c].peer # "idle" => conns'[c].peer # "idle"
    /\ conns'[c].peer = "joined" => conns[c].peer = "joined" \/ what = "serverSync"
    /\ what \in EndsTold => conns'[c].ended = 1
    /\ what = "closed" => conns[c].connError
    /\ what = "serverSync" => conns'[c].peer # "idle"
    /\ what = "kicked" => conns[c].peer = "joined"
    /\ what = "trustFailure" => ~Asking

LEMMA CurrentOfThreadStep ==
    ASSUME IInv, NEW c \in Conns, c = connection, ThreadStep(c)
    PROVE  \E what \in Whats \cup {"nothing"} : Speaks(c, what)
<1> DEFINE k == conns[c]
<1>1. /\ k \in Conn /\ conns \in [Conns -> Conn] /\ k.delegate # "none"
      /\ Current(k, Asking) /\ k.ended \in {0, 1}
      /\ k.established => k.thread \in Running
  BY ConnAssumption
  DEF IInv, Typed, CurrentOK, Owned, AtMostOneEnd, ThreadsOwned, Conn
<1> USE DEF At, Current, Conn
<1>2. CASE ThreadBegins(c)
  <2>1. Speaks(c, "nothing")
    BY <1>1, <1>2 DEF ThreadBegins, Speaks, EndsTold
  <2> QED
    BY <2>1
<1>3. CASE OpenStreams(c)
  <2> DEFINE fresh == Fresh(k)
             tried == [fresh EXCEPT !.thread = "check", !.streams = "connecting",
                                    !.peer = "idle"]
             refused == [fresh EXCEPT !.thread = "finished", !.streams = "refused"]
  <2>1. /\ mainQueue' = mainQueue /\ k.thread = "top"
        /\ \/ conns' = [conns EXCEPT ![c] = tried]
           \/ conns' = [conns EXCEPT ![c] = refused]
    BY <1>3, Zenon DEF OpenStreams
  <2>2. fresh = [k EXCEPT !.reconnect = FALSE]
    BY DEF Fresh
  <2> HIDE DEF fresh
  <2>3. CASE conns' = [conns EXCEPT ![c] = tried]
    <3>1. tried = [k EXCEPT !.reconnect = FALSE, !.thread = "check",
                            !.streams = "connecting", !.peer = "idle"]
      BY <1>1, <2>2
    <3> HIDE DEF tried
    <3>2. Speaks(c, "nothing")
      BY <1>1, <2>1, <2>3, <3>1 DEF Speaks, EndsTold, Running
    <3> QED
      BY <3>2
  <2>4. CASE conns' = [conns EXCEPT ![c] = refused]
    <3>1. refused = [k EXCEPT !.reconnect = FALSE, !.thread = "finished",
                              !.streams = "refused"]
      BY <1>1, <2>2
    <3> HIDE DEF refused
    <3>2. Speaks(c, "nothing")
      BY <1>1, <2>1, <2>4, <3>1 DEF Speaks, EndsTold, Running
    <3> QED
      BY <3>2
  <2> QED
    BY <2>1, <2>3, <2>4
<1>4. CASE EnterRunLoop(c)
  <2>1. Speaks(c, "nothing")
    BY <1>1, <1>4 DEF EnterRunLoop, MayRun, Speaks, EndsTold
  <2> QED
    BY <2>1
<1>5. CASE Wake(c)
  <2>1. Speaks(c, "nothing")
    BY <1>1, <1>5 DEF Wake, MayRun, Speaks, EndsTold
  <2> QED
    BY <2>1
<1>6. CASE LeaveLoop(c)
  <2>1. Speaks(c, "nothing")
    BY <1>1, <1>6 DEF LeaveLoop, MayRun, Speaks, EndsTold
  <2> QED
    BY <2>1
<1>7. CASE ReportEnd(c)
  <2> DEFINE ended == IF WasOpened(k) \/ k.connError THEN Told(k) ELSE k.ended
             what == IF WasOpened(k) THEN "closed"
                     ELSE IF k.connError THEN "unableToConnect" ELSE "nothing"
  <2>1. /\ k.thread = "closed"
        /\ conns' = [conns EXCEPT ![c].thread = "ended", ![c].established = FALSE,
                                 ![c].rejected = FALSE, ![c].ended = ended]
    BY <1>7 DEF ReportEnd
  <2>2. IF what = "nothing" THEN mainQueue' = mainQueue
        ELSE mainQueue' = Append(mainQueue, Block(what, c))
    BY <1>1, <1>7 DEF ReportEnd, Tell, Dispatch
  <2>3. /\ what \in {"closed", "unableToConnect", "nothing"}
        /\ ended \in {0, 1}
        /\ what \in EndsTold => ended = 1
        /\ what = "closed" => k.connError
        /\ ended # k.ended => ~k.reconnect
    BY <1>1, <2>1 DEF WasOpened, Told, EndsTold
  <2> HIDE DEF ended, what
  <2>4. Speaks(c, what)
    BY <1>1, <2>1, <2>2, <2>3 DEF Speaks
  <2> QED
    BY <2>3, <2>4 DEF Whats, EndsTold
<1>8. CASE LoopOrExit(c)
  <2>1. Speaks(c, "nothing")
    BY <1>1, <1>8 DEF LoopOrExit, Speaks, EndsTold
  <2> QED
    BY <2>1
<1>9. CASE SendMessageHelper(c)
  <2>1. Speaks(c, "nothing")
    BY <1>1, <1>9 DEF SendMessageHelper, Speaks, EndsTold
  <2> QED
    BY <2>1
<1> QED
  BY <1>2, <1>3, <1>4, <1>5, <1>6, <1>7, <1>8, <1>9 DEF ThreadStep

LEMMA CurrentOfStreamEvent ==
    ASSUME IInv, NEW c \in Conns, c = connection, StreamEvent(c)
    PROVE  \E what \in Whats \cup {"nothing"} : Speaks(c, what)
<1> DEFINE k == conns[c]
<1>1. /\ k \in Conn /\ conns \in [Conns -> Conn] /\ k.delegate # "none"
      /\ Current(k, Asking) /\ k.ended \in {0, 1}
      /\ k.established => k.thread \in Running
  BY ConnAssumption
  DEF IInv, Typed, CurrentOK, Owned, AtMostOneEnd, ThreadsOwned, Conn
<1> USE DEF At, Event, Current, Conn
<1>2. CASE ReadBlocks(c)
  <2>1. Speaks(c, "nothing")
    BY <1>1, <1>2 DEF ReadBlocks, Speaks, EndsTold
  <2> QED
    BY <2>1
<1>3. CASE ReadReturns(c)
  <2>1. Speaks(c, "nothing")
    BY <1>1, <1>3 DEF ReadReturns, Speaks, EndsTold
  <2> QED
    BY <2>1
<1>4. CASE OpenCompleted(c)
  <2>1. Speaks(c, "nothing")
    BY <1>1, <1>4 DEF OpenCompleted, Speaks, EndsTold
  <2> QED
    BY <2>1
<1>5. CASE SpaceAvailable(c)
  <2>1. Speaks(c, "opened")
    BY <1>1, <1>5 DEF SpaceAvailable, Tell, Dispatch, Speaks, EndsTold
  <2> QED
    BY <2>1 DEF Whats
<1>6. CASE StreamError(c)
  <2> DEFINE failed == Failed(k)
  <2>1. /\ k.thread = "wait" /\ k.streams # "dead" /\ mainQueue' = mainQueue
        /\ conns' = [conns EXCEPT ![c] = failed]
    BY <1>6 DEF StreamError
  <2>2. failed = [k EXCEPT !.keepRunning = FALSE, !.thread = "check",
                           !.streams = "dead", !.connError = TRUE]
    BY <1>1, <2>1, FailedIs
  <2> HIDE DEF failed
  <2>3. Speaks(c, "nothing")
    BY <1>1, <2>1, <2>2 DEF Speaks, EndsTold
  <2> QED
    BY <2>3
<1>7. CASE TrustFailure(c)
  <2>1. Speaks(c, "trustFailure")
    BY <1>1, <1>7 DEF TrustFailure, Tell, Dispatch, Speaks, EndsTold
  <2> QED
    BY <2>1 DEF Whats
<1>8. CASE ReceiveReject(c)
  <2>1. k.thread = "wait" /\ k.streams = "open" /\ k.peer = "asked"
    BY <1>8 DEF ReceiveReject, Receive
  <2>2. Told(k) = 1
    BY <1>1, <2>1 DEF Told
  <2>3. conns' = [conns EXCEPT ![c] =
                     [k EXCEPT !.keepRunning = FALSE, !.thread = "check",
                               !.rejected = TRUE, !.peer = "done", !.ended = 1]]
    <3>1. conns' = [conns EXCEPT ![c] =
                       [Stop(k) EXCEPT !.thread = "check", !.rejected = TRUE,
                                       !.peer = "done", !.ended = Told(k)]]
      BY <1>8 DEF ReceiveReject
    <3>2. k \in Conn /\ k.thread = "wait"
      BY <1>1, <2>1
    <3> QED
      BY ONLY <2>2, <3>1, <3>2, RejectedIs
  <2>4. mainQueue' = Append(mainQueue, Block("rejected", c))
    BY <1>1, <1>8 DEF ReceiveReject, Tell, Dispatch
  <2>5. Speaks(c, "rejected")
    BY <1>1, <2>1, <2>3, <2>4 DEF Speaks
  <2> QED
    BY <2>5 DEF Whats, EndsTold
<1>9. CASE ReceiveServerSync(c)
  <2>1. Speaks(c, "serverSync")
    BY <1>1, <1>9 DEF ReceiveServerSync, Receive, Dispatch, Speaks, EndsTold
  <2> QED
    BY <2>1 DEF Whats
<1>10. CASE ReceiveUserRemove(c)
  <2>1. Speaks(c, "kicked")
    BY <1>1, <1>10 DEF ReceiveUserRemove, Receive, Dispatch, Speaks, EndsTold
  <2> QED
    BY <2>1 DEF Whats
<1> QED
  BY <1>2, <1>3, <1>4, <1>5, <1>6, <1>7, <1>8, <1>9, <1>10 DEF StreamEvent

--------------------------------------------------------------------------------
(* What follows for the invariant. *)

LEMMA BlocksTyped ==
    ASSUME IInv
    PROVE  /\ mainQueue \in Seq(Blocks)
           /\ Len(mainQueue) \in Nat /\ DOMAIN mainQueue = 1 .. Len(mainQueue)
           /\ \A i \in DOMAIN mainQueue : mainQueue[i] \in Blocks
<1>1. mainQueue \in Seq(Blocks)
  BY DEF IInv, Typed, Blocks
<1> QED
  BY <1>1, ElementOfSeq

LEMMA Appended ==
    ASSUME NEW b \in Blocks, IInv, mainQueue' = Append(mainQueue, b)
    PROVE  /\ mainQueue' \in Seq(Blocks)
           /\ DOMAIN mainQueue' = 1 .. Len(mainQueue) + 1
           /\ DOMAIN mainQueue = 1 .. Len(mainQueue) /\ Len(mainQueue) \in Nat
           /\ \A i \in 1 .. Len(mainQueue) : mainQueue'[i] = mainQueue[i]
           /\ mainQueue'[Len(mainQueue) + 1] = b
<1>1. mainQueue \in Seq(Blocks)
  BY DEF IInv, Typed, Blocks
<1> QED
  BY <1>1, AppendProperties

threadsOthers == <<made, connection, credentials, views, rootVars, waiting, reconnects>>

(* A step of any thread, the current connection's or another.               *)
Turn(c) ==
    /\ Shape(c) /\ Voice(c)
    /\ c = connection => \E what \in Whats \cup {"nothing"} : Speaks(c, what)
    /\ UNCHANGED threadsOthers

LEMMA TurnTypes ==
    ASSUME IInv, NEW c \in Conns, Turn(c)
    PROVE  /\ Typed' /\ Unmade' /\ Owned' /\ Screen'
<1> USE DEF IInv, Turn, threadsOthers, views, rootVars
<1>1. mainQueue \in Seq(Blocks) /\ Typed
  BY DEF Typed, Blocks
<1>2. audioConn' \in Conns \cup {None}
  BY <1>1 DEF Voice, Typed
<1>3. mainQueue' \in Seq(Blocks)
  BY <1>1, Appended DEF Shape
<1>4. Typed'
  BY <1>1, <1>2, <1>3 DEF Typed, Shape, Blocks
<1>5. c <= made
  <2>1. c > made => conns[c] = NewConn
    BY DEF Unmade
  <2>2. c \in Nat /\ made \in Nat
    BY <1>1, ConnAssumption DEF Typed, Conns
  <2> QED
    BY <2>1, <2>2 DEF NewConn, Shape
<1>6. \A i \in DOMAIN mainQueue' : mainQueue'[i].conn <= made
  <2>1. CASE mainQueue' = mainQueue
    BY <2>1 DEF Unmade
  <2>2. CASE \E b \in Blocks : b.conn = c /\ mainQueue' = Append(mainQueue, b)
    <3> PICK b \in Blocks : b.conn = c /\ mainQueue' = Append(mainQueue, b)
      BY <2>2
    <3> QED
      BY <1>5, Appended DEF Unmade
  <2> QED
    BY <2>1, <2>2 DEF Shape
<1>7. Unmade'
  <2> SUFFICES ASSUME NEW x \in Conns
               PROVE  IF x > made THEN conns'[x] = NewConn ELSE conns'[x].thread # "new"
    BY <1>6 DEF Unmade
  <2> QED
    BY <1>5, <1>1 DEF Unmade, Shape, Typed, Conns
<1>8. Owned'
  BY DEF Owned, Shape
<1>9. Screen'
  <2>1. connection \in Conns \cup {None}
    BY <1>1, ConnAssumption DEF Typed, Conns
  <2>2. connection # None => (Controlled' <=> Controlled)
    BY <2>1 DEF Controlled, Shape
  <2> QED
    BY <2>2, Zenon DEF Screen
<1> QED
  BY <1>4, <1>7, <1>8, <1>9

LEMMA TurnThreads ==
    ASSUME IInv, NEW c \in Conns, Turn(c)
    PROVE  ThreadsOwned' /\ AtMostOneEnd' /\ AudioFollowsConnection'
<1> USE DEF IInv, Turn, threadsOthers, views, rootVars
<1>1. c \in {connection, waiting} \/ conns[c].orphan
  BY DEF ThreadsOwned, Shape
<1>2. ThreadsOwned'
  <2>1. waiting \in Conns \cup {None}
    BY ConnAssumption DEF Typed, Conns
  <2> QED
    BY <1>1, <2>1 DEF ThreadsOwned, Shape, Voice
<1>3. AtMostOneEnd'
  <2>1. conns'[c].ended <= 1
    <3>1. CASE c = connection
      BY <3>1 DEF Speaks
    <3>2. CASE c # connection
      BY <3>2 DEF Owned, Shape, AtMostOneEnd
    <3> QED
      BY <3>1, <3>2
  <2> QED
    BY <2>1 DEF AtMostOneEnd, Shape
<1>4. AudioFollowsConnection'
  <2> SUFFICES ASSUME \A x \in Conns : ~conns'[x].orphan
               PROVE  \A x \in Conns : conns'[x].established <=> audioConn' = x
    BY DEF AudioFollowsConnection, Stoppable, Typed
  <2>1. \A x \in Conns : ~conns[x].orphan
    BY DEF Shape
  <2>2. \A x \in Conns : conns[x].established <=> audioConn = x
    BY <2>1 DEF AudioFollowsConnection, Stoppable
  <2>3. \A x \in Conns \ {c} : ~conns'[x].established
    BY <1>1, <2>1, ConnAssumption DEF ThreadsOwned, Shape, Running
  <2> QED
    BY <2>2, <2>3, ConnAssumption DEF Shape, Voice, Typed
<1> QED
  BY <1>2, <1>3, <1>4

(* A connection that is not the current one says nothing of that one. *)
LEMMA TurnOfOther ==
    ASSUME IInv, NEW c \in Conns, Turn(c), c # connection
    PROVE  CurrentOK' /\ ToldTrue' /\ AskedOnce'
<1> USE DEF IInv, Turn, threadsOthers, views
<1>1. /\ connection \in Conns \cup {None} /\ connection' = connection
      /\ trustAlert' = trustAlert /\ certView' = certView
      /\ connection # None => conns'[connection] = conns[connection]
  BY ConnAssumption DEF Typed, Conns, Shape
<1>2. \A i \in DOMAIN mainQueue : i \in DOMAIN mainQueue' /\ mainQueue'[i] = mainQueue[i]
  BY Appended DEF Shape
<1>3. \A i \in DOMAIN mainQueue' :
          mainQueue'[i].conn = connection => i \in DOMAIN mainQueue
  <2>1. CASE mainQueue' = mainQueue
    BY <2>1
  <2>2. CASE \E b \in Blocks : b.conn = c /\ mainQueue' = Append(mainQueue, b)
    <3> PICK b \in Blocks : b.conn = c /\ mainQueue' = Append(mainQueue, b)
      BY <2>2
    <3> QED
      BY Appended
  <2> QED
    BY <2>1, <2>2 DEF Shape
<1> USE DEF OfCurrent
<1>4. Asking' <=> Asking
  BY <1>1, <1>2, <1>3 DEF Asking
<1>5. CurrentOK'
  BY <1>1, <1>4 DEF CurrentOK, Current
<1>6. connection # None => (Controlled' <=> Controlled)
  BY <1>1 DEF Controlled
<1>7. ToldTrue'
  <2>1. CASE connection = None
    <3>1. \A i \in DOMAIN mainQueue' : mainQueue'[i].conn # connection
      BY <1>2, <1>3, <2>1, BlocksTyped, ConnAssumption DEF Blocks
    <3> QED
      BY <1>1, <2>1, <3>1 DEF ToldTrue
  <2>2. CASE connection # None
    <3>1. \A i \in DOMAIN mainQueue' :
              /\ OfCurrent(i, EndsTold)' => conns'[connection].ended = 1
              /\ OfCurrent(i, {"closed"})' => mainQueue'[i].error
              /\ OfCurrent(i, {"serverSync"})' => conns'[connection].peer # "idle"
      BY <1>1, <1>2, <1>3, <2>2 DEF ToldTrue
    <3>2. ASSUME NEW i \in DOMAIN mainQueue', OfCurrent(i, {"kicked"})', Controlled
          PROVE  \E j \in 1 .. i - 1 : OfCurrent(j, {"serverSync"})'
      <4>1. i \in DOMAIN mainQueue /\ OfCurrent(i, {"kicked"})
        BY <1>1, <1>2, <1>3, <3>2
      <4>2. PICK j \in 1 .. i - 1 : OfCurrent(j, {"serverSync"})
        BY <4>1, <3>2 DEF ToldTrue
      <4>3. j \in DOMAIN mainQueue
        BY <4>1, <4>2 DEF Typed
      <4> QED
        BY <1>1, <1>2, <4>2, <4>3
    <3>3. Controlled /\ conns'[connection].peer = "joined" =>
              \E j \in DOMAIN mainQueue' : OfCurrent(j, {"serverSync"})'
      BY <1>1, <1>2, <2>2 DEF ToldTrue
    <3> QED
      BY <1>1, <1>6, <2>2, <3>1, <3>2, <3>3 DEF ToldTrue
  <2> QED
    BY <2>1, <2>2
<1>8. AskedOnce'
  BY <1>1, <1>2, <1>3 DEF AskedOnce
<1> QED
  BY <1>5, <1>7, <1>8

LEMMA TurnOfCurrent ==
    ASSUME IInv, NEW c \in Conns, Turn(c), c = connection
    PROVE  CurrentOK' /\ ToldTrue' /\ AskedOnce'
<1> USE DEF IInv, Turn, threadsOthers, views, OfCurrent
<1>1. PICK what \in Whats \cup {"nothing"} : Speaks(c, what)
  OBVIOUS
<1>2. /\ connection' = c /\ c # None /\ conns' \in [Conns -> Conn]
      /\ trustAlert' = trustAlert /\ certView' = certView
      /\ Controlled' <=> Controlled
  BY ConnAssumption DEF Controlled, Shape
<1>3. PICK n \in Nat :
      /\ n = Len(mainQueue) /\ DOMAIN mainQueue = 1 .. n
      /\ \A i \in 1 .. n : i \in DOMAIN mainQueue' /\ mainQueue'[i] = mainQueue[i]
      /\ \/ what = "nothing" /\ DOMAIN mainQueue' = 1 .. n
         \/ /\ what \in Whats /\ DOMAIN mainQueue' = 1 .. n + 1
            /\ mainQueue'[n + 1].what = what /\ mainQueue'[n + 1].conn = c
            /\ mainQueue'[n + 1].error = conns[c].connError
  <2>1. CASE what = "nothing"
    BY <1>1, <2>1, BlocksTyped DEF Speaks
  <2>2. CASE what # "nothing"
    <3> DEFINE b == Block(what, c)
    <3>1. /\ b \in Blocks /\ what \in Whats /\ mainQueue' = Append(mainQueue, b)
          /\ b.what = what /\ b.conn = c /\ b.error = conns[c].connError
      BY <1>1, <2>2 DEF Speaks, Block, Blocks, Typed, Conn
    <3> HIDE DEF b
    <3> QED
      BY <3>1, Appended
  <2> QED
    BY <2>1, <2>2
<1>4. Asking' <=> Asking \/ what = "trustFailure"
  BY <1>2, <1>3 DEF Asking, Whats
<1>5. CurrentOK'
  <2>1. Current(conns'[c], Asking')
    <3>1. Current(conns'[c], Asking \/ what = "trustFailure")
      BY <1>1 DEF Speaks
    <3> QED
      BY <1>4, <3>1 DEF Current
  <2> QED
    BY <1>2, <2>1 DEF CurrentOK, Current
<1>6. ToldTrue'
  <2>1. \A i \in DOMAIN mainQueue' :
            /\ OfCurrent(i, EndsTold)' => conns'[c].ended = 1
            /\ OfCurrent(i, {"closed"})' => mainQueue'[i].error
            /\ OfCurrent(i, {"serverSync"})' => conns'[c].peer # "idle"
    BY <1>1, <1>2, <1>3 DEF ToldTrue, Speaks
  <2>2. Controlled /\ conns[c].peer = "joined" =>
            \E j \in 1 .. n : OfCurrent(j, {"serverSync"})
    BY <1>2, <1>3 DEF ToldTrue
  <2>3. ASSUME NEW i \in DOMAIN mainQueue', OfCurrent(i, {"kicked"})', Controlled
        PROVE  \E j \in 1 .. i - 1 : OfCurrent(j, {"serverSync"})'
    <3>1. CASE i \in 1 .. n
      <4>1. PICK j \in 1 .. i - 1 : OfCurrent(j, {"serverSync"})
        BY <1>2, <1>3, <2>3, <3>1 DEF ToldTrue
      <4>2. j \in 1 .. n
        BY <1>3, <3>1, <4>1
      <4> QED
        BY <1>2, <1>3, <4>1, <4>2
    <3>2. CASE i \notin 1 .. n
      <4>1. i = n + 1 /\ what = "kicked"
        BY <1>3, <2>3, <3>2
      <4>2. PICK j \in 1 .. n : OfCurrent(j, {"serverSync"})
        BY <1>1, <2>2, <2>3, <4>1 DEF Speaks
      <4> QED
        BY <1>2, <1>3, <4>1, <4>2
    <3> QED
      BY <3>1, <3>2
  <2>4. Controlled /\ conns'[c].peer = "joined" =>
            \E j \in DOMAIN mainQueue' : OfCurrent(j, {"serverSync"})'
    <3>1. CASE what = "serverSync"
      <4>1. n + 1 \in DOMAIN mainQueue' /\ OfCurrent(n + 1, {"serverSync"})'
        BY <1>2, <1>3, <3>1
      <4> QED
        BY <4>1
    <3>2. CASE what # "serverSync"
      BY <1>1, <1>2, <1>3, <2>2, <3>2 DEF Speaks
    <3> QED
      BY <3>1, <3>2
  <2> QED
    BY <1>2, <2>1, <2>3, <2>4 DEF ToldTrue
<1>7. AskedOnce'
  <2>1. CASE what = "trustFailure"
    <3>1. ~trustAlert /\ ~certView
          /\ \A i \in 1 .. n : ~OfCurrent(i, {"trustFailure"})
      BY <1>1, <1>3, <2>1 DEF Speaks, Asking
    <3>2. \A i \in DOMAIN mainQueue' : OfCurrent(i, {"trustFailure"})' => i = n + 1
      BY <1>2, <1>3, <3>1
    <3>3. ~trustAlert' /\ ~certView'
      BY <1>2, <3>1
    <3>4. ASSUME NEW i \in DOMAIN mainQueue', OfCurrent(i, {"trustFailure"})'
          PROVE  \A j \in DOMAIN mainQueue' : OfCurrent(j, {"trustFailure"})' => j = i
      BY ONLY <3>2, <3>4
    <3> QED
      BY ONLY <3>3, <3>4 DEF AskedOnce
  <2>2. CASE what # "trustFailure"
    <3>1. \A i \in DOMAIN mainQueue' : OfCurrent(i, {"trustFailure"})' =>
             i \in DOMAIN mainQueue /\ OfCurrent(i, {"trustFailure"})
      BY <1>2, <1>3, <2>2
    <3>2. ~trustAlert /\ ~certView => ~trustAlert' /\ ~certView'
      BY <1>2
    <3>3. AskedOnce
      OBVIOUS
    <3> HIDE DEF OfCurrent
    <3> QED
      BY ONLY <3>1, <3>2, <3>3 DEF AskedOnce
  <2> QED
    BY <2>1, <2>2
<1> QED
  BY <1>5, <1>6, <1>7

LEMMA KeptByThreads ==
    IInv /\ Threads /\ UNCHANGED threadsOthers => IInv'
<1> SUFFICES ASSUME IInv, NEW c \in Conns, ThreadStep(c) \/ StreamEvent(c),
                    UNCHANGED threadsOthers
             PROVE  IInv'
  BY DEF Threads
<1>1. Turn(c)
  BY ShapeOfThreadStep, VoiceOfThreadStep, CurrentOfThreadStep,
     ShapeOfStreamEvent, VoiceOfStreamEvent, CurrentOfStreamEvent
  DEF Turn
<1> QED
  BY <1>1, TurnTypes, TurnThreads, TurnOfOther, TurnOfCurrent DEF IInv

--------------------------------------------------------------------------------
(* The steps of the main thread. *)

(* The oldest block is taken from the queue. *)
Pops == mainQueue # <<>> /\ mainQueue' = Tail(mainQueue)

LEMMA Popped ==
    ASSUME IInv, Pops
    PROVE  /\ mainQueue' \in Seq(Blocks) /\ 1 \in DOMAIN mainQueue
           /\ Head(mainQueue) = mainQueue[1] /\ Head(mainQueue) \in Blocks
           /\ Head(mainQueue).conn \in Conns
           /\ \A i \in DOMAIN mainQueue' :
                 i \in Nat \ {0} /\ i + 1 \in DOMAIN mainQueue
                 /\ mainQueue'[i] = mainQueue[i + 1]
           /\ \A i \in DOMAIN mainQueue :
                 i = 1 \/ (i - 1 \in DOMAIN mainQueue' /\ mainQueue'[i - 1] = mainQueue[i])
<1>1. /\ mainQueue \in Seq(Blocks) /\ Len(mainQueue) \in Nat
      /\ DOMAIN mainQueue = 1 .. Len(mainQueue) /\ Len(mainQueue) # 0
  BY BlocksTyped, EmptySeq DEF Pops
<1>2. /\ Head(mainQueue) \in Blocks /\ mainQueue' \in Seq(Blocks)
      /\ Len(mainQueue') = Len(mainQueue) - 1 /\ Head(mainQueue) = mainQueue[1]
      /\ DOMAIN mainQueue' = 1 .. Len(mainQueue) - 1
      /\ \A i \in 1 .. Len(mainQueue) - 1 : mainQueue'[i] = mainQueue[i + 1]
  BY <1>1, HeadTailProperties DEF Pops
<1> QED
  BY <1>1, <1>2 DEF Blocks

LEMMA NoPop ==
    ASSUME IInv, mainQueue' = mainQueue
    PROVE  ~Pops
<1> SUFFICES ASSUME Pops PROVE FALSE
  OBVIOUS
<1>1. /\ mainQueue \in Seq(Blocks) /\ mainQueue # <<>>
      /\ Tail(mainQueue) = mainQueue
  BY BlocksTyped DEF Pops
<1>2. Len(mainQueue) \in Nat /\ Len(mainQueue) = Len(mainQueue) - 1
  BY <1>1, HeadTailProperties, LenProperties
<1> QED
  BY <1>2

(* What a step of the main thread leaves alone, whatever step it is but the *)
(* start of a connection.                                                   *)
MainShape ==
    /\ conns' \in [Conns -> Conn]
    /\ \A x \in Conns :
          /\ conns'[x].thread = conns[x].thread
          /\ conns'[x].established = conns[x].established
          /\ conns'[x].ended = conns[x].ended
          /\ conns[x].orphan => conns'[x].orphan
          /\ x > made => conns'[x] = conns[x]
    /\ made' = made /\ audioConn' = audioConn
    /\ mainQueue' = mainQueue \/ Pops
    /\ {connection', root', waiting'} \subseteq 1 .. made \cup {None}
    /\ credentials' \in BOOLEAN /\ leaving' \in BOOLEAN
    /\ connectingView' \in BOOLEAN /\ trustAlert' \in BOOLEAN
    /\ certView' \in BOOLEAN /\ rejectAlert' \in BOOLEAN

(* When there is a connection after it, it is the one there was before it.  *)
Holds ==
    connection' # None =>
        /\ connection' = connection
        /\ conns'[connection].peer = conns[connection].peer
        /\ Current(conns'[connection], Asking')
        /\ Controlled' => Controlled
        /\ AskedOnce'
        /\ Controlled' /\ mainQueue' # mainQueue => ~OfCurrent(1, {"serverSync"})

LEMMA MainTypes ==
    ASSUME IInv, MainShape
    PROVE  Typed' /\ Unmade' /\ AtMostOneEnd' /\ AudioFollowsConnection'
<1> USE DEF IInv, MainShape
<1>1. Typed'
  <2>1. mainQueue' \in Seq(Blocks)
    BY BlocksTyped, Popped
  <2> QED
    BY <2>1 DEF Typed, Blocks
<1>2. Unmade'
  <2>1. \A i \in DOMAIN mainQueue' : mainQueue'[i].conn <= made
    BY Popped DEF Unmade
  <2> QED
    BY <2>1 DEF Unmade
<1>3. AtMostOneEnd'
  BY DEF AtMostOneEnd
<1>4. AudioFollowsConnection'
  BY DEF AudioFollowsConnection, Stoppable
<1> QED
  BY <1>1, <1>2, <1>3, <1>4

LEMMA MainKeeps ==
    ASSUME IInv, MainShape, Holds, Owned', Screen', ThreadsOwned'
    PROVE  IInv'
<1> USE DEF IInv, OfCurrent
<1>1. /\ connection \in Conns \cup {None} /\ connection' \in Conns \cup {None}
      /\ connection' # None => conns'[connection].ended = conns[connection].ended
  BY ConnAssumption DEF Typed, Conns, MainShape, Holds
<1>2. CurrentOK'
  BY DEF CurrentOK, Holds, Current
<1>3. CASE connection' = None
  <2>1. \A i \in DOMAIN mainQueue' : mainQueue'[i].conn # None
    BY MainTypes, BlocksTyped, Popped, ConnAssumption DEF MainShape, Blocks
  <2>2. ToldTrue' /\ AskedOnce'
    BY <1>3, <2>1 DEF ToldTrue, AskedOnce
  <2> QED
    BY <1>2, <2>2, MainTypes
<1>4. CASE connection' # None /\ mainQueue' = mainQueue
  <2>1. ToldTrue'
    BY <1>1, <1>4 DEF ToldTrue, Holds
  <2> QED
    BY <1>2, <1>4, <2>1, MainTypes DEF Holds
<1>5. CASE connection' # None /\ mainQueue' # mainQueue
  <2>1. Pops
    BY <1>5 DEF MainShape
  <2>2. \A i \in DOMAIN mainQueue' :
            /\ OfCurrent(i, EndsTold)' => conns'[connection].ended = 1
            /\ OfCurrent(i, {"closed"})' => mainQueue'[i].error
            /\ OfCurrent(i, {"serverSync"})' => conns'[connection].peer # "idle"
    BY <1>1, <1>5, <2>1, Popped DEF ToldTrue, Holds
  <2>3. ASSUME NEW i \in DOMAIN mainQueue', OfCurrent(i, {"kicked"})', Controlled'
        PROVE  \E j \in 1 .. i - 1 : OfCurrent(j, {"serverSync"})'
    <3>1. i + 1 \in DOMAIN mainQueue /\ OfCurrent(i + 1, {"kicked"}) /\ i \in Nat
      BY <1>5, <2>1, <2>3, Popped DEF Holds
    <3>2. PICK j \in 1 .. i : OfCurrent(j, {"serverSync"})
      BY <1>5, <2>3, <3>1 DEF Holds, ToldTrue
    <3>3. j # 1 /\ j \in DOMAIN mainQueue
      BY <1>5, <2>3, <3>1, <3>2, BlocksTyped DEF Holds
    <3>4. j - 1 \in 1 .. i - 1 /\ mainQueue'[j - 1] = mainQueue[j]
      BY <2>1, <3>1, <3>2, <3>3, Popped
    <3> QED
      BY <1>5, <3>2, <3>4 DEF Holds
  <2>4. Controlled' /\ conns'[connection].peer = "joined" =>
            \E j \in DOMAIN mainQueue' : OfCurrent(j, {"serverSync"})'
    BY <1>5, <2>1, Popped DEF Holds, ToldTrue
  <2>5. ToldTrue'
    BY <1>5, <2>2, <2>3, <2>4 DEF ToldTrue, Holds
  <2> QED
    BY <1>2, <1>5, <2>5, MainTypes DEF Holds
<1> QED
  BY <1>3, <1>4, <1>5

(* A step that has no effect on the connections. *)
LEMMA ConnsUntouched ==
    ASSUME IInv, conns' = conns, connection' = connection, waiting' = waiting
    PROVE  ThreadsOwned'
BY DEF IInv, ThreadsOwned

(* The owner lets go of the connection, or has none. *)
LEMMA TornDown ==
    ASSUME IInv, MainFree, Teardown, root' = root
    PROVE  /\ conns' \in [Conns -> Conn]
           /\ \A x \in Conns :
                 /\ conns'[x].thread = conns[x].thread
                 /\ conns'[x].established = conns[x].established
                 /\ conns'[x].ended = conns[x].ended
                 /\ conns[x].orphan => conns'[x].orphan
                 /\ x > made => conns'[x] = conns[x]
           /\ connection' = None /\ waiting' \in 1 .. made \cup {None}
           /\ Owned' /\ ThreadsOwned' /\ Holds
<1> USE DEF IInv, MainFree
<1>1. CASE connection = None
  <2>1. UNCHANGED <<conns, connection, waiting>>
    BY <1>1 DEF Teardown
  <2>2. Owned'
    BY <2>1 DEF Owned
  <2> QED
    BY <1>1, <2>1, <2>2, ConnsUntouched DEF Typed, Holds
<1>2. CASE connection # None
  <2> DEFINE k == conns[connection]
             gone == Disowned(k)
  <2>1. /\ connection \in Conns /\ connection \in 1 .. made /\ connection # None
        /\ k \in Conn /\ k.thread # "new" /\ made \in Nat
    BY <1>2, ConnAssumption DEF Typed, Conns, Unmade
  <2>2. /\ gone \in Conn /\ gone.thread = k.thread /\ gone.ended = k.ended
        /\ gone.established = k.established /\ gone.delegate = "none"
        /\ ~gone.modelDelegate /\ (gone.msgHandler <=> root = connection)
        /\ k.orphan => gone.orphan
        /\ k.thread = "ready" => gone.orphan
    <3> DEFINE stopped == Stop(k)
               handled == root = connection
    <3>1. /\ stopped \in Conn /\ stopped.thread = k.thread /\ stopped.ended = k.ended
          /\ stopped.established = k.established
          /\ k.orphan => stopped.orphan
          /\ k.thread = "ready" => stopped.orphan
      BY <2>1 DEF Stop, IsExecuting, Conn
    <3>2. gone = [stopped EXCEPT !.delegate = "none", !.modelDelegate = FALSE,
                                 !.msgHandler = handled]
      BY DEF Disowned
    <3>3. handled \in BOOLEAN
      OBVIOUS
    <3> HIDE DEF stopped, handled
    <3>4. /\ gone \in Conn /\ gone.thread = k.thread /\ gone.ended = k.ended
          /\ gone.established = k.established /\ gone.delegate = "none"
          /\ gone.modelDelegate = FALSE /\ gone.msgHandler = handled
          /\ gone.orphan = stopped.orphan
      BY <3>1, <3>2, <3>3 DEF Conn
    <3> QED
      BY <3>1, <3>4 DEF handled
  <2>3. /\ conns' = [conns EXCEPT ![connection] = gone] /\ connection' = None
        /\ waiting' = IF IsExecuting(k) THEN connection ELSE None
    BY <1>2 DEF Teardown, Awaited
  <2> HIDE DEF gone
  <2>4. /\ conns' \in [Conns -> Conn]
        /\ \A x \in Conns : conns'[x] = IF x = connection THEN gone ELSE conns[x]
    BY <2>1, <2>2, <2>3 DEF Typed
  <2>5. Owned'
    BY <2>1, <2>2, <2>3, <2>4, ConnAssumption DEF Owned
  <2>6. ThreadsOwned'
    BY <2>1, <2>2, <2>3, <2>4, ConnAssumption DEF ThreadsOwned, IsExecuting
  <2> QED
    BY <2>1, <2>2, <2>3, <2>4, <2>5, <2>6 DEF Holds
<1> QED
  BY <1>1, <1>2

(* The connection is kept, and what its owner has been asked as well.       *)
LEMMA HoldsOn ==
    ASSUME IInv, connection' = connection, mainQueue' = mainQueue \/ Pops,
           UNCHANGED <<trustAlert, certView>>,
           connection # None =>
               /\ conns'[connection].peer = conns[connection].peer
               /\ Current(conns'[connection], Asking)
               /\ Controlled' => Controlled
               /\ Controlled' /\ Pops => ~OfCurrent(1, {"serverSync"})
    PROVE  Holds
<1> USE DEF OfCurrent
<1>1. Asking' => Asking
  BY Popped DEF Asking
<1>2. AskedOnce'
  <2>1. AskedOnce
    BY DEF IInv
  <2>2. CASE mainQueue' = mainQueue
    BY <2>1, <2>2 DEF AskedOnce
  <2>3. CASE Pops
    <3>1. ASSUME NEW i \in DOMAIN mainQueue', OfCurrent(i, {"trustFailure"})'
          PROVE  /\ ~trustAlert /\ ~certView
                 /\ \A j \in DOMAIN mainQueue' : OfCurrent(j, {"trustFailure"})' => j = i
      <4>1. /\ i + 1 \in DOMAIN mainQueue /\ OfCurrent(i + 1, {"trustFailure"})
        BY <2>3, <3>1, Popped
      <4>2. \A j \in DOMAIN mainQueue' : OfCurrent(j, {"trustFailure"})' =>
                j \in Nat /\ j + 1 \in DOMAIN mainQueue
                /\ OfCurrent(j + 1, {"trustFailure"})
        BY <2>3, Popped
      <4>3. \A j \in DOMAIN mainQueue' : OfCurrent(j, {"trustFailure"})' => j + 1 = i + 1
        BY <2>1, <4>1, <4>2 DEF AskedOnce
      <4> QED
        BY <2>1, <2>3, <4>1, <4>2, <4>3, <3>1, Popped DEF AskedOnce
    <3> QED
      BY <3>1 DEF AskedOnce
  <2> QED
    BY <2>2, <2>3
<1>3. connection # None => Current(conns'[connection], Asking')
  BY <1>1 DEF Current
<1> QED
  BY <1>2, <1>3 DEF Holds

(* The connection is kept, and its owner has been asked by nothing but what *)
(* is on the screen.                                                        *)
LEMMA HoldsAsked ==
    ASSUME IInv, connection' = connection, mainQueue' = mainQueue \/ Pops,
           \A i \in DOMAIN mainQueue' : ~OfCurrent(i, {"trustFailure"})',
           conns'[connection].peer = conns[connection].peer,
           Current(conns'[connection], trustAlert' \/ certView'),
           Controlled' => Controlled,
           Controlled' /\ Pops => ~OfCurrent(1, {"serverSync"})
    PROVE  Holds
<1>1. Asking' <=> trustAlert' \/ certView'
  BY DEF Asking
<1>2. AskedOnce'
  BY DEF AskedOnce
<1>3. Current(conns'[connection], Asking')
  BY <1>1 DEF Current
<1> QED
  BY <1>2, <1>3 DEF Holds

LEMMA Reconnected ==
    ASSUME IInv, MainFree, connection # None, Asking,
           NEW ignore \in BOOLEAN, ReconnectIt(ignore),
           UNCHANGED <<connection, waiting, root>>
    PROVE  /\ conns' \in [Conns -> Conn] /\ connection \in Conns
           /\ \A x \in Conns :
                 /\ conns'[x].thread = conns[x].thread
                 /\ conns'[x].established = conns[x].established
                 /\ conns'[x].ended = conns[x].ended
                 /\ conns[x].orphan => conns'[x].orphan
                 /\ x > made => conns'[x] = conns[x]
           /\ Owned' /\ ThreadsOwned' /\ (Controlled' <=> Controlled)
           /\ conns'[connection].peer = conns[connection].peer
           /\ Current(conns'[connection], FALSE)
<1> USE DEF IInv
<1> DEFINE k == conns[connection]
           new == [Reconnect(k) EXCEPT !.ignoreSSL = k.ignoreSSL \/ ignore]
<1>1. /\ connection \in Conns /\ k \in Conn /\ ~(connection > made)
      /\ Current(k, TRUE)
  BY ConnAssumption DEF Typed, Conns, CurrentOK, Current
<1>2. new = [k EXCEPT !.reconnect = TRUE, !.ignoreSSL = k.ignoreSSL \/ ignore]
  <2> DEFINE tried == [k EXCEPT !.reconnect = TRUE]
  <2>1. Reconnect(k) = tried
    BY DEF Reconnect
  <2> QED
    BY <2>1
<1>3. conns' = [conns EXCEPT ![connection] = new]
  BY DEF ReconnectIt
<1> HIDE DEF new
<1>4. /\ new \in Conn /\ new.thread = k.thread /\ new.established = k.established
      /\ new.ended = k.ended /\ new.orphan = k.orphan /\ new.peer = k.peer
      /\ new.delegate = k.delegate /\ new.modelDelegate = k.modelDelegate
      /\ new.msgHandler = k.msgHandler
      /\ new.reconnect /\ new.connError = k.connError /\ new.rejected = k.rejected
      /\ new.keepRunning = k.keepRunning /\ new.streams = k.streams
  <2> DEFINE ignored == k.ignoreSSL \/ ignore
  <2>1. ignored \in BOOLEAN
    OBVIOUS
  <2> HIDE DEF ignored
  <2>2. new = [k EXCEPT !.reconnect = TRUE, !.ignoreSSL = ignored]
    BY <1>2 DEF ignored
  <2> QED
    BY <1>1, <2>1, <2>2 DEF Conn
<1>5. /\ conns' \in [Conns -> Conn]
      /\ \A x \in Conns : conns'[x] = IF x = connection THEN new ELSE conns[x]
  BY <1>1, <1>3, <1>4 DEF Typed
<1>6. Current(new, FALSE)
  BY <1>1, <1>4 DEF Current
<1>7. Owned'
  BY <1>4, <1>5 DEF Owned
<1>8. ThreadsOwned'
  BY <1>1, <1>4, <1>5 DEF ThreadsOwned, MainFree
<1>9. Controlled' <=> Controlled
  BY <1>1, <1>4, <1>5 DEF Controlled
<1> QED
  BY <1>1, <1>4, <1>5, <1>6, <1>7, <1>8, <1>9

LEMMA KeptByEstablish ==
    ASSUME IInv, MainFree, connection = None, root = None, Establish,
           credentials', connectingView', ~rejectAlert',
           credentials' \in BOOLEAN, connectingView' \in BOOLEAN,
           rejectAlert' \in BOOLEAN,
           UNCHANGED <<mainQueue, audioConn, trustAlert, certView, rootVars, waiting>>
    PROVE  IInv'
<1> USE DEF IInv, MainFree, rootVars
<1> DEFINE c == made + 1
           new == [Start(NewConn) EXCEPT !.delegate = "controller",
                                         !.msgHandler = TRUE, !.modelDelegate = TRUE]
<1>1. /\ c \in Conns /\ c # None /\ made \in Nat /\ c > made /\ conns[c] = NewConn
      /\ made' = c /\ made' \in 0 .. MaxConns /\ connection' = c
      /\ ~trustAlert /\ ~certView /\ ~leaving
  BY ConnAssumption DEF Typed, Conns, Establish, Unmade, Screen
<1>2. /\ new \in Conn /\ new.thread \in {"ready", "top"} /\ new.keepRunning
      /\ ~new.reconnect /\ new.streams = "none" /\ ~new.established /\ ~new.rejected
      /\ ~new.connError /\ new.delegate = "controller" /\ new.msgHandler
      /\ new.modelDelegate /\ new.peer = "idle" /\ new.ended = 0 /\ ~new.orphan
  <2> DEFINE place == IF "startLag" \in Faults THEN "ready" ELSE "top"
             k == NewConn
             started == [k EXCEPT !.keepRunning = TRUE, !.thread = place]
  <2>1. place \in {"ready", "top"}
    OBVIOUS
  <2>2. Start(k) = started
    BY DEF Start
  <2>3. /\ k \in Conn /\ ~k.reconnect /\ k.streams = "none" /\ ~k.established
        /\ ~k.rejected /\ ~k.connError /\ k.peer = "idle" /\ k.ended = 0 /\ ~k.orphan
    BY DEF NewConn, Conn, Places
  <2> HIDE DEF place, k
  <2>4. /\ started \in Conn /\ started.thread = place /\ started.keepRunning
        /\ ~started.reconnect /\ started.streams = "none" /\ ~started.established
        /\ ~started.rejected /\ ~started.connError /\ started.peer = "idle"
        /\ started.ended = 0 /\ ~started.orphan
    BY <2>1, <2>3 DEF Conn, Places
  <2>5. new = [started EXCEPT !.delegate = "controller", !.msgHandler = TRUE,
                              !.modelDelegate = TRUE]
    BY <2>2 DEF k
  <2> HIDE DEF started
  <2> QED
    BY <2>1, <2>4, <2>5 DEF Conn
<1>3. conns' = [conns EXCEPT ![c] = new]
  BY <1>1 DEF Establish
<1> HIDE DEF new
<1>4. /\ conns' \in [Conns -> Conn]
      /\ \A x \in Conns : conns'[x] = IF x = c THEN new ELSE conns[x]
  BY <1>1, <1>2, <1>3 DEF Typed
<1>5. \A i \in DOMAIN mainQueue : mainQueue'[i].conn # c /\ mainQueue'[i].conn <= made'
  <2>1. \A i \in DOMAIN mainQueue : mainQueue[i].conn \in Conns /\ mainQueue[i].conn <= made
    BY BlocksTyped DEF Unmade, Blocks
  <2> QED
    BY <1>1, <2>1 DEF Conns
<1> HIDE DEF c
<1>6. Typed'
  BY <1>1, <1>4 DEF Typed
<1>7. Unmade'
  <2>1. ASSUME NEW x \in Conns
        PROVE  IF x > made' THEN conns'[x] = NewConn ELSE conns'[x].thread # "new"
    BY <1>1, <1>2, <1>4 DEF Unmade, Conns, c
  <2> QED
    BY <1>5, <2>1 DEF Unmade
<1>8. Owned'
  BY <1>1, <1>2, <1>4, ConnAssumption DEF Owned
<1>9. Screen'
  <2>1. Controlled'
    BY <1>1, <1>2, <1>4 DEF Controlled
  <2> QED
    BY <1>1, <2>1 DEF Screen
<1>10. ThreadsOwned'
  BY <1>1, <1>2, <1>4 DEF ThreadsOwned
<1>11. CurrentOK' /\ ToldTrue' /\ AskedOnce'
  <2>1. \A i \in DOMAIN mainQueue' : mainQueue'[i].conn # connection'
    BY <1>1, <1>5
  <2>2. ~Asking'
    BY <1>1, <2>1 DEF Asking, OfCurrent
  <2>3. CurrentOK'
    BY <1>1, <1>2, <1>4, <2>2 DEF CurrentOK, Current
  <2>4. ToldTrue' /\ AskedOnce'
    BY <1>1, <1>2, <1>4, <2>1 DEF ToldTrue, AskedOnce, OfCurrent
  <2> QED
    BY <2>3, <2>4
<1>12. AtMostOneEnd'
  BY <1>2, <1>4 DEF AtMostOneEnd
<1>13. AudioFollowsConnection'
  <2>1. ~conns[c].established /\ ~conns[c].orphan
    BY <1>1 DEF NewConn
  <2> QED
    BY <1>2, <1>4, <2>1 DEF AudioFollowsConnection, Stoppable
<1> QED
  BY <1>6, <1>7, <1>8, <1>9, <1>10, <1>11, <1>12, <1>13

LEMMA KeptByUser == IInv /\ UserStep => IInv'
<1> SUFFICES ASSUME IInv, UserStep PROVE IInv'
  OBVIOUS
<1> USE DEF views, rootVars, connVars
<1>1. /\ Typed /\ Screen
      /\ connection # None => (Controlled \/ (~Controlled /\ root = connection))
  BY DEF IInv, Screen
<1>2. CASE ConnetToHostname
  BY <1>1, <1>2, KeptByEstablish DEF ConnetToHostname, Typed
<1>3. CASE RetryRejected
  BY <1>1, <1>3, KeptByEstablish DEF RetryRejected, Screen
<1>4. CASE CancelConnecting
  <2>1. /\ MainFree /\ Teardown /\ connectingView /\ connectingView' = FALSE
        /\ UNCHANGED <<root, leaving, trustAlert, certView, rejectAlert, credentials>>
        /\ UNCHANGED <<mainQueue, audioConn, made>>
    BY <1>4 DEF CancelConnecting
  <2>2. MainShape
    BY <1>1, <2>1, TornDown DEF MainShape, Typed
  <2>3. Screen'
    BY <1>1, <2>1, TornDown DEF Screen
  <2> QED
    BY <2>1, <2>2, <2>3, TornDown, MainKeeps
<1>5. CASE CancelTrust
  <2>1. /\ MainFree /\ Teardown /\ trustAlert /\ trustAlert' = FALSE
        /\ UNCHANGED <<root, leaving, connectingView, certView, rejectAlert, credentials>>
        /\ UNCHANGED <<mainQueue, audioConn, made>>
    BY <1>5 DEF CancelTrust
  <2>2. MainShape
    BY <1>1, <2>1, TornDown DEF MainShape, Typed
  <2>3. Screen'
    BY <1>1, <2>1, TornDown DEF Screen
  <2> QED
    BY <2>1, <2>2, <2>3, TornDown, MainKeeps
<1>6. CASE UserDisconnects
  <2>1. /\ MainFree /\ Teardown /\ root # None /\ ~leaving /\ leaving'
        /\ leaving' \in BOOLEAN
        /\ UNCHANGED <<root, connectingView, trustAlert, certView, rejectAlert>>
        /\ UNCHANGED <<mainQueue, audioConn, made, credentials>>
    BY <1>6 DEF UserDisconnects, DisconnectFromServer
  <2>2. MainShape
    BY <1>1, <2>1, TornDown DEF MainShape, Typed
  <2>3. Screen'
    BY <1>1, <2>1, TornDown DEF Screen
  <2> QED
    BY <2>1, <2>2, <2>3, TornDown, MainKeeps
<1>7. CASE DismissRejection
  <2>1. /\ UNCHANGED <<conns, connection, waiting, root, leaving, mainQueue, made>>
        /\ UNCHANGED <<audioConn, connectingView, trustAlert, certView, credentials>>
        /\ rejectAlert' = FALSE
    BY <1>7 DEF DismissRejection
  <2>2. MainShape
    BY <1>1, <2>1 DEF MainShape, Typed
  <2>3. Screen' /\ Owned'
    BY <1>1, <2>1 DEF Screen, Owned, Controlled, IInv
  <2>4. Holds
    BY <2>1, HoldsOn DEF IInv, CurrentOK, Controlled, Pops
  <2> QED
    BY <2>1, <2>2, <2>3, <2>4, ConnsUntouched, MainKeeps
<1>8. CASE ShowCertificates
  <2>1. /\ UNCHANGED <<conns, connection, waiting, root, leaving, mainQueue, made>>
        /\ UNCHANGED <<audioConn, connectingView, rejectAlert, credentials>>
        /\ trustAlert /\ trustAlert' = FALSE /\ certView' = TRUE
    BY <1>8 DEF ShowCertificates
  <2>2. MainShape
    BY <1>1, <2>1 DEF MainShape, Typed
  <2>3. Screen' /\ Owned' /\ connection # None
    BY <1>1, <2>1 DEF Screen, Owned, Controlled, IInv
  <2>4. Holds
    <3>1. \A i \in DOMAIN mainQueue' : ~OfCurrent(i, {"trustFailure"})'
      BY <2>1 DEF IInv, AskedOnce, OfCurrent
    <3>2. Current(conns[connection], TRUE)
      BY <2>1, <2>3 DEF IInv, CurrentOK, Asking, Current
    <3>3. Current(conns'[connection], trustAlert' \/ certView')
      BY <2>1, <3>2
    <3> QED
      BY <2>1, <3>1, <3>3, HoldsAsked DEF Controlled, Pops
  <2> QED
    BY <2>1, <2>2, <2>3, <2>4, ConnsUntouched, MainKeeps
<1>9. CASE AcceptTrust \/ CertViewDidDismiss
  <2>1. /\ MainFree /\ Asking /\ (trustAlert \/ certView)
        /\ \E ignore \in BOOLEAN : ReconnectIt(ignore)
        /\ UNCHANGED <<connection, waiting, root, leaving, mainQueue, made>>
        /\ UNCHANGED <<audioConn, rejectAlert, credentials>>
        /\ connectingView' = TRUE
    BY <1>9 DEF AcceptTrust, CertViewDidDismiss, Asking
  <2>2. connection # None /\ Controlled /\ trustAlert' = FALSE /\ certView' = FALSE
    BY <1>1, <1>9, <2>1 DEF Screen, Typed, AcceptTrust, CertViewDidDismiss
  <2> PICK ignore \in BOOLEAN : ReconnectIt(ignore)
    BY <2>1
  <2>3. MainShape
    BY <1>1, <2>1, <2>2, Reconnected DEF MainShape, Typed
  <2>4. Screen'
    <3>1. Controlled'
      BY <2>1, <2>2, Reconnected
    <3> QED
      BY <1>1, <2>1, <2>2, <3>1 DEF Screen
  <2>5. Holds
    <3>1. \A i \in DOMAIN mainQueue' : ~OfCurrent(i, {"trustFailure"})'
      BY <2>1 DEF IInv, AskedOnce, OfCurrent
    <3>2. Current(conns'[connection], trustAlert' \/ certView')
      BY <2>1, <2>2, Reconnected
    <3>3. ~Pops
      BY <2>1, NoPop
    <3> QED
      BY <2>1, <2>2, <3>1, <3>2, <3>3, Reconnected, HoldsAsked
  <2> QED
    BY <2>1, <2>2, <2>3, <2>4, <2>5, Reconnected, MainKeeps
<1> QED
  BY <1>2, <1>3, <1>4, <1>5, <1>6, <1>7, <1>8, <1>9 DEF UserStep

(* A block that nobody heeds. *)
LEMMA KeptByUnheeded ==
    ASSUME IInv, Pops, UNCHANGED <<conns, made, connection, credentials, waiting>>,
           UNCHANGED <<connectingView, trustAlert, certView, rejectAlert>>,
           UNCHANGED <<root, leaving, audioConn>>,
           connection # None /\ Controlled => ~OfCurrent(1, {"serverSync"})
    PROVE  IInv'
<1>1. MainShape
  BY DEF MainShape, IInv, Typed
<1>2. Owned' /\ Screen' /\ (Controlled' <=> Controlled)
  BY DEF IInv, Owned, Screen, Controlled
<1>3. Holds
  BY <1>2, HoldsOn DEF IInv, CurrentOK
<1> QED
  BY <1>1, <1>2, <1>3, ConnsUntouched, MainKeeps

(* The owner lets go of the connection because of a block. *)
LEMMA KeptByLettingGo ==
    ASSUME IInv, MainFree, Pops, Teardown,
           UNCHANGED <<made, root, audioConn, trustAlert, certView, credentials>>,
           ~trustAlert, ~certView,
           connectingView' = FALSE, leaving' = (root # None),
           rejectAlert' \in BOOLEAN,
           rejectAlert' => rejectAlert \/ (root = None /\ credentials)
    PROVE  IInv'
<1>1. MainShape
  BY TornDown DEF MainShape, IInv, Typed
<1>2. Screen'
  BY TornDown DEF IInv, Screen
<1> QED
  BY <1>1, <1>2, TornDown, MainKeeps

(* What the oldest block says of the current connection. *)
LEMMA HeadTold ==
    ASSUME IInv, MainFree, NEW what, Run(what)
    PROVE  /\ Pops /\ audioConn' = audioConn
           /\ Head(mainQueue) = mainQueue[1] /\ 1 \in DOMAIN mainQueue
           /\ Head(mainQueue).conn \in Conns /\ Head(mainQueue).what = what
           /\ Delegate # "none" <=> Head(mainQueue).conn = connection
           /\ Delegate # "none" => connection # None /\ Delegate = conns[connection].delegate
           /\ Head(mainQueue).conn = connection => OfCurrent(1, {what})
           /\ what # "serverSync" => ~OfCurrent(1, {"serverSync"})
<1>1. Pops /\ audioConn' = audioConn /\ Head(mainQueue).what = what
  BY DEF Run, Pops
<1>2. /\ Head(mainQueue) = mainQueue[1] /\ 1 \in DOMAIN mainQueue
      /\ Head(mainQueue).conn \in Conns
  BY <1>1, Popped
<1>3. connection \in Conns \cup {None} /\ None \notin Conns
  BY ConnAssumption DEF IInv, Typed, Conns
<1> QED
  BY <1>1, <1>2, <1>3 DEF Delegate, OfCurrent, IInv, Owned

(* The end of the current connection: its owner is not asked anything.      *)
LEMMA NotAskedAtEnd ==
    ASSUME IInv, connection # None, 1 \in DOMAIN mainQueue, OfCurrent(1, EndsTold)
    PROVE  ~trustAlert /\ ~certView
<1>1. conns[connection].ended = 1 /\ Current(conns[connection], Asking)
  BY DEF IInv, ToldTrue, CurrentOK
<1>2. ~Asking
  BY <1>1 DEF Current
<1> QED
  BY <1>2 DEF Asking

LEMMA KeptByClosedWithError == IInv /\ ClosedWithError => IInv'
<1> SUFFICES ASSUME IInv, ClosedWithError PROVE IInv'
  OBVIOUS
<1> USE DEF views, rootVars
<1>1. MainFree /\ Run("closed")
  BY DEF ClosedWithError, Run
<1>2. CASE Unheeded({"controller", "root"})
  <2>1. Pops /\ audioConn' = audioConn /\ ~OfCurrent(1, {"serverSync"})
    BY <1>1, HeadTold DEF OfCurrent
  <2>2. /\ UNCHANGED <<conns, made, connection, credentials, waiting>>
        /\ UNCHANGED <<connectingView, trustAlert, certView, rejectAlert>>
        /\ UNCHANGED <<root, leaving>>
    BY <1>2 DEF Unheeded
  <2> QED
    BY <2>1, <2>2, KeptByUnheeded
<1>3. CASE ~Unheeded({"controller", "root"})
  <2>1. /\ Delegate \in {"controller", "root"} /\ connection # None
        /\ OfCurrent(1, EndsTold) /\ 1 \in DOMAIN mainQueue
        /\ Head(mainQueue).error
    <3>1. Delegate \in {"controller", "root"}
      BY <1>3 DEF ClosedWithError
    <3>2. OfCurrent(1, {"closed"}) /\ connection # None /\ 1 \in DOMAIN mainQueue
          /\ Head(mainQueue) = mainQueue[1]
      BY <1>1, <3>1, HeadTold
    <3> QED
      BY <3>1, <3>2 DEF OfCurrent, EndsTold, IInv, ToldTrue
  <2>2. ~trustAlert /\ ~certView
    BY <2>1, NotAskedAtEnd
  <2>3. /\ Teardown /\ leaving' = (root # None)
        /\ connectingView' = FALSE
        /\ UNCHANGED <<made, root, trustAlert, certView, credentials, rejectAlert>>
    <3>1. IInv => Screen /\ Typed
      BY DEF IInv
    <3>2. CASE Delegate = "controller"
      BY <1>1, <1>3, <2>1, <3>1, <3>2, HeadTold
      DEF ClosedWithError, HideConnectingView, Screen, Controlled, Typed
    <3>3. CASE Delegate = "root"
      BY <1>1, <1>3, <2>1, <3>1, <3>3, HeadTold
      DEF ClosedWithError, DisconnectFromServer, Screen, Controlled, Typed
    <3> QED
      BY <2>1, <3>2, <3>3
  <2>4. rejectAlert' \in BOOLEAN
    BY <2>3 DEF IInv, Typed
  <2>5. Pops /\ audioConn' = audioConn
    BY <1>1, HeadTold
  <2> QED
    BY <1>1, <2>2, <2>3, <2>4, <2>5, KeptByLettingGo
<1> QED
  BY <1>2, <1>3

LEMMA KeptByUnableToConnect == IInv /\ UnableToConnect => IInv'
<1> SUFFICES ASSUME IInv, UnableToConnect PROVE IInv'
  OBVIOUS
<1> USE DEF views, rootVars
<1>1. MainFree /\ Run("unableToConnect")
  BY DEF UnableToConnect, Run
<1>2. CASE Unheeded({"controller"})
  <2>1. Pops /\ audioConn' = audioConn /\ ~OfCurrent(1, {"serverSync"})
    BY <1>1, HeadTold DEF OfCurrent
  <2>2. /\ UNCHANGED <<conns, made, connection, credentials, waiting>>
        /\ UNCHANGED <<connectingView, trustAlert, certView, rejectAlert>>
        /\ UNCHANGED <<root, leaving>>
    BY <1>2 DEF Unheeded
  <2> QED
    BY <2>1, <2>2, KeptByUnheeded
<1>3. CASE ~Unheeded({"controller"})
  <2>1. /\ Delegate = "controller" /\ Teardown /\ connectingView' = FALSE
        /\ UNCHANGED <<made, root, leaving, trustAlert, certView, credentials, rejectAlert>>
    BY <1>3 DEF UnableToConnect, HideConnectingView
  <2>2. ~trustAlert /\ ~certView
    BY <1>1, <2>1, HeadTold, NotAskedAtEnd DEF OfCurrent, EndsTold
  <2>3. leaving' = (root # None) /\ rejectAlert' \in BOOLEAN
    BY <1>1, <2>1, HeadTold DEF IInv, Screen, Controlled, Typed
  <2>4. Pops /\ audioConn' = audioConn
    BY <1>1, HeadTold
  <2> QED
    BY <1>1, <2>1, <2>2, <2>3, <2>4, KeptByLettingGo
<1> QED
  BY <1>2, <1>3

LEMMA KeptByRejectedWithReason == IInv /\ RejectedWithReason => IInv'
<1> SUFFICES ASSUME IInv, RejectedWithReason PROVE IInv'
  OBVIOUS
<1> USE DEF views, rootVars
<1>1. MainFree /\ Run("rejected")
  BY DEF RejectedWithReason, Run
<1>2. CASE Unheeded({"controller"})
  <2>1. Pops /\ audioConn' = audioConn /\ ~OfCurrent(1, {"serverSync"})
    BY <1>1, HeadTold DEF OfCurrent
  <2>2. /\ UNCHANGED <<conns, made, connection, credentials, waiting>>
        /\ UNCHANGED <<connectingView, trustAlert, certView, rejectAlert>>
        /\ UNCHANGED <<root, leaving>>
    BY <1>2 DEF Unheeded
  <2> QED
    BY <2>1, <2>2, KeptByUnheeded
<1>3. CASE ~Unheeded({"controller"})
  <2>1. /\ Delegate = "controller" /\ Teardown /\ connectingView' = FALSE
        /\ rejectAlert' \in BOOLEAN
        /\ UNCHANGED <<made, root, leaving, trustAlert, certView, credentials>>
    BY <1>3 DEF RejectedWithReason, HideConnectingView
  <2>2. ~trustAlert /\ ~certView
    BY <1>1, <2>1, HeadTold, NotAskedAtEnd DEF OfCurrent, EndsTold
  <2>3. leaving' = (root # None) /\ root = None /\ credentials
    BY <1>1, <2>1, HeadTold DEF IInv, Screen, Controlled, Typed
  <2>4. Pops /\ audioConn' = audioConn
    BY <1>1, HeadTold
  <2> QED
    BY <1>1, <2>1, <2>2, <2>3, <2>4, KeptByLettingGo
<1> QED
  BY <1>2, <1>3

(* Who is kicked is in the server view, or was: the server has told before  *)
(* that the user joined.                                                    *)
LEMMA KeptByUserKicked == IInv /\ UserKicked => IInv'
<1> SUFFICES ASSUME IInv, UserKicked PROVE IInv'
  OBVIOUS
<1> USE DEF views, rootVars
<1>1. MainFree /\ Run("kicked")
  BY DEF UserKicked, Run
<1> DEFINE c == Head(mainQueue).conn
<1>2. CASE ~conns[c].msgHandler
  BY <1>1, <1>2, HeadTold, KeptByUnheeded DEF UserKicked
<1>3. CASE conns[c].msgHandler
  <2>1. /\ Teardown /\ leaving' = (root # None)
        /\ UNCHANGED <<made, root, credentials>>
        /\ UNCHANGED <<connectingView, trustAlert, certView, rejectAlert>>
    BY <1>3 DEF UserKicked, DisconnectFromServer
  <2>2. connection = None \/ ~Controlled
    <3>1. CASE c = connection
      <4>1. OfCurrent(1, {"kicked"}) /\ 1 \in DOMAIN mainQueue
        BY <1>1, <3>1, HeadTold
      <4>2. \A j \in 1 .. 1 - 1 : FALSE
        OBVIOUS
      <4> QED
        BY <4>1, <4>2 DEF IInv, ToldTrue
    <3>2. CASE c # connection
      <4>1. c \in Conns /\ None \notin Conns
        BY <1>1, HeadTold, ConnAssumption
      <4> QED
        BY <1>3, <3>2, <4>1 DEF IInv, Owned, Screen
    <3> QED
      BY <3>1, <3>2
  <2>3. ~trustAlert /\ ~certView /\ connectingView' = FALSE /\ rejectAlert' \in BOOLEAN
    BY <2>1, <2>2 DEF IInv, Screen, Typed
  <2>4. Pops /\ audioConn' = audioConn
    BY <1>1, HeadTold
  <2> QED
    BY <1>1, <2>1, <2>3, <2>4, KeptByLettingGo
<1> QED
  BY <1>2, <1>3

(* A step that changes what does not matter here of the connection's record *)
(* and leaves its thread alone.                                             *)
LEMMA KeptByOpened == IInv /\ ConnectionOpened => IInv'
<1> SUFFICES ASSUME IInv, ConnectionOpened PROVE IInv'
  OBVIOUS
<1> USE DEF views, rootVars
<1>1. MainFree /\ Run("opened")
  BY DEF ConnectionOpened, Run
<1>2. /\ Pops /\ audioConn' = audioConn /\ ~OfCurrent(1, {"serverSync"})
      /\ Head(mainQueue).conn \in Conns
  BY <1>1, HeadTold DEF OfCurrent
<1>3. CASE Unheeded({"controller"})
  <2>1. /\ UNCHANGED <<conns, made, connection, credentials, waiting>>
        /\ UNCHANGED <<connectingView, trustAlert, certView, rejectAlert>>
        /\ UNCHANGED <<root, leaving>>
    BY <1>3 DEF Unheeded
  <2> QED
    BY <1>2, <2>1, KeptByUnheeded
<1>4. CASE ~Unheeded({"controller"})
  <2> DEFINE c == Head(mainQueue).conn
             k == conns[c]
             new == [k EXCEPT !.authenticate = TRUE]
  <2>1. /\ Delegate = "controller" /\ conns' = [conns EXCEPT ![c] = new]
        /\ UNCHANGED <<made, connection, credentials, waiting>>
        /\ UNCHANGED <<connectingView, trustAlert, certView, rejectAlert>>
        /\ UNCHANGED <<root, leaving>>
    BY <1>4 DEF ConnectionOpened
  <2>2. c = connection /\ connection # None /\ c \in Conns
    BY <1>1, <2>1, HeadTold
  <2>3. k \in Conn /\ conns \in [Conns -> Conn] /\ ~(c > made)
    BY <2>2 DEF IInv, Typed, Conns
  <2>4. /\ new \in Conn /\ new.thread = k.thread /\ new.established = k.established
        /\ new.ended = k.ended /\ new.orphan = k.orphan /\ new.peer = k.peer
        /\ new.delegate = k.delegate /\ new.modelDelegate = k.modelDelegate
        /\ new.msgHandler = k.msgHandler
        /\ new.reconnect = k.reconnect /\ new.connError = k.connError
        /\ new.rejected = k.rejected
        /\ new.keepRunning = k.keepRunning /\ new.streams = k.streams
    BY <2>3 DEF Conn
  <2> HIDE DEF new
  <2>5. /\ conns' \in [Conns -> Conn]
        /\ \A x \in Conns : conns'[x] = IF x = c THEN new ELSE conns[x]
    BY <2>1, <2>2, <2>3, <2>4
  <2> HIDE DEF c
  <2>6. MainShape
    BY <1>2, <2>1, <2>2, <2>3, <2>4, <2>5 DEF MainShape, IInv, Typed
  <2>7. Owned' /\ ThreadsOwned'
    BY <2>1, <2>2, <2>4, <2>5 DEF IInv, Owned, ThreadsOwned
  <2>8. Controlled' <=> Controlled
    BY <2>1, <2>2, <2>4, <2>5 DEF Controlled
  <2>9. Screen'
    BY <2>1, <2>8 DEF IInv, Screen
  <2>10. Current(conns'[connection], Asking)
    BY <2>2, <2>4, <2>5 DEF IInv, CurrentOK, Current
  <2>11. conns'[connection].peer = conns[connection].peer
    BY <2>2, <2>4, <2>5
  <2>12. Holds
    BY <1>2, <2>1, <2>8, <2>10, <2>11, HoldsOn
  <2> QED
    BY <2>6, <2>7, <2>9, <2>12, MainKeeps
<1> QED
  BY <1>3, <1>4

LEMMA KeptByTrustFailure == IInv /\ TrustFailureInCertificateChain => IInv'
<1> SUFFICES ASSUME IInv, TrustFailureInCertificateChain PROVE IInv'
  OBVIOUS
<1> USE DEF views, rootVars
<1>1. MainFree /\ Run("trustFailure")
  BY DEF TrustFailureInCertificateChain, Run
<1>2. /\ Pops /\ audioConn' = audioConn /\ ~OfCurrent(1, {"serverSync"})
      /\ Head(mainQueue).conn \in Conns
  BY <1>1, HeadTold DEF OfCurrent
<1>3. CASE Unheeded({"controller"})
  <2>1. /\ UNCHANGED <<conns, made, connection, credentials, waiting>>
        /\ UNCHANGED <<connectingView, trustAlert, certView, rejectAlert>>
        /\ UNCHANGED <<root, leaving>>
    BY <1>3 DEF Unheeded
  <2> QED
    BY <1>2, <2>1, KeptByUnheeded
<1>4. CASE ~Unheeded({"controller"})
  <2>1. /\ Delegate = "controller"
        /\ UNCHANGED <<made, connection, credentials, waiting>>
        /\ UNCHANGED <<root, leaving, rejectAlert, certView>>
        /\ \/ ReconnectIt(TRUE) /\ UNCHANGED <<connectingView, trustAlert>>
           \/ connectingView' = FALSE /\ trustAlert' = TRUE /\ UNCHANGED conns
    BY <1>4 DEF TrustFailureInCertificateChain, HideConnectingView
  <2>2. /\ connection # None /\ Controlled /\ 1 \in DOMAIN mainQueue
        /\ OfCurrent(1, {"trustFailure"})
    BY <1>1, <2>1, HeadTold DEF Controlled
  <2>3. Asking /\ ~trustAlert /\ ~certView
    BY <2>2 DEF Asking, IInv, AskedOnce
  <2>4. \A i \in DOMAIN mainQueue' : ~OfCurrent(i, {"trustFailure"})'
    <3>1. \A i \in DOMAIN mainQueue : OfCurrent(i, {"trustFailure"}) => i = 1
      BY <2>2 DEF IInv, AskedOnce
    <3> QED
      BY <1>2, <2>1, <3>1, Popped DEF OfCurrent
  <2>5. CASE ReconnectIt(TRUE) /\ UNCHANGED <<connectingView, trustAlert>>
    <3>1. /\ conns' \in [Conns -> Conn]
          /\ \A x \in Conns :
                /\ conns'[x].thread = conns[x].thread
                /\ conns'[x].established = conns[x].established
                /\ conns'[x].ended = conns[x].ended
                /\ conns[x].orphan => conns'[x].orphan
                /\ x > made => conns'[x] = conns[x]
          /\ Owned' /\ ThreadsOwned' /\ (Controlled' <=> Controlled)
          /\ conns'[connection].peer = conns[connection].peer
          /\ Current(conns'[connection], FALSE)
      BY <1>1, <2>1, <2>2, <2>3, <2>5, Reconnected DEF Run
    <3>2. MainShape
      BY <1>2, <2>1, <2>5, <3>1 DEF MainShape, IInv, Typed
    <3>3. Screen'
      BY <2>1, <2>5, <3>1 DEF IInv, Screen
    <3>4. Current(conns'[connection], trustAlert' \/ certView')
      BY <2>1, <2>3, <2>5, <3>1 DEF IInv, Typed
    <3>5. Holds
      BY <1>2, <2>1, <2>4, <3>1, <3>4, HoldsAsked
    <3> QED
      BY <3>1, <3>2, <3>3, <3>5, MainKeeps
  <2>6. CASE connectingView' = FALSE /\ trustAlert' = TRUE /\ UNCHANGED conns
    <3>1. MainShape
      BY <1>2, <2>1, <2>6 DEF MainShape, IInv, Typed
    <3>2. Screen' /\ Owned' /\ (Controlled' <=> Controlled)
      BY <2>1, <2>2, <2>3, <2>6 DEF IInv, Screen, Owned, Controlled
    <3>3. Current(conns[connection], TRUE)
      BY <2>2, <2>3 DEF IInv, CurrentOK, Current
    <3>4. Current(conns'[connection], trustAlert' \/ certView')
      BY <2>1, <2>6, <3>3
    <3>5. Holds
      BY <1>2, <2>1, <2>4, <2>6, <3>2, <3>4, HoldsAsked
    <3> QED
      BY <2>1, <2>6, <3>1, <3>2, <3>5, ConnsUntouched, MainKeeps
  <2> QED
    BY <2>1, <2>5, <2>6
<1> QED
  BY <1>3, <1>4

(* The server view takes over.                                              *)
LEMMA KeptByJoinedServer == IInv /\ JoinedServer => IInv'
<1> SUFFICES ASSUME IInv, JoinedServer PROVE IInv'
  OBVIOUS
<1> USE DEF views, rootVars
<1>1. MainFree /\ Run("serverSync")
  BY DEF JoinedServer, Run
<1> DEFINE c == Head(mainQueue).conn
           k == conns[c]
           new == [k EXCEPT !.delegate = "root"]
<1>2. /\ Pops /\ audioConn' = audioConn /\ c \in Conns /\ Head(mainQueue) = mainQueue[1]
      /\ 1 \in DOMAIN mainQueue
      /\ c = connection => OfCurrent(1, {"serverSync"})
      /\ UNCHANGED <<made, connection, waiting>>
  BY <1>1, HeadTold DEF JoinedServer
<1>3. CASE ~(k.msgHandler /\ k.modelDelegate)
  <2>1. /\ UNCHANGED <<conns, credentials, connectingView, trustAlert, certView>>
        /\ UNCHANGED <<rejectAlert, root, leaving>>
    BY <1>3 DEF JoinedServer
  <2>2. ~OfCurrent(1, {"serverSync"})
    BY <1>2, <1>3 DEF OfCurrent, IInv, Owned
  <2> QED
    BY <1>2, <2>1, <2>2, KeptByUnheeded
<1>4. CASE k.msgHandler /\ k.modelDelegate
  <2>1. /\ conns' = [conns EXCEPT ![c] = new] /\ connectingView' = FALSE
        /\ credentials' = FALSE /\ root' = c /\ leaving' = FALSE
        /\ UNCHANGED <<trustAlert, certView, rejectAlert>>
    BY <1>4 DEF JoinedServer, HideConnectingView
  <2>2. c = connection /\ connection # None
    BY <1>2, <1>4, ConnAssumption DEF IInv, Owned
  <2>3. k \in Conn /\ conns \in [Conns -> Conn] /\ c \in 1 .. made
    BY <1>2, <2>2, ConnAssumption DEF IInv, Typed
  <2>4. /\ new \in Conn /\ new.thread = k.thread /\ new.established = k.established
        /\ new.ended = k.ended /\ new.orphan = k.orphan /\ new.peer = k.peer
        /\ new.delegate = "root" /\ new.modelDelegate = k.modelDelegate
        /\ new.msgHandler = k.msgHandler
        /\ new.reconnect = k.reconnect /\ new.connError = k.connError
        /\ new.rejected = k.rejected
        /\ new.keepRunning = k.keepRunning /\ new.streams = k.streams
    BY <2>3 DEF Conn
  <2> HIDE DEF new
  <2>5. /\ conns' \in [Conns -> Conn]
        /\ \A x \in Conns : conns'[x] = IF x = c THEN new ELSE conns[x]
    BY <1>2, <2>1, <2>3, <2>4
  <2>6. ~trustAlert /\ ~certView
    <3>1. k.peer # "idle"
      BY <1>2, <2>2 DEF IInv, ToldTrue
    <3>2. Current(k, Asking)
      BY <2>2 DEF IInv, CurrentOK
    <3>3. ~Asking
      BY <3>1, <3>2 DEF Current
    <3> QED
      BY <3>3 DEF Asking
  <2>7. made \in Nat /\ ~(c > made) /\ ~rejectAlert
    BY <2>2, <2>3 DEF IInv, Typed, Screen
  <2> HIDE DEF c
  <2>8. MainShape
    BY <1>2, <2>1, <2>3, <2>4, <2>5, <2>7 DEF MainShape, IInv, Typed
  <2>9. Owned' /\ ThreadsOwned' /\ ~Controlled'
    <3>1. root \in {None, connection}
      BY <2>2 DEF IInv, Screen
    <3>2. Owned'
      BY <1>2, <2>1, <2>2, <2>4, <2>5, <3>1, ConnAssumption DEF IInv, Owned
    <3>3. ThreadsOwned'
      BY <1>2, <2>1, <2>2, <2>4, <2>5 DEF IInv, ThreadsOwned
    <3>4. ~Controlled'
      BY <1>2, <2>1, <2>2, <2>4, <2>5 DEF Controlled
    <3> QED
      BY <3>2, <3>3, <3>4
  <2>10. Screen'
    BY <1>2, <2>1, <2>2, <2>6, <2>7, <2>9 DEF Screen, IInv, Typed
  <2>11. Current(conns'[connection], Asking)
    BY <1>2, <2>2, <2>4, <2>5 DEF IInv, CurrentOK, Current
  <2>12. conns'[connection].peer = conns[connection].peer
    BY <1>2, <2>2, <2>4, <2>5
  <2>13. Holds
    BY <1>2, <2>1, <2>9, <2>11, <2>12, HoldsOn
  <2> QED
    BY <2>8, <2>9, <2>10, <2>13, MainKeeps
<1> QED
  BY <1>3, <1>4

LEMMA KeptByRootDismissed == IInv /\ RootDismissed => IInv'
<1> SUFFICES ASSUME IInv, RootDismissed PROVE IInv'
  OBVIOUS
<1> USE DEF views
<1>1. /\ MainFree /\ leaving /\ root' = None /\ leaving' = FALSE
      /\ conns' = [conns EXCEPT ![root].msgHandler = FALSE]
      /\ UNCHANGED <<mainQueue, audioConn, made, connection, credentials, waiting>>
      /\ UNCHANGED <<connectingView, trustAlert, certView, rejectAlert>>
  BY DEF RootDismissed
<1>2. connection = None /\ root # None
  BY <1>1 DEF IInv, Screen
<1>3. /\ root \in Conns /\ root \in 1 .. made /\ conns \in [Conns -> Conn] /\ made \in Nat
      /\ conns[root] \in Conn
      /\ ~(root > made)
  BY <1>2, ConnAssumption DEF IInv, Typed, Conns
<1> DEFINE k == conns[root]
           new == [k EXCEPT !.msgHandler = FALSE]
<1>4. /\ new \in Conn /\ new.thread = k.thread /\ new.established = k.established
      /\ new.ended = k.ended /\ new.orphan = k.orphan /\ new.delegate = k.delegate
      /\ new.modelDelegate = k.modelDelegate /\ ~new.msgHandler
  BY <1>3 DEF Conn
<1>5. conns' = [conns EXCEPT ![root] = new]
  BY <1>1
<1> HIDE DEF new
<1>6. /\ conns' \in [Conns -> Conn]
      /\ \A x \in Conns : conns'[x] = IF x = root THEN new ELSE conns[x]
  BY <1>3, <1>4, <1>5
<1>7. MainShape
  BY <1>1, <1>3, <1>4, <1>6 DEF MainShape, IInv, Typed
<1>8. Owned' /\ ThreadsOwned' /\ Screen' /\ Holds
  BY <1>1, <1>2, <1>3, <1>4, <1>6 DEF IInv, Owned, ThreadsOwned, Screen, Holds
<1> QED
  BY <1>7, <1>8, MainKeeps

(* The connection that disconnect waited for has ended. *)
LEMMA KeptByDisconnectReturns == IInv /\ DisconnectReturns => IInv'
<1> SUFFICES ASSUME IInv, DisconnectReturns PROVE IInv'
  OBVIOUS
<1> USE DEF views, rootVars, connVars
<1>1. /\ waiting # None /\ ~IsExecuting(conns[waiting]) /\ waiting' = None
      /\ UNCHANGED <<conns, mainQueue, audioConn, made, connection, credentials>>
      /\ UNCHANGED <<connectingView, trustAlert, certView, rejectAlert, root, leaving>>
  BY DEF DisconnectReturns
<1>2. connection = None /\ conns[waiting].thread \in {"new", "finished"}
  BY <1>1 DEF IInv, ThreadsOwned, IsExecuting
<1>3. MainShape
  BY <1>1 DEF MainShape, IInv, Typed
<1>4. Owned' /\ Screen' /\ Holds
  BY <1>1, <1>2 DEF IInv, Owned, Screen, Holds
<1>5. ThreadsOwned'
  BY <1>1, <1>2 DEF IInv, ThreadsOwned
<1> QED
  BY <1>3, <1>4, <1>5, MainKeeps

--------------------------------------------------------------------------------
LEMMA Initially == Init => IInv
<1> SUFFICES ASSUME Init PROVE IInv
  OBVIOUS
<1> USE DEF Init, ConnInit
<1>1. NewConn \in Conn
  BY DEF NewConn, Conn, Places
<1>2. Typed
  <2>1. conns \in [Conns -> Conn] /\ audioConn \in Conns \cup {None}
    BY <1>1
  <2>2. mainQueue \in Seq([what : Whats, conn : Conns, error : BOOLEAN])
    OBVIOUS
  <2>3. made \in 0 .. MaxConns /\ {connection, root, waiting} \subseteq 1 .. made \cup {None}
    BY ConnAssumption
  <2> QED
    BY <2>1, <2>2, <2>3 DEF Typed
<1>3. Unmade /\ Owned /\ Screen /\ ThreadsOwned /\ AtMostOneEnd /\ AudioFollowsConnection
  BY ConnAssumption
  DEF Unmade, Owned, Screen, ThreadsOwned, AtMostOneEnd, AudioFollowsConnection,
      Stoppable, NewConn, Conns
<1>4. CurrentOK /\ ToldTrue /\ AskedOnce
  BY DEF CurrentOK, ToldTrue, AskedOnce
<1> QED
  BY <1>2, <1>3, <1>4 DEF IInv

LEMMA KeptByStuttering == IInv /\ UNCHANGED vars => IInv'
<1> SUFFICES ASSUME IInv, UNCHANGED vars PROVE IInv'
  OBVIOUS
<1> USE DEF vars, connVars, views, rootVars
<1>1. MainShape
  BY DEF MainShape, IInv, Typed
<1>2. Owned' /\ Screen' /\ (Controlled' <=> Controlled)
  BY DEF IInv, Owned, Screen, Controlled
<1>3. Holds
  BY <1>2, NoPop, HoldsOn DEF IInv, CurrentOK
<1> QED
  BY <1>1, <1>2, <1>3, ConnsUntouched, MainKeeps

LEMMA Inductive == IInv /\ [Next]_vars => IInv'
BY KeptByUser, KeptByThreads, KeptByOpened, KeptByClosedWithError,
   KeptByUnableToConnect, KeptByTrustFailure, KeptByRejectedWithReason,
   KeptByJoinedServer, KeptByUserKicked, KeptByRootDismissed,
   KeptByDisconnectReturns, KeptByStuttering
DEF Next, MainStep, MainQueueStep, threadsOthers

THEOREM Invariance == Spec => []IInv
BY Initially, Inductive, PTL DEF Spec

(* Types, and that the connections that have been made are those numbered   *)
(* up to made.                                                              *)
THEOREM TypeCorrect == Spec => []TypeOK
<1>1. IInv => TypeOK
  <2> SUFFICES ASSUME IInv PROVE TypeOK
    OBVIOUS
  <2>1. \A i \in DOMAIN mainQueue : mainQueue[i].conn \in Conns
    BY BlocksTyped DEF Blocks
  <2> QED
    BY <2>1 DEF IInv, Typed, Conn, Unmade, NewConn, TypeOK
<1> QED
  BY <1>1, Invariance, PTL

(* stopConnectionThread and the wait in disconnect leave no thread behind   *)
(* but one that did not execute yet.                                        *)
THEOREM NoThreadLeft == Spec => []OneThread
<1>1. IInv => OneThread
  BY ConnAssumption DEF IInv, ThreadsOwned, OneThread, MainFree, Stoppable
<1> QED
  BY <1>1, Invariance, PTL

(* The unconditional [MKAudio setMainConnectionForAudio:nil] at the end of  *)
(* a thread never silences another connection that is open.                 *)
THEOREM AudioIsOfTheOpenConnection == Spec => []AudioFollowsConnection
BY Invariance, PTL DEF IInv

(* No handler forgets the credentials as long as they may be needed.        *)
THEOREM CredentialsAreThere == Spec => []CredentialsHeld
<1>1. IInv => CredentialsHeld
  BY ConnAssumption DEF IInv, Owned, Screen, Controlled, CredentialsHeld
<1> QED
  BY <1>1, Invariance, PTL

(* Of closed, unable to connect and rejected a connection reports one.      *)
THEOREM EndIsToldOnce == Spec => []AtMostOneEnd
BY Invariance, PTL DEF IInv

(* Whatever blocks come in whatever order from the threads, the screen      *)
(* belongs to the current connection.                                       *)
THEOREM ScreenBelongsToConnection == Spec => []OneView
<1>1. IInv => OneView
  <2> SUFFICES ASSUME IInv PROVE OneView
    OBVIOUS
  <2>1. CASE connection = None
    BY <2>1 DEF IInv, Screen, OneView, Fronts
  <2>2. CASE connection # None /\ Controlled
    <3>1. root = None
      BY <2>2 DEF IInv, Screen
    <3>2. \/ connectingView /\ ~trustAlert /\ ~certView
          \/ ~connectingView /\ trustAlert /\ ~certView
          \/ ~connectingView /\ ~trustAlert /\ certView
      BY <2>2 DEF IInv, Screen
    <3>3. Fronts = IF connectingView THEN {"connecting"}
                   ELSE IF trustAlert THEN {"trust"} ELSE {"cert"}
      BY <3>1, <3>2 DEF Fronts
    <3>4. \E v \in {"connecting", "trust", "cert"} : Fronts = {v}
      BY <3>3
    <3> QED
      BY <2>2, <3>4 DEF OneView
  <2>3. CASE connection # None /\ ~Controlled
    <3>1. Fronts = {"root"} /\ root = connection
      BY <2>3 DEF IInv, Screen, Fronts
    <3> QED
      BY <2>3, <3>1 DEF OneView
  <2> QED
    BY <2>1, <2>2, <2>3
<1> QED
  BY <1>1, Invariance, PTL

LEMMA OldUnheeded ==
    ASSUME IInv, Next, mainQueue # <<>>, Head(mainQueue).conn # connection,
           mainQueue' = Tail(mainQueue)
    PROVE  UNCHANGED <<connection, views, conns, waiting>>
<1> USE DEF views, rootVars, connVars
<1> DEFINE c == Head(mainQueue).conn
<1>1. Pops /\ mainQueue' # mainQueue
  BY NoPop DEF Pops
<1>2. c \in Conns /\ c # None /\ connection \in Conns \cup {None}
  BY <1>1, Popped, ConnAssumption DEF IInv, Typed, Conns
<1>3. /\ Delegate = "none" /\ ~conns[c].modelDelegate
      /\ conns[c].msgHandler => connection = None /\ ~connectingView /\ ~trustAlert
                                   /\ ~certView
  BY <1>2 DEF Delegate, IInv, Owned, Screen
<1>4. CASE UserStep
  BY <1>1, <1>4
  DEF UserStep, ConnetToHostname, CancelConnecting, DismissRejection, RetryRejected,
      CancelTrust, AcceptTrust, ShowCertificates, CertViewDidDismiss, UserDisconnects
<1>5. CASE RootDismissed \/ DisconnectReturns
  BY <1>1, <1>5 DEF RootDismissed, DisconnectReturns
<1>6. CASE Threads /\ UNCHANGED threadsOthers
  <2>1. PICK x \in Conns : ThreadStep(x) \/ StreamEvent(x)
    BY <1>6 DEF Threads
  <2>2. Shape(x)
    BY <2>1, ShapeOfThreadStep, ShapeOfStreamEvent
  <2>3. PICK b \in Blocks : mainQueue' = Append(mainQueue, b)
    BY <1>1, <2>2 DEF Shape
  <2>4. DOMAIN mainQueue' = 1 .. Len(mainQueue) + 1 /\ Len(mainQueue) \in Nat
    BY <2>3, Appended
  <2>5. Len(mainQueue) + 1 \in DOMAIN mainQueue'
    BY <2>4
  <2>6. Len(mainQueue) + 1 + 1 \in DOMAIN mainQueue
    BY <1>1, <2>5, Popped
  <2>7. DOMAIN mainQueue = 1 .. Len(mainQueue)
    BY BlocksTyped
  <2>8. \A n \in Nat : n + 1 + 1 \notin 1 .. n
    OBVIOUS
  <2> QED
    BY <2>4, <2>6, <2>7, <2>8
<1>7. CASE ConnectionOpened
  BY <1>3, <1>7 DEF ConnectionOpened, Unheeded
<1>8. CASE ClosedWithError
  BY <1>3, <1>8 DEF ClosedWithError, Unheeded
<1>9. CASE UnableToConnect
  BY <1>3, <1>9 DEF UnableToConnect, Unheeded
<1>10. CASE TrustFailureInCertificateChain
  BY <1>3, <1>10 DEF TrustFailureInCertificateChain, Unheeded
<1>11. CASE RejectedWithReason
  BY <1>3, <1>11 DEF RejectedWithReason, Unheeded
<1>12. CASE JoinedServer
  BY <1>3, <1>12 DEF JoinedServer
<1>13. CASE UserKicked
  BY <1>3, <1>13 DEF UserKicked, DisconnectFromServer, Teardown
<1> QED
  BY <1>4, <1>5, <1>6, <1>7, <1>8, <1>9, <1>10, <1>11, <1>12, <1>13
  DEF Next, MainStep, MainQueueStep, threadsOthers

(* What is left in the main queue of an earlier connection changes nothing  *)
(* of the current one.                                                      *)
THEOREM OldBlocksChangeNothing == Spec => OldBlocksAreUnheeded
<1>1. IInv /\ [Next]_vars =>
        [mainQueue # <<>> /\ Head(mainQueue).conn # connection
             /\ mainQueue' = Tail(mainQueue)
         => UNCHANGED <<connection, views, conns, waiting>>]_vars
  BY OldUnheeded
<1> QED
  BY <1>1, Invariance, PTL DEF Spec, OldBlocksAreUnheeded
================================================================================
