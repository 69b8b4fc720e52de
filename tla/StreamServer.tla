---------------------------- MODULE StreamServer ----------------------------
(***************************************************************************)
(* The stream service (src/stream): one dispatcher thread that accepts the *)
(* clients of all services, and for each service a CThreadManager with its *)
(* CWorkThreads.  The dispatcher hands a socket to a worker in two steps,  *)
(* AddSocket under the worker's mutex and then a token in the worker's     *)
(* pipe; the worker's event loop reads the token and builds a CAcceptor.   *)
(* A "get" is produced on the worker thread itself, inside ReadCB.         *)
(*                                                                         *)
(* An atomic step is what one thread does between two accesses to state    *)
(* another thread can change.  Activated and Disconnection hold m_mtx      *)
(* while they touch m_fd_list and m_acceptor_list, so each is one step;    *)
(* Size() takes no lock, so every call of it is a step of its own.         *)
(*                                                                         *)
(* libevent, the kernel's sockets and the clients are external: they are   *)
(* modelled from how src/stream uses them.                                 *)
(***************************************************************************)
EXTENDS Naturals, Sequences, FiniteSets

CONSTANTS
    Conns,        \* the clients' connections, each made once
    Services,     \* names of the services, CAppContext::m_services
    Workers,      \* all the worker threads
    Pool,         \* Pool[s]: m_workthread_list of service s
    StopOrder,    \* the order in which Stop walks m_thread_manager_map
    Target,       \* Target[c]: the services that client c may ask
    Asks,         \* Asks[c]: the kinds of request that client c makes
    MaxMsgs,      \* bound: MaxMsgs[c] requests of client c
    MaxCuts,      \* bound: MaxCuts[c] reads that end inside a request of client c
    Backlog,      \* m_backlog of the listeners
    PipeCap,      \* bound: tokens a worker's pipe holds
    MayFail,      \* what may go wrong in a worker: subset of Failures
    MayLeave,     \* the clients that may go away
    MayStop,      \* whether Stop may be called
    None          \* no connection, no worker

\* "get" with the NUL the client sends behind it, a bare "get", or anything else.
Requests == {"get", "bare", "other"}

\* What is left of a request after a read that ended inside it.
Unread == Requests \union {"rest"}

\* CAcceptor::Init fails; a template is refused or makes no reply; a production ends the
\* process, or never ends.
Failures == {"acceptor", "parser", "crash", "hang"}

WorkersOf(s) == {Pool[s][i] : i \in 1..Len(Pool[s])}

ASSUME ConstantsAssumption ==
    /\ Pool \in [Services -> Seq(Workers)]
    /\ \A s \in Services : Pool[s] # <<>>
    /\ StopOrder \in Seq(Services) /\ StopOrder # <<>>
    /\ Target \in [Conns -> SUBSET Services]
    /\ Asks \in [Conns -> SUBSET Requests]
    /\ MaxMsgs \in [Conns -> Nat] /\ MaxCuts \in [Conns -> Nat]
    /\ Backlog \in Nat /\ PipeCap \in Nat \ {0}
    /\ MayFail \subseteq Failures
    /\ MayLeave \subseteq Conns /\ MayStop \in BOOLEAN
    /\ None \notin Conns /\ None \notin Workers

ASSUME ConnsFinite == IsFiniteSet(Conns)

VARIABLES
    link,         \* link[c]: the client's side, "off", "on" or "gone"
    sent,         \* sent[c]: how many requests the client has sent
    inbox,        \* inbox[c]: requests written by the client, not yet read to their end
    cuts,         \* cuts[c]: reads that ended inside a request of the client
    backlog,      \* backlog[s]: connections the kernel holds for the listener
    dpc,          \* the dispatcher's place in its loop
    hand,         \* the locals of SConnListenerCb and CreateConnection
    fdList,       \* fdList[w]: m_fd_list
    tokens,       \* tokens[w]: "connected" strings unread in m_pipefd
    acceptors,    \* acceptors[w]: the clients of m_acceptor_list
    wpc,          \* wpc[w]: the worker's place in its loop
    serving,      \* serving[w]: whose "get" the worker is producing
    silent,       \* history: clients with a "get" that ended without a reply
    outbox,       \* outbox[c]: replies in the bufferevent's output buffer
    got,          \* got[c]: replies the client has received
    bevs,         \* bevs[w]: clients whose bufferevents are allocated on w's base
    stale,        \* stale[w]: of these, deleted acceptors with an event still armed
    lost,         \* descriptors dropped when CAcceptor::Init failed
    quit,         \* m_server_quit
    isStop,       \* isStop[w]: m_is_stop
    mpc,          \* the main thread's place in CServer::Stop
    stopAt,       \* <<service, worker>> indices Stop has reached
    crashed       \* the process has died

clientVars == <<link, sent, inbox, cuts, got>>
dispatchVars == <<backlog, dpc, hand>>
handoffVars == <<fdList, tokens>>
workerVars == <<acceptors, wpc, serving, silent, outbox, bevs, stale, lost>>
stopVars == <<quit, isStop, mpc, stopAt>>
vars == <<clientVars, dispatchVars, handoffVars, workerVars, stopVars, crashed>>

EmptyHand == [conn |-> None, svc |-> None, idx |-> 0, min |-> 0, wt |-> None]

\* CWorkThread::Size: read by the dispatcher without the worker's lock.
Size(w) == Cardinality(acceptors[w])

Init ==
    /\ link = [c \in Conns |-> "off"]
    /\ sent = [c \in Conns |-> 0]
    /\ inbox = [c \in Conns |-> <<>>]
    /\ cuts = [c \in Conns |-> 0]
    /\ backlog = [s \in Services |-> <<>>]
    /\ dpc = "loop"
    /\ hand = EmptyHand
    /\ fdList = [w \in Workers |-> <<>>]
    /\ tokens = [w \in Workers |-> 0]
    /\ acceptors = [w \in Workers |-> {}]
    /\ wpc = [w \in Workers |-> "idle"]
    /\ serving = [w \in Workers |-> None]
    /\ silent = {}
    /\ outbox = [c \in Conns |-> 0]
    /\ got = [c \in Conns |-> 0]
    /\ bevs = [w \in Workers |-> {}]
    /\ stale = [w \in Workers |-> {}]
    /\ lost = {}
    /\ quit = FALSE
    /\ isStop = [w \in Workers |-> FALSE]
    /\ mpc = "run"
    /\ stopAt = <<1, 1>>
    /\ crashed = FALSE

-----------------------------------------------------------------------------
(* The clients and the kernel's side of their sockets.                     *)

\* A client's handshake with the listener of service s, while the listener is open.
Connect(c, s) ==
    /\ ~crashed /\ dpc # "exited"
    /\ link[c] = "off" /\ s \in Target[c] /\ Len(backlog[s]) < Backlog
    /\ link' = [link EXCEPT ![c] = "on"]
    /\ backlog' = [backlog EXCEPT ![s] = Append(@, c)]
    /\ UNCHANGED <<sent, inbox, cuts, got, dpc, hand, handoffVars, workerVars, stopVars, crashed>>

\* A request is written to the socket, perhaps before the service accepts it.
Send(c, m) ==
    /\ ~crashed
    /\ link[c] = "on" /\ m \in Asks[c] /\ sent[c] < MaxMsgs[c]
    /\ sent' = [sent EXCEPT ![c] = @ + 1]
    /\ inbox' = [inbox EXCEPT ![c] = Append(@, m)]
    /\ UNCHANGED <<link, cuts, got, dispatchVars, handoffVars, workerVars, stopVars, crashed>>

\* The client closes or resets its connection.
Leave(c) ==
    /\ ~crashed
    /\ c \in MayLeave /\ link[c] = "on"
    /\ link' = [link EXCEPT ![c] = "gone"]
    /\ UNCHANGED <<sent, inbox, cuts, got, dispatchVars, handoffVars, workerVars, stopVars, crashed>>

Client(c) ==
    \/ \E s \in Services : Connect(c, s)
    \/ \E m \in Requests : Send(c, m)
    \/ Leave(c)

-----------------------------------------------------------------------------
(* The dispatcher thread: CServer::Dispatch, SConnListenerCb and           *)
(* CThreadManager::CreateConnection.                                       *)

\* SConnListenerCb finds the service of the listener; CreateConnection starts
\* from the first worker and its Size().
AcceptConn(s) ==
    /\ ~crashed
    /\ dpc = "loop" /\ backlog[s] # <<>>
    /\ backlog' = [backlog EXCEPT ![s] = Tail(@)]
    /\ hand' = [conn |-> Head(backlog[s]), svc |-> s, idx |-> 1,
                min |-> Size(Pool[s][1]), wt |-> Pool[s][1]]
    /\ dpc' = "scan"
    /\ UNCHANGED <<clientVars, handoffVars, workerVars, stopVars, crashed>>

\* if(min > (*iter)->Size()): the first of the two reads of a worker's size.
ScanCompare ==
    /\ ~crashed
    /\ dpc = "scan" /\ hand.idx <= Len(Pool[hand.svc])
    /\ IF hand.min > Size(Pool[hand.svc][hand.idx])
       THEN dpc' = "assign" /\ UNCHANGED hand
       ELSE dpc' = "scan" /\ hand' = [hand EXCEPT !.idx = @ + 1]
    /\ UNCHANGED <<clientVars, backlog, handoffVars, workerVars, stopVars, crashed>>

\* min = (*iter)->Size(): read again, perhaps after the worker changed it.
ScanAssign ==
    /\ ~crashed
    /\ dpc = "assign"
    /\ LET w == Pool[hand.svc][hand.idx]
       IN  hand' = [hand EXCEPT !.min = Size(w), !.wt = w, !.idx = @ + 1]
    /\ dpc' = "scan"
    /\ UNCHANGED <<clientVars, backlog, handoffVars, workerVars, stopVars, crashed>>

\* Fault: the list of descriptors is one slot.
AddSocketOverwrites ==
    /\ ~crashed
    /\ dpc = "scan" /\ hand.idx > Len(Pool[hand.svc])
    /\ fdList' = [fdList EXCEPT ![hand.wt] = <<hand.conn>>]
    /\ hand' = [hand EXCEPT !.conn = None]
    /\ dpc' = "notify"
    /\ UNCHANGED <<clientVars, backlog, tokens, workerVars, stopVars, crashed>>

\* wt->AddSocket(sock), under the worker's mutex.
AddSocket ==
    /\ ~crashed
    /\ dpc = "scan" /\ hand.idx > Len(Pool[hand.svc])
    /\ fdList' = [fdList EXCEPT ![hand.wt] = Append(@, hand.conn)]
    /\ hand' = [hand EXCEPT !.conn = None]
    /\ dpc' = "notify"
    /\ UNCHANGED <<clientVars, backlog, tokens, workerVars, stopVars, crashed>>

\* Fault: the write to the pipe never waits for room.
NotifyUnbounded ==
    /\ ~crashed
    /\ dpc = "notify"
    /\ tokens' = [tokens EXCEPT ![hand.wt] = @ + 1]
    /\ hand' = EmptyHand
    /\ dpc' = "loop"
    /\ UNCHANGED <<clientVars, backlog, fdList, workerVars, stopVars, crashed>>

\* Fault: no token when the worker already has a descriptor to attach.
NotifyOnlyFirst ==
    /\ ~crashed
    /\ dpc = "notify" /\ tokens[hand.wt] < PipeCap
    /\ tokens' = [tokens EXCEPT ![hand.wt] = IF Len(fdList[hand.wt]) = 1 THEN @ + 1 ELSE @]
    /\ hand' = EmptyHand
    /\ dpc' = "loop"
    /\ UNCHANGED <<clientVars, backlog, fdList, workerVars, stopVars, crashed>>

\* wt->Notify("connected"): the write blocks while the pipe is full.
Notify ==
    /\ ~crashed
    /\ dpc = "notify" /\ tokens[hand.wt] < PipeCap
    /\ tokens' = [tokens EXCEPT ![hand.wt] = @ + 1]
    /\ hand' = EmptyHand
    /\ dpc' = "loop"
    /\ UNCHANGED <<clientVars, backlog, fdList, workerVars, stopVars, crashed>>

\* The loop sees m_server_quit and frees the listeners.
DispatchExit ==
    /\ ~crashed
    /\ dpc = "loop" /\ quit
    /\ dpc' = "exited"
    /\ backlog' = [s \in Services |-> <<>>]
    /\ UNCHANGED <<clientVars, hand, handoffVars, workerVars, stopVars, crashed>>

CreateConnection == ScanCompare \/ ScanAssign \/ AddSocket \/ Notify

-----------------------------------------------------------------------------
(* A worker thread: CWorkThread::Run and the callbacks its loop makes.     *)

\* EventCB calls Activated, which first reads nine bytes of the pipe.
ReadToken(w) ==
    /\ ~crashed
    /\ wpc[w] = "idle" /\ tokens[w] > 0
    /\ tokens' = [tokens EXCEPT ![w] = @ - 1]
    /\ wpc' = [wpc EXCEPT ![w] = "token"]
    /\ UNCHANGED <<clientVars, dispatchVars, fdList, acceptors, serving, silent, outbox, bevs,
                   stale, lost, stopVars, crashed>>

\* Fault: front() without pop_front().
AttachWithoutPop(w) ==
    /\ ~crashed
    /\ wpc[w] = "token"
    /\ wpc' = [wpc EXCEPT ![w] = "idle"]
    /\ IF fdList[w] = <<>>
       THEN UNCHANGED <<acceptors, bevs>>
       ELSE /\ acceptors' = [acceptors EXCEPT ![w] = @ \union {Head(fdList[w])}]
            /\ bevs' = [bevs EXCEPT ![w] = @ \union {Head(fdList[w])}]
    /\ UNCHANGED <<clientVars, dispatchVars, fdList, tokens, serving, silent, outbox, stale, lost,
                   stopVars, crashed>>

\* Fault: the descriptor leaves the list only if CAcceptor::Init succeeds.
AttachPopsLate(w) ==
    /\ ~crashed
    /\ wpc[w] = "token"
    /\ wpc' = [wpc EXCEPT ![w] = "idle"]
    /\ \/ /\ fdList[w] # <<>>
          /\ fdList' = [fdList EXCEPT ![w] = Tail(@)]
          /\ acceptors' = [acceptors EXCEPT ![w] = @ \union {Head(fdList[w])}]
          /\ bevs' = [bevs EXCEPT ![w] = @ \union {Head(fdList[w])}]
       \/ /\ fdList[w] = <<>> \/ "acceptor" \in MayFail
          /\ UNCHANGED <<fdList, acceptors, bevs>>
    /\ UNCHANGED <<clientVars, dispatchVars, tokens, serving, silent, outbox, stale, lost, stopVars, crashed>>

\* The rest of Activated, under m_mtx: the oldest descriptor gets its CAcceptor.  If
\* CAcceptor::Init fails nobody owns the descriptor any more.
Attach(w) ==
    /\ ~crashed
    /\ wpc[w] = "token"
    /\ wpc' = [wpc EXCEPT ![w] = "idle"]
    /\ IF fdList[w] = <<>>
       THEN UNCHANGED <<fdList, acceptors, bevs, lost>>
       ELSE /\ fdList' = [fdList EXCEPT ![w] = Tail(@)]
            /\ \/ /\ acceptors' = [acceptors EXCEPT ![w] = @ \union {Head(fdList[w])}]
                  /\ bevs' = [bevs EXCEPT ![w] = @ \union {Head(fdList[w])}]
                  /\ UNCHANGED lost
               \/ /\ "acceptor" \in MayFail
                  /\ lost' = lost \union {Head(fdList[w])}
                  /\ UNCHANGED <<acceptors, bevs>>
    /\ UNCHANGED <<clientVars, dispatchVars, tokens, serving, silent, outbox, stale, stopVars, crashed>>

\* A read that begins at a request m, of which it takes the whole or a part, and all it
\* takes is that (alone) or more: whether strncmp finds "get" and a NUL in the buffer.
\* The letters of a part, or of a rest, are open.
ReadAs(m, whole, alone) ==
    IF whole /\ m # "rest" THEN {m = "get" \/ (m = "bare" /\ alone)} ELSE BOOLEAN

\* The callback answers a read of client c at once, or produces a "get" before it returns.
Answer(w, c, isGet) ==
    \/ /\ isGet
       /\ wpc' = [wpc EXCEPT ![w] = "produce"]
       /\ serving' = [serving EXCEPT ![w] = c]
       /\ UNCHANGED outbox
    \/ /\ ~isGet
       /\ outbox' = [outbox EXCEPT ![c] = @ + 1]
       /\ UNCHANGED <<wpc, serving>>

\* Fault: the requests are looked at but stay in the input buffer.
ReadCBPeeks(w, c) ==
    /\ ~crashed
    /\ wpc[w] = "idle" /\ c \in acceptors[w] /\ inbox[c] # <<>>
    /\ Answer(w, c, FALSE)
    /\ UNCHANGED <<clientVars, dispatchVars, handoffVars, acceptors, silent, bevs, stale, lost,
                   stopVars, crashed>>

\* CAcceptor::ReadCB: one bufferevent_read takes what has arrived of the stream of bytes,
\* 1024 of them at most, and looks at its beginning: n whole requests and, if it ends
\* inside the next one (cut), a part of that.
ReadCB(w, c) ==
    /\ ~crashed
    /\ wpc[w] = "idle" /\ c \in acceptors[w] /\ inbox[c] # <<>>
    /\ \E n \in 0..Len(inbox[c]) :
         \/ /\ n > 0
            /\ inbox' = [inbox EXCEPT ![c] = SubSeq(@, n + 1, Len(@))]
            /\ UNCHANGED cuts
            /\ \E isGet \in ReadAs(Head(inbox[c]), TRUE, n = 1) : Answer(w, c, isGet)
         \/ /\ n < Len(inbox[c]) /\ cuts[c] < MaxCuts[c]
            /\ inbox' = [inbox EXCEPT ![c] = <<"rest">> \o SubSeq(@, n + 2, Len(@))]
            /\ cuts' = [cuts EXCEPT ![c] = @ + 1]
            /\ \E isGet \in ReadAs(Head(inbox[c]), n > 0, FALSE) : Answer(w, c, isGet)
    /\ UNCHANGED <<link, sent, got, dispatchVars, handoffVars, acceptors, silent, bevs, stale, lost,
                   stopVars, crashed>>

\* Fault: the interface threads are started and not given the bufferevent.
FinishProduceSilently(w) ==
    /\ ~crashed
    /\ wpc[w] = "produce"
    /\ wpc' = [wpc EXCEPT ![w] = "idle"]
    /\ serving' = [serving EXCEPT ![w] = None]
    /\ UNCHANGED <<clientVars, dispatchVars, handoffVars, acceptors, silent, outbox, bevs, stale, lost,
                   stopVars, crashed>>

\* parser->ProduceData has joined its interface threads; all they wrote is in the output
\* buffer, because the loop that empties it did not run.
FinishProduce(w) ==
    /\ ~crashed
    /\ wpc[w] = "produce"
    /\ outbox' = [outbox EXCEPT ![serving[w]] = @ + 1]
    /\ wpc' = [wpc EXCEPT ![w] = "idle"]
    /\ serving' = [serving EXCEPT ![w] = None]
    /\ UNCHANGED <<clientVars, dispatchVars, handoffVars, acceptors, silent, bevs, stale, lost,
                   stopVars, crashed>>

\* ReadCB returns without a word: the model file is missing or refused, or what was parsed
\* of it has no interface that would write.
ProduceNothing(w) ==
    /\ ~crashed /\ "parser" \in MayFail
    /\ wpc[w] = "produce"
    /\ silent' = silent \union {serving[w]}
    /\ wpc' = [wpc EXCEPT ![w] = "idle"]
    /\ serving' = [serving EXCEPT ![w] = None]
    /\ UNCHANGED <<clientVars, dispatchVars, handoffVars, acceptors, outbox, bevs, stale, lost,
                   stopVars, crashed>>

\* The parser, a column or a table ends the whole process in the midst of the production.
ProduceDies(w) ==
    /\ ~crashed /\ "crash" \in MayFail
    /\ wpc[w] = "produce"
    /\ wpc' = [wpc EXCEPT ![w] = "died"]
    /\ crashed' = TRUE
    /\ UNCHANGED <<clientVars, dispatchVars, handoffVars, acceptors, serving, silent, outbox, bevs,
                   stale, lost, stopVars>>

\* The tables of the template never finish: the join of the interface threads has no end.
ProduceHangs(w) ==
    /\ ~crashed /\ "hang" \in MayFail
    /\ wpc[w] = "produce"
    /\ wpc' = [wpc EXCEPT ![w] = "hung"]
    /\ UNCHANGED <<clientVars, dispatchVars, handoffVars, acceptors, serving, silent, outbox, bevs,
                   stale, lost, stopVars, crashed>>

ProduceFails(w) == ProduceNothing(w) \/ ProduceDies(w) \/ ProduceHangs(w)

\* The loop writes a buffered reply to a client that reads it.
Flush(w, c) ==
    /\ ~crashed
    /\ wpc[w] = "idle" /\ c \in acceptors[w] /\ outbox[c] > 0 /\ link[c] = "on"
    /\ outbox' = [outbox EXCEPT ![c] = @ - 1]
    /\ got' = [got EXCEPT ![c] = @ + 1]
    /\ UNCHANGED <<link, sent, inbox, cuts, dispatchVars, handoffVars, acceptors, wpc, serving, silent, bevs,
                   stale, lost, stopVars, crashed>>

\* Fault: every event of the bufferevents stays armed.
DisconnectionAllArmed(w, c, armed) ==
    /\ acceptors' = [acceptors EXCEPT ![w] = @ \ {c}]
    /\ stale' = [stale EXCEPT ![w] = @ \union {c}]

\* CAcceptor::EventCB calls Disconnection, under m_mtx: the descriptor is closed and the
\* acceptor deleted.  The bufferevents stay allocated, with the deleted acceptor as their
\* argument; an event still armed on them may fire later.
Disconnection(w, c, armed) ==
    /\ acceptors' = [acceptors EXCEPT ![w] = @ \ {c}]
    /\ stale' = [stale EXCEPT ![w] = IF armed THEN @ \union {c} ELSE @]

\* End of file, or an error, when the loop reads: what arrived before it has been read.
\* A write stays armed if output is buffered.
ReadEnd(w, c) ==
    /\ ~crashed
    /\ wpc[w] = "idle" /\ c \in acceptors[w] /\ link[c] = "gone" /\ inbox[c] = <<>>
    /\ Disconnection(w, c, outbox[c] > 0)
    /\ UNCHANGED <<clientVars, dispatchVars, handoffVars, wpc, serving, silent, outbox, bevs, lost,
                   stopVars, crashed>>

\* The loop writes to a client that has gone: the reply vanishes, or the write fails and
\* EventCB runs with the read still armed, or it raises SIGPIPE, which nobody ignores.
WriteToGone(w, c) ==
    /\ ~crashed
    /\ wpc[w] = "idle" /\ c \in acceptors[w] /\ link[c] = "gone" /\ outbox[c] > 0
    /\ \/ outbox' = [outbox EXCEPT ![c] = @ - 1] /\ UNCHANGED <<acceptors, stale, crashed>>
       \/ Disconnection(w, c, TRUE) /\ UNCHANGED <<outbox, crashed>>
       \/ crashed' = TRUE /\ UNCHANGED <<acceptors, stale, outbox>>
    /\ UNCHANGED <<clientVars, dispatchVars, handoffVars, wpc, serving, silent, bevs, lost, stopVars>>

\* An event of a deleted acceptor fires: EventCB follows a freed pointer, and the process
\* may or may not survive that.
LateEvent(w, c) ==
    /\ ~crashed
    /\ wpc[w] = "idle" /\ c \in stale[w]
    /\ stale' = [stale EXCEPT ![w] = @ \ {c}]
    /\ crashed' \in BOOLEAN
    /\ UNCHANGED <<clientVars, dispatchVars, handoffVars, acceptors, wpc, serving, silent, outbox, bevs,
                   lost, stopVars>>

\* Run sees m_is_stop: it leaves the loop and frees the base with all its events.
WorkerExit(w) ==
    /\ ~crashed
    /\ wpc[w] = "idle" /\ isStop[w]
    /\ wpc' = [wpc EXCEPT ![w] = "exited"]
    /\ stale' = [stale EXCEPT ![w] = {}]
    /\ UNCHANGED <<clientVars, dispatchVars, handoffVars, acceptors, serving, silent, outbox, bevs, lost,
                   stopVars, crashed>>

Worker(w) ==
    \/ ReadToken(w) \/ Attach(w) \/ FinishProduce(w) \/ ProduceFails(w) \/ WorkerExit(w)
    \/ \E c \in Conns :
         ReadCB(w, c) \/ Flush(w, c) \/ ReadEnd(w, c) \/ WriteToGone(w, c) \/ LateEvent(w, c)

-----------------------------------------------------------------------------
(* CServer::Stop and CThreadManager::ExitSafety, run by the main thread.   *)

StopWorkers == Pool[StopOrder[stopAt[1]]]

\* The worker Stop has reached.
Stopping == StopWorkers[stopAt[2]]

\* m_server_quit = true, then wait for the dispatcher.
Stop ==
    /\ ~crashed
    /\ MayStop /\ mpc = "run"
    /\ quit' = TRUE
    /\ mpc' = "joinDispatch"
    /\ UNCHANGED <<clientVars, dispatchVars, handoffVars, workerVars, isStop, stopAt, crashed>>

\* Fault: Stop does not wait for the dispatcher thread.
JoinNobody ==
    /\ ~crashed
    /\ mpc = "joinDispatch"
    /\ mpc' = "exitSafety"
    /\ UNCHANGED <<clientVars, dispatchVars, handoffVars, workerVars, quit, isStop, stopAt, crashed>>

JoinDispatch ==
    /\ ~crashed
    /\ mpc = "joinDispatch" /\ dpc = "exited"
    /\ mpc' = "exitSafety"
    /\ UNCHANGED <<clientVars, dispatchVars, handoffVars, workerVars, quit, isStop, stopAt, crashed>>

\* Fault: the worker is joined and was never told to stop.
StopWorkerUntold ==
    /\ ~crashed
    /\ mpc = "exitSafety"
    /\ mpc' = "joinWorker"
    /\ UNCHANGED <<clientVars, dispatchVars, handoffVars, workerVars, quit, isStop, stopAt, crashed>>

\* CWorkThread::Stop sets m_is_stop of the front worker, then joins it.
StopWorker ==
    /\ ~crashed
    /\ mpc = "exitSafety"
    /\ isStop' = [isStop EXCEPT ![Stopping] = TRUE]
    /\ mpc' = "joinWorker"
    /\ UNCHANGED <<clientVars, dispatchVars, handoffVars, workerVars, quit, stopAt, crashed>>

\* The worker is deleted: its acceptors too, while its pending descriptors are forgotten.
\* Its destructor uses an event whose base is freed, and after the last worker of a
\* manager Stop increments the iterator it has just erased: either may end the process.
DeleteWorker ==
    /\ ~crashed
    /\ mpc = "joinWorker" /\ wpc[Stopping] = "exited"
    /\ wpc' = [wpc EXCEPT ![Stopping] = "deleted"]
    /\ acceptors' = [acceptors EXCEPT ![Stopping] = {}]
    /\ lost' = lost \union {fdList[Stopping][i] : i \in 1..Len(fdList[Stopping])}
    /\ fdList' = [fdList EXCEPT ![Stopping] = <<>>]
    /\ \/ /\ stopAt[2] < Len(StopWorkers)
          /\ stopAt' = <<stopAt[1], stopAt[2] + 1>> /\ mpc' = "exitSafety"
       \/ /\ stopAt[2] = Len(StopWorkers) /\ stopAt[1] < Len(StopOrder)
          /\ stopAt' = <<stopAt[1] + 1, 1>> /\ mpc' = "exitSafety"
       \/ /\ stopAt[2] = Len(StopWorkers) /\ stopAt[1] = Len(StopOrder)
          /\ mpc' = "done" /\ UNCHANGED stopAt
    /\ crashed' \in BOOLEAN
    /\ UNCHANGED <<clientVars, dispatchVars, tokens, serving, silent, outbox, bevs, stale, quit, isStop>>

Main == Stop \/ JoinDispatch \/ StopWorker \/ DeleteWorker

-----------------------------------------------------------------------------
Next ==
    \/ \E c \in Conns : Client(c)
    \/ \E s \in Services : AcceptConn(s)
    \/ CreateConnection
    \/ DispatchExit
    \/ \E w \in Workers : Worker(w)
    \/ Main

\* Both kinds of event loop run EVLOOP_NONBLOCK in a while loop with a short sleep, and
\* every pass calls back each active event; no thread ever waits on another but for the
\* short critical sections and, in Notify, the worker that empties the pipe.  A production
\* goes on to an end of some kind unless it hangs.  Nothing makes a client act, a call
\* fail or Stop be called.
Fairness ==
    /\ \A s \in Services : WF_vars(AcceptConn(s))
    /\ WF_vars(CreateConnection) /\ WF_vars(DispatchExit)
    /\ \A w \in Workers :
         /\ WF_vars(ReadToken(w) \/ Attach(w) \/ FinishProduce(w)) /\ WF_vars(WorkerExit(w))
         /\ \A c \in Conns : WF_vars(ReadCB(w, c) \/ Flush(w, c) \/ ReadEnd(w, c))
    /\ WF_vars(JoinDispatch \/ StopWorker \/ DeleteWorker)

Spec == Init /\ [][Next]_vars

FairSpec == Spec /\ Fairness

-----------------------------------------------------------------------------
(* Where a connection is, and the refinement of the life cycle.            *)

\* c is in one of the queues q[d].
Queued(q, D, c) == \E d \in D : \E i \in 1..Len(q[d]) : q[d][i] = c

InBacklog(c) == Queued(backlog, Services, c)
IsPending(c) == Queued(fdList, Workers, c)
Served(c) == \E w \in Workers : c \in acceptors[w]

PhaseOf(c) ==
    IF link[c] = "off" THEN "none"
    ELSE IF InBacklog(c) THEN "queued"
    ELSE IF hand.conn = c \/ IsPending(c) THEN "accepted"
    ELSE IF Served(c) THEN "serving"
    ELSE IF c \in lost THEN "lost"
    ELSE "closed"

Lifecycle == INSTANCE ConnLifecycle WITH phase <- [c \in Conns |-> PhaseOf(c)]

(* Every step of the server is a step of the life of connections, one at a *)
(* time: queued by the kernel, accepted by the dispatcher, served by one   *)
(* worker and then closed; and only a failing acceptor, the end of the     *)
(* listeners or the end of a worker loses one.                             *)
LifecycleRefined == Lifecycle!LifecycleSpec

-----------------------------------------------------------------------------
(* Properties.                                                             *)

ClientTypes ==
    /\ link \in [Conns -> {"off", "on", "gone"}]
    /\ sent \in [Conns -> Nat]
    /\ inbox \in [Conns -> Seq(Unread)]
    /\ cuts \in [Conns -> Nat]
    /\ got \in [Conns -> Nat]

DispatchTypes ==
    /\ backlog \in [Services -> Seq(Conns)]
    /\ dpc \in {"loop", "scan", "assign", "notify", "exited"}
    /\ hand \in [conn : Conns \union {None}, svc : Services \union {None},
                 idx : Nat, min : Nat, wt : Workers \union {None}]

HandoffTypes ==
    /\ fdList \in [Workers -> Seq(Conns)]
    /\ tokens \in [Workers -> 0..PipeCap]

WorkerTypes ==
    /\ acceptors \in [Workers -> SUBSET Conns]
    /\ wpc \in [Workers -> {"idle", "token", "produce", "died", "hung", "exited", "deleted"}]
    /\ silent \subseteq Conns \union {None}
    /\ serving \in [Workers -> Conns \union {None}]
    /\ outbox \in [Conns -> Nat]
    /\ bevs \in [Workers -> SUBSET Conns]
    /\ stale \in [Workers -> SUBSET Conns]
    /\ lost \subseteq Conns

StopTypes ==
    /\ quit \in BOOLEAN
    /\ isStop \in [Workers -> BOOLEAN]
    /\ mpc \in {"run", "joinDispatch", "exitSafety", "joinWorker", "done"}
    /\ stopAt[1] \in 1..Len(StopOrder) /\ stopAt[2] \in Nat \ {0}

(* The variables keep their types; in particular no worker's pipe holds    *)
(* more tokens than it has room for.                                       *)
TypeOK == ClientTypes /\ DispatchTypes /\ HandoffTypes /\ WorkerTypes /\ StopTypes /\ crashed \in BOOLEAN

Holding(b) == IF b THEN 1 ELSE 0

(* No accepted socket is stranded: the tokens a worker has yet to act on,  *)
(* with the one it has read and the one the dispatcher is about to write,  *)
(* are exactly as many as the descriptors in its list.  (CreateConnection  *)
(* adds the socket before it notifies; Activated takes one per token.)     *)
TokenPerPendingFd ==
    \A w \in Workers : wpc[w] # "deleted" =>
        Len(fdList[w]) = tokens[w] + Holding(wpc[w] = "token")
                                   + Holding(dpc = "notify" /\ hand.wt = w)

\* Nothing is twice in the queues q[d].
NoRepeats(q, D) ==
    \A d, e \in D : \A i \in 1..Len(q[d]), j \in 1..Len(q[e]) :
        q[d][i] = q[e][j] => d = e /\ i = j

AcceptorsDisjoint ==
    \A v, w \in Workers : \A c \in Conns : c \in acceptors[v] /\ c \in acceptors[w] => v = w

PlacesDisjoint ==
    \A c \in Conns :
        /\ InBacklog(c) => hand.conn # c /\ ~IsPending(c) /\ ~Served(c)
        /\ hand.conn = c => ~IsPending(c) /\ ~Served(c)
        /\ IsPending(c) => ~Served(c)

(* The comment of ThreadManager.cc:55-56, "m_acceptor_list <-- 1:1 -->     *)
(* client": a connection is in one place only, among all the backlogs, the *)
(* dispatcher's hand, the workers' descriptor lists and acceptor lists.    *)
OnePlace ==
    /\ NoRepeats(backlog, Services) /\ NoRepeats(fdList, Workers)
    /\ AcceptorsDisjoint /\ PlacesDisjoint

(* Stop joins the dispatcher before it stops the workers, so a connection  *)
(* the dispatcher has accepted is never given to a worker that has been    *)
(* told to stop, whose loop may be over.                                   *)
NoHandoffToStoppedWorker ==
    (hand.wt # None \/ \E s \in Services : backlog[s] # <<>>) => \A w \in Workers : ~isStop[w]

(* What the dispatcher's locals hold at each place of its loop.            *)
HandOK ==
    /\ dpc \in {"loop", "exited"} => hand = EmptyHand
    /\ dpc \in {"scan", "assign"} =>
         /\ hand.conn \in Conns /\ hand.svc \in Services /\ hand.wt \in Workers
         /\ hand.idx \in Nat \ {0}
    /\ dpc = "assign" => hand.idx <= Len(Pool[hand.svc])
    /\ dpc = "notify" => hand.conn = None /\ hand.wt \in Workers

(* How far Stop has got: no worker is told to stop, let alone deleted,     *)
(* before the dispatcher has ended and its queues are empty.               *)
StopOK ==
    /\ mpc \in {"exitSafety", "joinWorker", "done"} => dpc = "exited"
    /\ dpc = "exited" => \A s \in Services : backlog[s] = <<>>
    /\ \A w \in Workers : isStop[w] => dpc = "exited"

(* A connection not opened yet, or lost, is nowhere in the service.        *)
NowhereOK ==
    \A c \in Conns :
        /\ link[c] = "off" => c \notin lost
        /\ link[c] = "off" \/ c \in lost =>
             ~InBacklog(c) /\ hand.conn # c /\ ~IsPending(c) /\ ~Served(c)

(* The inductive invariant: what the handoff and Stop rely on together.    *)
HandoffInv ==
    TypeOK /\ HandOK /\ StopOK /\ NowhereOK /\ TokenPerPendingFd /\ OnePlace

(* A client gets one reply for a request at most, and one more each time a *)
(* read ended inside a request of its: a callback answers what it read     *)
(* once, however many requests that was, and takes it off the stream.      *)
NoUnaskedReply ==
    \A c \in Conns :
        got[c] + outbox[c] + Len(inbox[c]) + Cardinality({w \in Workers : serving[w] = c})
            <= sent[c] + cuts[c]

(* A running service that does not die in the midst of a production dies   *)
(* only if a client left while a reply was waiting for it: the write       *)
(* raises SIGPIPE, or a callback of EventCB later meets the deleted        *)
(* acceptor.  Clients that leave with nothing outstanding, and any         *)
(* interleaving of the other steps, can't bring it down.                   *)
KnownDeaths ==
    crashed /\ mpc \in {"run", "joinDispatch"} =>
        \/ \E w \in Workers : wpc[w] = "died"
        \/ \E c \in Conns : link[c] = "gone" /\ outbox[c] > 0

\* A worker whose production never ends holds up client c: it has the client, or its full
\* pipe blocks the dispatcher of all the services.
HeldUp(c) ==
    \E w \in Workers :
        /\ wpc[w] = "hung"
        /\ \/ c \in acceptors[w]
           \/ \E i \in 1..Len(fdList[w]) : fdList[w][i] = c
           \/ dpc = "notify" /\ hand.wt = w /\ tokens[w] = PipeCap

(* Every client that connects gets its acceptor, unless the server is told *)
(* to stop or dies: the dispatcher can be blocked by a full pipe and the   *)
(* worker can be busy with a "get", but neither for ever, except where the *)
(* production of a "get" never ends; and that holds up only the clients of *)
(* its worker until the pipe of this one is full.                          *)
EveryClientServed ==
    \A c \in Conns :
        PhaseOf(c) = "queued" ~>
            (PhaseOf(c) \in {"serving", "closed", "lost"} \/ HeldUp(c) \/ quit \/ crashed)

(* A client that has sent a request and stays gets a reply, unless its     *)
(* acceptor failed, a get of its ended in silence, or the production of    *)
(* one never ends.                                                         *)
RequestAnswered ==
    \A c \in Conns :
        sent[c] > 0 ~> \/ got[c] > 0 \/ link[c] = "gone"
                       \/ c \in lost \/ c \in silent \/ HeldUp(c)
                       \/ quit \/ crashed

(* Stop ends: it can't deadlock with a dispatcher blocked on a full pipe   *)
(* or a worker in the middle of a "get", unless that never ends.           *)
StopEnds == quit ~> (mpc = "done" \/ crashed \/ \E w \in Workers : wpc[w] = "hung")

=============================================================================
