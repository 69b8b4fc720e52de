------------------------- MODULE StreamServerProofs -------------------------
(***************************************************************************)
(* Theorems about StreamServer, for every number of clients, services,     *)
(* workers, requests and pipe slots.                                       *)
(***************************************************************************)
EXTENDS StreamServer, FiniteSetTheorems, TLAPS

(* Size() is a number: a worker has finitely many clients.                 *)
LEMMA SizeIsNat ==
    ASSUME WorkerTypes, NEW w \in Workers
    PROVE  Size(w) \in Nat
<1>1. acceptors[w] \subseteq Conns
  BY DEF WorkerTypes
<1>2. IsFiniteSet(acceptors[w])
  BY <1>1, ConnsFinite, FS_Subset
<1>. QED
  BY <1>2, FS_CardinalityType DEF Size

LEMMA PoolMember ==
    ASSUME NEW s \in Services, NEW i \in 1..Len(Pool[s])
    PROVE  Pool[s][i] \in Workers
BY ConstantsAssumption

LEMMA FirstOfPool ==
    ASSUME NEW s \in Services
    PROVE  1 \in 1..Len(Pool[s]) /\ Pool[s][1] \in Workers
BY ConstantsAssumption

(* The worker that Stop deletes is one of a pool.                          *)
LEMMA StoppingIsWorker ==
    ASSUME StopTypes, DeleteWorker
    PROVE  Stopping \in Workers
<1>1. StopOrder[stopAt[1]] \in Services
  BY ConstantsAssumption DEF StopTypes
<1>2. Len(StopWorkers) \in Nat
  BY <1>1, ConstantsAssumption DEF StopWorkers
<1>3. stopAt[2] \in 1..Len(StopWorkers)
  BY <1>2 DEF DeleteWorker, StopTypes
<1>. QED
  BY <1>1, <1>3, PoolMember DEF Stopping, StopWorkers

-----------------------------------------------------------------------------
(* Types.                                                                  *)

LEMMA InitTypes == Init => TypeOK /\ HandOK
<1>. SUFFICES ASSUME Init PROVE TypeOK /\ HandOK
  OBVIOUS
<1>1. HandOK
  BY DEF Init, HandOK
<1>2. ClientTypes
  BY DEF Init, ClientTypes
<1>3. DispatchTypes
  BY DEF Init, DispatchTypes, EmptyHand
<1>4. HandoffTypes
  BY ConstantsAssumption DEF Init, HandoffTypes
<1>5. WorkerTypes
  BY DEF Init, WorkerTypes
<1>6. StopTypes
  <2>1. 1 \in 1..Len(StopOrder)
    BY ConstantsAssumption
  <2>2. stopAt[1] = 1 /\ stopAt[2] = 1
    BY DEF Init
  <2>. QED
    <3>1. isStop \in [Workers -> BOOLEAN] /\ quit \in BOOLEAN
      BY DEF Init
    <3>. QED
      BY <2>1, <2>2, <3>1 DEF Init, StopTypes
<1>. QED
  BY <1>1, <1>2, <1>3, <1>4, <1>5, <1>6 DEF Init, TypeOK

(* A group of variables a step leaves alone keeps its types.               *)
LEMMA SameClientTypes == ClientTypes /\ UNCHANGED clientVars => ClientTypes'
BY DEF ClientTypes, clientVars

LEMMA SameDispatchTypes ==
    DispatchTypes /\ HandOK /\ UNCHANGED dispatchVars => DispatchTypes' /\ HandOK'
BY DEF DispatchTypes, HandOK, dispatchVars

LEMMA SameHandoffTypes == HandoffTypes /\ UNCHANGED handoffVars => HandoffTypes'
BY DEF HandoffTypes, handoffVars

LEMMA SameWorkerTypes == WorkerTypes /\ UNCHANGED workerVars => WorkerTypes'
BY DEF WorkerTypes, workerVars

LEMMA SameStopTypes == StopTypes /\ UNCHANGED stopVars => StopTypes'
BY DEF StopTypes, stopVars

LEMMA ClientStepTypes ==
    ASSUME TypeOK, HandOK, NEW c \in Conns, Client(c)
    PROVE  TypeOK' /\ HandOK'
<1>1. ASSUME NEW s \in Services, Connect(c, s) PROVE TypeOK' /\ HandOK'
  <2>1. ClientTypes'
    BY <1>1 DEF Connect, TypeOK, ClientTypes
  <2>2. DispatchTypes' /\ HandOK'
    BY <1>1 DEF Connect, TypeOK, DispatchTypes, HandOK
  <2>. QED
    BY <1>1, <2>1, <2>2, SameHandoffTypes, SameWorkerTypes, SameStopTypes DEF Connect, TypeOK
<1>2. ASSUME NEW m \in Requests, Send(c, m) PROVE TypeOK' /\ HandOK'
  <2>1. ClientTypes'
    <3>1. m \in Unread
      BY DEF Unread
    <3>. QED
      BY <1>2, <3>1 DEF Send, TypeOK, ClientTypes
  <2>. QED
    BY <1>2, <2>1, SameDispatchTypes, SameHandoffTypes, SameWorkerTypes, SameStopTypes
    DEF Send, TypeOK
<1>3. CASE Leave(c)
  <2>1. ClientTypes'
    BY <1>3 DEF Leave, TypeOK, ClientTypes
  <2>. QED
    BY <1>3, <2>1, SameDispatchTypes, SameHandoffTypes, SameWorkerTypes, SameStopTypes
    DEF Leave, TypeOK
<1>. QED
  BY <1>1, <1>2, <1>3 DEF Client

LEMMA DispatchStepTypes ==
    ASSUME TypeOK, HandOK,
           (\E s \in Services : AcceptConn(s)) \/ CreateConnection \/ DispatchExit
    PROVE  TypeOK' /\ HandOK'
<1>1. ASSUME NEW s \in Services, AcceptConn(s) PROVE TypeOK' /\ HandOK'
  <2>1. Size(Pool[s][1]) \in Nat
    BY FirstOfPool, SizeIsNat DEF TypeOK
  <2>2. Head(backlog[s]) \in Conns /\ Tail(backlog[s]) \in Seq(Conns)
    BY <1>1 DEF AcceptConn, TypeOK, DispatchTypes
  <2>3. DispatchTypes' /\ HandOK'
    BY <1>1, <2>1, <2>2, FirstOfPool DEF AcceptConn, TypeOK, DispatchTypes, HandOK
  <2>. QED
    BY <1>1, <2>3, SameClientTypes, SameHandoffTypes, SameWorkerTypes, SameStopTypes
    DEF AcceptConn, TypeOK
<1>2. CASE ScanCompare
  <2>1. DispatchTypes' /\ HandOK'
    <3>1. CASE UNCHANGED hand /\ dpc' = "assign"
      BY <1>2, <3>1 DEF ScanCompare, TypeOK, DispatchTypes, HandOK
    <3>2. CASE hand' = [hand EXCEPT !.idx = @ + 1] /\ dpc' = "scan"
      <4>1. hand.idx + 1 \in Nat \ {0}
        BY DEF TypeOK, DispatchTypes
      <4>2. DispatchTypes'
        BY <1>2, <3>2, <4>1 DEF ScanCompare, TypeOK, DispatchTypes
      <4>3. hand'.conn = hand.conn /\ hand'.svc = hand.svc /\ hand'.wt = hand.wt
            /\ hand'.idx = hand.idx + 1
        BY <3>2 DEF TypeOK, DispatchTypes
      <4>. QED
        BY <1>2, <3>2, <4>1, <4>2, <4>3 DEF ScanCompare, HandOK
    <3>. QED
      BY <1>2, <3>1, <3>2 DEF ScanCompare
  <2>. QED
    BY <1>2, <2>1, SameClientTypes, SameHandoffTypes, SameWorkerTypes, SameStopTypes
    DEF ScanCompare, TypeOK
<1>3. CASE ScanAssign
  <2>1. Pool[hand.svc][hand.idx] \in Workers
    BY <1>3, PoolMember DEF ScanAssign, HandOK
  <2>2. Size(Pool[hand.svc][hand.idx]) \in Nat
    BY <2>1, SizeIsNat DEF TypeOK
  <2>3. hand' = [hand EXCEPT !.min = Size(Pool[hand.svc][hand.idx]),
                            !.wt = Pool[hand.svc][hand.idx], !.idx = @ + 1]
    BY <1>3 DEF ScanAssign
  <2>4. DispatchTypes'
    <3>1. hand.idx + 1 \in Nat
      BY DEF TypeOK, DispatchTypes
    <3>2. hand' \in [conn : Conns \union {None}, svc : Services \union {None},
                     idx : Nat, min : Nat, wt : Workers \union {None}]
      BY <2>1, <2>2, <2>3, <3>1 DEF TypeOK, DispatchTypes
    <3>. QED
      BY <1>3, <3>2 DEF ScanAssign, TypeOK, DispatchTypes
  <2>5. HandOK'
    BY <1>3, <2>1, <2>3 DEF ScanAssign, TypeOK, DispatchTypes, HandOK
  <2>. QED
    BY <1>3, <2>4, <2>5, SameClientTypes, SameHandoffTypes, SameWorkerTypes, SameStopTypes
    DEF ScanAssign, TypeOK
<1>4. CASE AddSocket
  <2>1. DispatchTypes' /\ HandOK'
    BY <1>4 DEF AddSocket, TypeOK, DispatchTypes, HandOK
  <2>2. HandoffTypes'
    BY <1>4 DEF AddSocket, TypeOK, HandoffTypes, HandOK
  <2>. QED
    BY <1>4, <2>1, <2>2, SameClientTypes, SameWorkerTypes, SameStopTypes DEF AddSocket, TypeOK
<1>5. CASE Notify
  <2>1. DispatchTypes' /\ HandOK'
    BY <1>5 DEF Notify, TypeOK, DispatchTypes, HandOK, EmptyHand
  <2>2. HandoffTypes'
    <3>1. tokens[hand.wt] + 1 \in 0..PipeCap
      <4>1. hand.wt \in Workers
        BY <1>5 DEF Notify, HandOK
      <4>2. tokens[hand.wt] \in 0..PipeCap /\ tokens[hand.wt] < PipeCap
        BY <1>5, <4>1 DEF Notify, TypeOK, HandoffTypes
      <4>. QED
        BY <4>2, ConstantsAssumption
    <3>. QED
      BY <1>5, <3>1 DEF Notify, TypeOK, HandoffTypes
  <2>. QED
    BY <1>5, <2>1, <2>2, SameClientTypes, SameWorkerTypes, SameStopTypes DEF Notify, TypeOK
<1>6. CASE DispatchExit
  <2>1. DispatchTypes' /\ HandOK'
    BY <1>6 DEF DispatchExit, TypeOK, DispatchTypes, HandOK
  <2>. QED
    BY <1>6, <2>1, SameClientTypes, SameHandoffTypes, SameWorkerTypes, SameStopTypes
    DEF DispatchExit, TypeOK
<1>. QED
  BY <1>1, <1>2, <1>3, <1>4, <1>5, <1>6 DEF CreateConnection

(* What a read that takes n requests, or n and a part, leaves unread.      *)
LEMMA ReadRests ==
    ASSUME NEW s \in Seq(Unread), NEW n \in 0..Len(s)
    PROVE  /\ SubSeq(s, n + 1, Len(s)) \in Seq(Unread)
           /\ Len(SubSeq(s, n + 1, Len(s))) = Len(s) - n
           /\ n < Len(s) => /\ <<"rest">> \o SubSeq(s, n + 2, Len(s)) \in Seq(Unread)
                            /\ Len(<<"rest">> \o SubSeq(s, n + 2, Len(s))) = Len(s) - n
<1>1. Len(s) \in Nat /\ n + 1 \in Nat \ {0} /\ n + 2 \in Nat \ {0}
  OBVIOUS
<1>2. SubSeq(s, n + 1, Len(s)) \in Seq(Unread) /\ Len(SubSeq(s, n + 1, Len(s))) = Len(s) - n
  BY <1>1
<1>3. ASSUME n < Len(s)
      PROVE  /\ SubSeq(s, n + 2, Len(s)) \in Seq(Unread)
             /\ Len(SubSeq(s, n + 2, Len(s))) = Len(s) - n - 1
  BY <1>1, <1>3
<1>4. <<"rest">> \in Seq(Unread) /\ Len(<<"rest">>) = 1
  BY DEF Unread
<1>. QED
  BY <1>1, <1>2, <1>3, <1>4

LEMMA ReadIsAnswered ==
    ASSUME NEW w \in Workers, NEW c \in Conns, ReadCB(w, c)
    PROVE  \E isGet \in BOOLEAN : Answer(w, c, isGet)
<1>1. PICK n \in 0..Len(inbox[c]) :
         \/ \E isGet \in ReadAs(Head(inbox[c]), TRUE, n = 1) : Answer(w, c, isGet)
         \/ \E isGet \in ReadAs(Head(inbox[c]), n > 0, FALSE) : Answer(w, c, isGet)
  BY DEF ReadCB
<1>2. ReadAs(Head(inbox[c]), TRUE, n = 1) \subseteq BOOLEAN
  BY DEF ReadAs
<1>3. ReadAs(Head(inbox[c]), n > 0, FALSE) \subseteq BOOLEAN
  BY DEF ReadAs
<1>. QED
  BY <1>1, <1>2, <1>3

LEMMA WorkerStepTypes ==
    ASSUME TypeOK, HandOK, NEW w \in Workers, Worker(w)
    PROVE  TypeOK' /\ HandOK'
<1>1. CASE ReadToken(w)
  <2>1. HandoffTypes'
    BY <1>1, ConstantsAssumption DEF ReadToken, TypeOK, HandoffTypes
  <2>2. WorkerTypes'
    BY <1>1 DEF ReadToken, TypeOK, WorkerTypes
  <2>. QED
    BY <1>1, <2>1, <2>2, SameClientTypes, SameDispatchTypes, SameStopTypes DEF ReadToken, TypeOK
<1>2. CASE Attach(w)
  <2>1. fdList[w] # <<>> => Head(fdList[w]) \in Conns /\ Tail(fdList[w]) \in Seq(Conns)
    BY DEF TypeOK, HandoffTypes
  <2>2. HandoffTypes'
    BY <1>2, <2>1 DEF Attach, TypeOK, HandoffTypes
  <2>3. WorkerTypes'
    <3>1. CASE UNCHANGED <<acceptors, bevs>> /\ lost' \subseteq Conns
      BY <1>2, <3>1 DEF Attach, TypeOK, WorkerTypes
    <3>2. CASE /\ fdList[w] # <<>> /\ UNCHANGED lost
               /\ acceptors' = [acceptors EXCEPT ![w] = @ \union {Head(fdList[w])}]
               /\ bevs' = [bevs EXCEPT ![w] = @ \union {Head(fdList[w])}]
      BY <1>2, <2>1, <3>2 DEF Attach, TypeOK, WorkerTypes
    <3>. QED
      BY <1>2, <2>1, <3>1, <3>2 DEF Attach, TypeOK, WorkerTypes
  <2>. QED
    BY <1>2, <2>2, <2>3, SameClientTypes, SameDispatchTypes, SameStopTypes DEF Attach, TypeOK
<1>3. CASE FinishProduce(w)
  <2>1. WorkerTypes'
    <3>1. outbox' \in [Conns -> Nat]
      <4>1. outbox \in [Conns -> Nat]
        BY DEF TypeOK, WorkerTypes
      <4>2. outbox' = [outbox EXCEPT ![serving[w]] = @ + 1]
        BY <1>3 DEF FinishProduce
      <4>3. CASE serving[w] \in Conns
        BY <4>1, <4>2, <4>3
      <4>4. CASE serving[w] \notin Conns
        BY <4>1, <4>2, <4>4
      <4>. QED
        BY <4>3, <4>4
    <3>2. serving' \in [Workers -> Conns \union {None}]
      BY <1>3 DEF FinishProduce, TypeOK, WorkerTypes
    <3>. QED
      BY <1>3, <3>1, <3>2 DEF FinishProduce, TypeOK, WorkerTypes
  <2>. QED
    BY <1>3, <2>1, SameClientTypes, SameDispatchTypes, SameHandoffTypes, SameStopTypes
    DEF FinishProduce, TypeOK
<1>10. CASE ProduceFails(w)
  <2>1. WorkerTypes'
    BY <1>10 DEF ProduceFails, ProduceNothing, ProduceDies, ProduceHangs, TypeOK, WorkerTypes
  <2>. QED
    BY <1>10, <2>1, SameClientTypes, SameDispatchTypes, SameHandoffTypes, SameStopTypes
    DEF ProduceFails, ProduceNothing, ProduceDies, ProduceHangs, TypeOK
<1>4. CASE WorkerExit(w)
  <2>1. WorkerTypes'
    BY <1>4 DEF WorkerExit, TypeOK, WorkerTypes
  <2>. QED
    BY <1>4, <2>1, SameClientTypes, SameDispatchTypes, SameHandoffTypes, SameStopTypes
    DEF WorkerExit, TypeOK
<1>5. ASSUME NEW c \in Conns, ReadCB(w, c) PROVE TypeOK' /\ HandOK'
  <2>1. ClientTypes'
    <3>1. inbox[c] \in Seq(Unread) /\ cuts[c] + 1 \in Nat
      BY DEF TypeOK, ClientTypes
    <3>2. PICK n \in 0..Len(inbox[c]) :
             \/ /\ n > 0 /\ UNCHANGED cuts
                /\ inbox' = [inbox EXCEPT ![c] = SubSeq(@, n + 1, Len(@))]
             \/ /\ n < Len(inbox[c])
                /\ inbox' = [inbox EXCEPT ![c] = <<"rest">> \o SubSeq(@, n + 2, Len(@))]
                /\ cuts' = [cuts EXCEPT ![c] = @ + 1]
      BY <1>5 DEF ReadCB
    <3>3. \E s \in Seq(Unread) : inbox' = [inbox EXCEPT ![c] = s]
      <4>1. CASE inbox' = [inbox EXCEPT ![c] = SubSeq(@, n + 1, Len(@))]
        BY <3>1, <4>1, ReadRests
      <4>2. CASE n < Len(inbox[c])
                 /\ inbox' = [inbox EXCEPT ![c] = <<"rest">> \o SubSeq(@, n + 2, Len(@))]
        BY <3>1, <4>2, ReadRests
      <4>. QED
        BY <3>2, <4>1, <4>2
    <3>4. inbox' \in [Conns -> Seq(Unread)]
      BY <3>3 DEF TypeOK, ClientTypes
    <3>5. cuts' \in [Conns -> Nat]
      BY <3>1, <3>2 DEF TypeOK, ClientTypes
    <3>. QED
      BY <1>5, <3>4, <3>5 DEF ReadCB, TypeOK, ClientTypes
  <2>2. WorkerTypes'
    <3>1. PICK isGet \in BOOLEAN : Answer(w, c, isGet)
      BY <1>5, ReadIsAnswered
    <3>2. outbox' \in [Conns -> Nat]
      BY <3>1 DEF Answer, TypeOK, WorkerTypes
    <3>3. serving' \in [Workers -> Conns \union {None}]
      BY <3>1 DEF Answer, TypeOK, WorkerTypes
    <3>4. wpc' = wpc \/ wpc' = [wpc EXCEPT ![w] = "produce"]
      BY <3>1 DEF Answer
    <3>. QED
      BY <1>5, <3>2, <3>3, <3>4 DEF ReadCB, TypeOK, WorkerTypes
  <2>. QED
    BY <1>5, <2>1, <2>2, SameDispatchTypes, SameHandoffTypes, SameStopTypes DEF ReadCB, TypeOK
<1>6. ASSUME NEW c \in Conns, Flush(w, c) PROVE TypeOK' /\ HandOK'
  <2>1. ClientTypes'
    BY <1>6 DEF Flush, TypeOK, ClientTypes
  <2>2. WorkerTypes'
    BY <1>6 DEF Flush, TypeOK, WorkerTypes
  <2>. QED
    BY <1>6, <2>1, <2>2, SameDispatchTypes, SameHandoffTypes, SameStopTypes DEF Flush, TypeOK
<1>7. ASSUME NEW c \in Conns, ReadEnd(w, c) PROVE TypeOK' /\ HandOK'
  <2>1. WorkerTypes'
    BY <1>7 DEF ReadEnd, Disconnection, TypeOK, WorkerTypes
  <2>. QED
    BY <1>7, <2>1, SameClientTypes, SameDispatchTypes, SameHandoffTypes, SameStopTypes
    DEF ReadEnd, TypeOK
<1>8. ASSUME NEW c \in Conns, WriteToGone(w, c) PROVE TypeOK' /\ HandOK'
  <2>1. WorkerTypes'
    BY <1>8 DEF WriteToGone, Disconnection, TypeOK, WorkerTypes
  <2>. QED
    BY <1>8, <2>1, SameClientTypes, SameDispatchTypes, SameHandoffTypes, SameStopTypes
    DEF WriteToGone, TypeOK
<1>9. ASSUME NEW c \in Conns, LateEvent(w, c) PROVE TypeOK' /\ HandOK'
  <2>1. WorkerTypes'
    BY <1>9 DEF LateEvent, TypeOK, WorkerTypes
  <2>. QED
    BY <1>9, <2>1, SameClientTypes, SameDispatchTypes, SameHandoffTypes, SameStopTypes
    DEF LateEvent, TypeOK
<1>. QED
  BY <1>1, <1>2, <1>3, <1>4, <1>5, <1>6, <1>7, <1>8, <1>9, <1>10 DEF Worker

LEMMA MainStepTypes ==
    ASSUME TypeOK, HandOK, Main
    PROVE  TypeOK' /\ HandOK'
<1>1. CASE Stop
  <2>1. StopTypes'
    BY <1>1 DEF Stop, TypeOK, StopTypes
  <2>. QED
    BY <1>1, <2>1, SameClientTypes, SameDispatchTypes, SameHandoffTypes, SameWorkerTypes
    DEF Stop, TypeOK
<1>2. CASE JoinDispatch
  <2>1. StopTypes'
    BY <1>2 DEF JoinDispatch, TypeOK, StopTypes
  <2>. QED
    BY <1>2, <2>1, SameClientTypes, SameDispatchTypes, SameHandoffTypes, SameWorkerTypes
    DEF JoinDispatch, TypeOK
<1>3. CASE StopWorker
  <2>1. StopTypes'
    BY <1>3 DEF StopWorker, TypeOK, StopTypes
  <2>. QED
    BY <1>3, <2>1, SameClientTypes, SameDispatchTypes, SameHandoffTypes, SameWorkerTypes
    DEF StopWorker, TypeOK
<1>4. DeleteWorker => Stopping \in Workers
  BY StoppingIsWorker DEF TypeOK
<1>5. CASE DeleteWorker
  <2>1. StopTypes'
    <3>1. CASE UNCHANGED stopAt
      BY <1>5, <3>1 DEF DeleteWorker, TypeOK, StopTypes
    <3>2. CASE stopAt' = <<stopAt[1], stopAt[2] + 1>>
      BY <1>5, <3>2 DEF DeleteWorker, TypeOK, StopTypes
    <3>3. CASE stopAt[1] < Len(StopOrder) /\ stopAt' = <<stopAt[1] + 1, 1>>
      BY <1>5, <3>3, ConstantsAssumption DEF DeleteWorker, TypeOK, StopTypes
    <3>. QED
      BY <1>5, <3>1, <3>2, <3>3 DEF DeleteWorker
  <2>2. HandoffTypes'
    BY <1>5, <1>4 DEF DeleteWorker, TypeOK, HandoffTypes
  <2>3. WorkerTypes'
    <3>1. lost' \subseteq Conns
      BY <1>5, <1>4 DEF DeleteWorker, TypeOK, WorkerTypes, HandoffTypes
    <3>. QED
      BY <1>5, <1>4, <3>1 DEF DeleteWorker, TypeOK, WorkerTypes
  <2>. QED
    BY <1>5, <2>1, <2>2, <2>3, SameClientTypes, SameDispatchTypes DEF DeleteWorker, TypeOK
<1>. QED
  BY <1>1, <1>2, <1>3, <1>5 DEF Main

LEMMA StepTypes == TypeOK /\ HandOK /\ [Next]_vars => TypeOK' /\ HandOK'
<1>1. ASSUME TypeOK, HandOK, UNCHANGED vars PROVE TypeOK' /\ HandOK'
  BY <1>1, SameClientTypes, SameDispatchTypes, SameHandoffTypes, SameWorkerTypes, SameStopTypes
  DEF vars, TypeOK
<1>. QED
  BY <1>1, ClientStepTypes, DispatchStepTypes, WorkerStepTypes, MainStepTypes DEF Next

(* The variables of the service have their types in every state, and the   *)
(* dispatcher's locals are what its place in the loop promises: the        *)
(* pointers CreateConnection follows are those of workers.                 *)
THEOREM TypeCorrect == Spec => [](TypeOK /\ HandOK)
BY InitTypes, StepTypes, PTL DEF Spec

-----------------------------------------------------------------------------
(* The order of Stop.                                                      *)

LEMMA InitStop == Init => StopOK
BY DEF Init, StopOK

LEMMA StepStop ==
    ASSUME TypeOK, HandOK, StopOK, [Next]_vars
    PROVE  StopOK'
<1>. USE DEF stopVars, dispatchVars
<1>1. ASSUME UNCHANGED <<stopVars, dispatchVars>> PROVE StopOK'
  BY <1>1 DEF StopOK
<1>2. ASSUME NEW c \in Conns, Client(c) PROVE StopOK'
  <2>1. ASSUME NEW s \in Services, Connect(c, s) PROVE StopOK'
    BY <2>1 DEF Connect, StopOK
  <2>. QED
    BY <1>1, <1>2, <2>1 DEF Client, Send, Leave
<1>3. ASSUME NEW s \in Services, AcceptConn(s) PROVE StopOK'
  BY <1>3 DEF AcceptConn, StopOK
<1>4. CASE CreateConnection
  BY <1>4 DEF CreateConnection, ScanCompare, ScanAssign, AddSocket, Notify, StopOK
<1>5. CASE DispatchExit
  BY <1>5 DEF DispatchExit, StopOK
<1>6. ASSUME NEW w \in Workers, Worker(w) PROVE StopOK'
  BY <1>1, <1>6 DEF Worker, ReadToken, Attach, FinishProduce, WorkerExit, ProduceFails, ProduceNothing, ProduceDies, ProduceHangs, ReadCB, Answer, Flush, ReadEnd,
                    WriteToGone, LateEvent
<1>7. CASE Main
  <2>1. CASE Stop
    BY <1>7, <2>1 DEF Stop, StopOK
  <2>2. CASE JoinDispatch
    BY <1>7, <2>2 DEF JoinDispatch, StopOK
  <2>3. CASE StopWorker
    BY <1>7, <2>3 DEF StopWorker, StopOK, TypeOK, StopTypes
  <2>4. CASE DeleteWorker
    BY <1>7, <2>4 DEF DeleteWorker, StopOK
  <2>. QED
    BY <1>7, <2>1, <2>2, <2>3, <2>4 DEF Main
<1>8. CASE UNCHANGED vars
  BY <1>1, <1>8 DEF vars
<1>. QED
  BY <1>2, <1>3, <1>4, <1>5, <1>6, <1>7, <1>8 DEF Next

(* While the dispatcher holds or is about to take a connection no worker   *)
(* has been told to stop: Stop waits for the dispatcher first.             *)
THEOREM NeverToStopped == Spec => []NoHandoffToStoppedWorker
<1>1. Init => TypeOK /\ HandOK /\ StopOK
  BY InitTypes, InitStop
<1>2. TypeOK /\ HandOK /\ StopOK /\ [Next]_vars => (TypeOK /\ HandOK /\ StopOK)'
  BY StepTypes, StepStop
<1>3. HandOK /\ StopOK => NoHandoffToStoppedWorker
  BY DEF HandOK, StopOK, NoHandoffToStoppedWorker, EmptyHand
<1>. QED
  BY <1>1, <1>2, <1>3, PTL DEF Spec

-----------------------------------------------------------------------------
(* The handoff: tokens and descriptors.                                    *)

LEMMA InitToken == Init => TokenPerPendingFd
BY DEF Init, TokenPerPendingFd, Holding, EmptyHand

(* A step that moves no token, no descriptor and no worker keeps the count.*)
LEMMA SameToken ==
    ASSUME TokenPerPendingFd, UNCHANGED <<fdList, tokens, wpc, dpc, hand>>
    PROVE  TokenPerPendingFd'
BY DEF TokenPerPendingFd, Holding

LEMMA DispatchStepToken ==
    ASSUME TypeOK, HandOK, TokenPerPendingFd,
           (\E s \in Services : AcceptConn(s)) \/ CreateConnection \/ DispatchExit
    PROVE  TokenPerPendingFd'
<1>1. \A w \in Workers : Len(fdList[w]) \in Nat /\ tokens[w] \in Nat
  BY ConstantsAssumption DEF TypeOK, HandoffTypes
<1>2. ASSUME dpc # "notify", dpc' # "notify", UNCHANGED <<fdList, tokens, wpc>>
      PROVE  TokenPerPendingFd'
  BY <1>2 DEF TokenPerPendingFd, Holding
<1>3. ASSUME NEW s \in Services, AcceptConn(s) PROVE TokenPerPendingFd'
  BY <1>2, <1>3 DEF AcceptConn, handoffVars, workerVars
<1>4. CASE ScanCompare
  BY <1>2, <1>4 DEF ScanCompare, handoffVars, workerVars
<1>5. CASE ScanAssign
  BY <1>2, <1>5 DEF ScanAssign, handoffVars, workerVars
<1>6. CASE AddSocket
  <2>. SUFFICES ASSUME NEW w \in Workers, wpc'[w] # "deleted"
                PROVE  Len(fdList'[w]) = tokens'[w] + Holding(wpc'[w] = "token")
                           + Holding(dpc' = "notify" /\ hand'.wt = w)
    BY DEF TokenPerPendingFd, Holding
  <2>1. hand.wt \in Workers /\ hand.conn \in Conns /\ hand'.wt = hand.wt
    BY <1>6 DEF AddSocket, HandOK, TypeOK, DispatchTypes
  <2>2. Len(fdList[w]) = tokens[w] + Holding(wpc[w] = "token")
    BY <1>1, <1>6 DEF AddSocket, TokenPerPendingFd, Holding, workerVars
  <2>3. CASE w = hand.wt
    <3>1. fdList'[w] = Append(fdList[w], hand.conn)
      BY <1>6, <2>3 DEF AddSocket, TypeOK, HandoffTypes
    <3>2. Len(fdList'[w]) = Len(fdList[w]) + 1
      BY <2>1, <3>1 DEF TypeOK, HandoffTypes
    <3>. QED
      BY <1>1, <1>6, <2>1, <2>2, <2>3, <3>2 DEF AddSocket, Holding, workerVars
  <2>4. CASE w # hand.wt
    BY <1>1, <1>6, <2>1, <2>2, <2>4 DEF AddSocket, Holding, workerVars, TypeOK, HandoffTypes
  <2>. QED
    BY <2>3, <2>4
<1>7. CASE Notify
  <2>. SUFFICES ASSUME NEW w \in Workers, wpc'[w] # "deleted"
                PROVE  Len(fdList'[w]) = tokens'[w] + Holding(wpc'[w] = "token")
                           + Holding(dpc' = "notify" /\ hand'.wt = w)
    BY DEF TokenPerPendingFd, Holding
  <2>1. UNCHANGED <<fdList, wpc>> /\ dpc = "notify" /\ dpc' = "loop"
    BY <1>7 DEF Notify, workerVars
  <2>2. Len(fdList[w]) = tokens[w] + Holding(wpc[w] = "token") + Holding(hand.wt = w)
    BY <2>1 DEF TokenPerPendingFd, Holding
  <2>3. tokens'[w] = tokens[w] + Holding(hand.wt = w)
    BY <1>1, <1>7 DEF Notify, Holding, TypeOK, HandoffTypes
  <2>. QED
    BY <1>1, <2>1, <2>2, <2>3 DEF Holding
<1>8. CASE DispatchExit
  BY <1>2, <1>8 DEF DispatchExit, handoffVars, workerVars
<1>. QED
  BY <1>3, <1>4, <1>5, <1>6, <1>7, <1>8 DEF CreateConnection

LEMMA WorkerStepToken ==
    ASSUME TypeOK, TokenPerPendingFd, NEW v \in Workers, Worker(v)
    PROVE  TokenPerPendingFd'
<1>. USE DEF dispatchVars, handoffVars
<1>1. \A w \in Workers : Len(fdList[w]) \in Nat /\ tokens[w] \in Nat
  BY ConstantsAssumption DEF TypeOK, HandoffTypes
<1>2. ASSUME UNCHANGED <<handoffVars, dispatchVars>>, NEW new \in {"idle", "produce", "died", "hung", "exited"},
             wpc[v] # "token", wpc[v] # "deleted", wpc' = [wpc EXCEPT ![v] = new]
      PROVE  TokenPerPendingFd'
  BY <1>2 DEF TokenPerPendingFd, Holding, TypeOK, WorkerTypes
<1>3. CASE ReadToken(v)
  <2>. SUFFICES ASSUME NEW w \in Workers, wpc'[w] # "deleted"
                PROVE  Len(fdList'[w]) = tokens'[w] + Holding(wpc'[w] = "token")
                           + Holding(dpc' = "notify" /\ hand'.wt = w)
    BY DEF TokenPerPendingFd, Holding
  <2>1. CASE w = v
    <3>1. tokens'[w] = tokens[w] - 1 /\ wpc[w] = "idle" /\ wpc'[w] = "token"
      BY <1>3, <2>1 DEF ReadToken, TypeOK, HandoffTypes, WorkerTypes
    <3>2. Len(fdList[w]) = tokens[w] + Holding(dpc = "notify" /\ hand.wt = w)
      BY <1>1, <3>1 DEF TokenPerPendingFd, Holding
    <3>. QED
      BY <1>1, <1>3, <3>1, <3>2 DEF ReadToken, Holding
  <2>2. CASE w # v
    BY <1>3, <2>2 DEF ReadToken, TokenPerPendingFd, Holding, TypeOK, HandoffTypes, WorkerTypes
  <2>. QED
    BY <2>1, <2>2
<1>4. CASE Attach(v)
  <2>. SUFFICES ASSUME NEW w \in Workers, wpc'[w] # "deleted"
                PROVE  Len(fdList'[w]) = tokens'[w] + Holding(wpc'[w] = "token")
                           + Holding(dpc' = "notify" /\ hand'.wt = w)
    BY DEF TokenPerPendingFd, Holding
  <2>1. CASE w = v
    <3>1. Len(fdList[w]) = tokens[w] + 1 + Holding(dpc = "notify" /\ hand.wt = w)
      BY <1>4, <2>1 DEF Attach, TokenPerPendingFd, Holding
    <3>2. fdList[w] # <<>>
      BY <1>1, <3>1 DEF Holding
    <3>3. fdList'[w] = Tail(fdList[w])
      BY <1>4, <2>1, <3>2 DEF Attach, TypeOK, HandoffTypes
    <3>4. Len(fdList'[w]) = Len(fdList[w]) - 1
      BY <3>2, <3>3 DEF TypeOK, HandoffTypes
    <3>5. wpc'[w] = "idle" /\ UNCHANGED <<tokens, dispatchVars>>
      BY <1>4, <2>1 DEF Attach, TypeOK, WorkerTypes
    <3>. QED
      BY <1>1, <3>1, <3>4, <3>5 DEF Holding
  <2>2. CASE w # v
    BY <1>4, <2>2 DEF Attach, TokenPerPendingFd, Holding, TypeOK, HandoffTypes, WorkerTypes
  <2>. QED
    BY <2>1, <2>2
<1>5. CASE FinishProduce(v)
  BY <1>2, <1>5 DEF FinishProduce
<1>6. CASE WorkerExit(v)
  BY <1>2, <1>6 DEF WorkerExit
<1>9. CASE ProduceFails(v)
  BY <1>2, <1>9 DEF ProduceFails, ProduceNothing, ProduceDies, ProduceHangs
<1>7. ASSUME NEW c \in Conns, ReadCB(v, c) PROVE TokenPerPendingFd'
  <2>1. PICK isGet \in BOOLEAN : Answer(v, c, isGet)
    BY <1>7, ReadIsAnswered
  <2>. QED
    BY <1>2, <1>7, <2>1, SameToken DEF ReadCB, Answer
<1>8. ASSUME NEW c \in Conns,
             Flush(v, c) \/ ReadEnd(v, c) \/ WriteToGone(v, c) \/ LateEvent(v, c)
      PROVE  TokenPerPendingFd'
  BY <1>8, SameToken DEF Flush, ReadEnd, WriteToGone, LateEvent
<1>. QED
  BY <1>3, <1>4, <1>5, <1>6, <1>7, <1>8, <1>9 DEF Worker

LEMMA MainStepToken ==
    ASSUME TypeOK, TokenPerPendingFd, Main
    PROVE  TokenPerPendingFd'
<1>1. ASSUME DeleteWorker PROVE TokenPerPendingFd'
  <2>. SUFFICES ASSUME NEW w \in Workers, wpc'[w] # "deleted"
                PROVE  Len(fdList'[w]) = tokens'[w] + Holding(wpc'[w] = "token")
                           + Holding(dpc' = "notify" /\ hand'.wt = w)
    BY DEF TokenPerPendingFd, Holding
  <2>1. w # Stopping
    BY <1>1 DEF DeleteWorker, TypeOK, WorkerTypes
  <2>2. fdList'[w] = fdList[w] /\ wpc'[w] = wpc[w]
    BY <1>1, <2>1 DEF DeleteWorker, TypeOK, WorkerTypes, HandoffTypes
  <2>. QED
    BY <1>1, <2>2 DEF DeleteWorker, TokenPerPendingFd, Holding, dispatchVars
<1>. QED
  BY <1>1, SameToken
  DEF Main, Stop, JoinDispatch, StopWorker, dispatchVars, handoffVars, workerVars

LEMMA StepToken ==
    ASSUME TypeOK, HandOK, TokenPerPendingFd, [Next]_vars
    PROVE  TokenPerPendingFd'
<1>1. ASSUME NEW c \in Conns, Client(c) PROVE TokenPerPendingFd'
  BY <1>1, SameToken DEF Client, Connect, Send, Leave, dispatchVars, handoffVars, workerVars
<1>2. CASE UNCHANGED vars
  BY <1>2, SameToken DEF vars, dispatchVars, handoffVars, workerVars
<1>. QED
  BY <1>1, <1>2, DispatchStepToken, WorkerStepToken, MainStepToken DEF Next

(* No accepted socket is ever stranded without a token, or token without a *)
(* socket, whatever the number of clients, workers and pipe slots.         *)
THEOREM TokensMatch == Spec => []TokenPerPendingFd
<1>1. TypeOK /\ HandOK /\ TokenPerPendingFd /\ [Next]_vars
         => (TypeOK /\ HandOK /\ TokenPerPendingFd)'
  BY StepTypes, StepToken
<1>. QED
  BY <1>1, InitTypes, InitToken, PTL DEF Spec

-----------------------------------------------------------------------------
(* A connection is in one place.                                           *)

PlaceInv == OnePlace /\ NowhereOK

LEMMA AppendFacts ==
    ASSUME NEW S, NEW q \in Seq(S), NEW e \in S
    PROVE  /\ Len(Append(q, e)) = Len(q) + 1
           /\ \A i \in 1..Len(q) : Append(q, e)[i] = q[i]
           /\ Append(q, e)[Len(q) + 1] = e
OBVIOUS

LEMMA TailFacts ==
    ASSUME NEW S, NEW q \in Seq(S), q # <<>>
    PROVE  /\ Len(Tail(q)) = Len(q) - 1
           /\ \A i \in 1..Len(q) - 1 : Tail(q)[i] = q[i + 1]
           /\ Head(q) = q[1]
           /\ 1 \in 1..Len(q)
OBVIOUS

Push(q, d, e) == [q EXCEPT ![d] = Append(@, e)]
Pop(q, d) == [q EXCEPT ![d] = Tail(@)]

LEMMA AppendKeeps ==
    ASSUME NEW D, NEW S, NEW q \in [D -> Seq(S)], NEW d \in D, NEW e \in S,
           NEW r, r = Push(q, d, e)
    PROVE  /\ \A c \in S : Queued(r, D, c) <=> Queued(q, D, c) \/ c = e
           /\ NoRepeats(q, D) /\ ~Queued(q, D, e) => NoRepeats(r, D)
<1>1. \A f \in D : f # d => r[f] = q[f]
  BY DEF Push
<1>2. /\ Len(r[d]) = Len(q[d]) + 1 /\ Len(q[d]) \in Nat
      /\ \A i \in 1..Len(q[d]) : r[d][i] = q[d][i]
      /\ r[d][Len(q[d]) + 1] = e
  <2>1. r[d] = Append(q[d], e) /\ q[d] \in Seq(S)
    BY DEF Push
  <2>. QED
    BY <2>1, AppendFacts
<1>. DEFINE New(f, i) == f = d /\ i = Len(q[d]) + 1
<1>3. ASSUME NEW f \in D, NEW i \in 1..Len(r[f])
      PROVE  \/ New(f, i) /\ r[f][i] = e
             \/ ~New(f, i) /\ i \in 1..Len(q[f]) /\ r[f][i] = q[f][i]
  <2>1. CASE f = d
    BY <1>2, <1>3, <2>1
  <2>2. CASE f # d
    BY <1>1, <1>3, <2>2
  <2>. QED
    BY <2>1, <2>2
<1>4. ASSUME NEW f \in D, NEW i \in 1..Len(q[f])
      PROVE  i \in 1..Len(r[f]) /\ r[f][i] = q[f][i]
  <2>1. CASE f = d
    BY <1>2, <1>4, <2>1
  <2>2. CASE f # d
    BY <1>1, <1>4, <2>2
  <2>. QED
    BY <2>1, <2>2
<1>5. ASSUME NEW c \in S PROVE Queued(r, D, c) <=> Queued(q, D, c) \/ c = e
  <2>1. Queued(r, D, c) => Queued(q, D, c) \/ c = e
    BY <1>3 DEF Queued
  <2>2. Queued(q, D, c) => Queued(r, D, c)
    BY <1>4 DEF Queued
  <2>3. Len(q[d]) + 1 \in 1..Len(r[d])
    BY <1>2
  <2>4. Queued(r, D, e)
    BY <1>2, <2>3 DEF Queued
  <2>. QED
    BY <2>1, <2>2, <2>4
<1>6. ASSUME NoRepeats(q, D), ~Queued(q, D, e) PROVE NoRepeats(r, D)
  <2>. SUFFICES ASSUME NEW f \in D, NEW g \in D, NEW i \in 1..Len(r[f]), NEW j \in 1..Len(r[g]),
                       r[f][i] = r[g][j]
                PROVE  f = g /\ i = j
    BY DEF NoRepeats
  <2>1. New(f, i) <=> New(g, j)
    <3>. HIDE DEF New
    <3>1. \/ New(f, i) /\ r[f][i] = e
          \/ ~New(f, i) /\ i \in 1..Len(q[f]) /\ r[f][i] = q[f][i]
      BY <1>3
    <3>2. \/ New(g, j) /\ r[g][j] = e
          \/ ~New(g, j) /\ j \in 1..Len(q[g]) /\ r[g][j] = q[g][j]
      BY <1>3
    <3>. QED
      BY <1>6, <3>1, <3>2 DEF Queued
  <2>2. CASE New(f, i)
    BY <2>1, <2>2
  <2>3. CASE ~New(f, i)
    <3>1. i \in 1..Len(q[f]) /\ j \in 1..Len(q[g]) /\ q[f][i] = q[g][j]
      BY <1>3, <2>1, <2>3
    <3>. QED
      BY <1>6, <3>1 DEF NoRepeats
  <2>. QED
    BY <2>2, <2>3
<1>. QED
  BY <1>5, <1>6

LEMMA TailKeeps ==
    ASSUME NEW D, NEW S, NEW q \in [D -> Seq(S)], NEW d \in D, q[d] # <<>>,
           NEW r, r = Pop(q, d), NoRepeats(q, D)
    PROVE  /\ Head(q[d]) \in S /\ Queued(q, D, Head(q[d]))
           /\ \A c \in S : Queued(r, D, c) => Queued(q, D, c) /\ c # Head(q[d])
           /\ NoRepeats(r, D)
<1>1. \A f \in D : f # d => r[f] = q[f]
  BY DEF Pop
<1>2. /\ Len(r[d]) = Len(q[d]) - 1 /\ Len(q[d]) \in Nat
      /\ \A i \in 1..Len(q[d]) - 1 : r[d][i] = q[d][i + 1]
      /\ Head(q[d]) = q[d][1] /\ 1 \in 1..Len(q[d]) /\ Head(q[d]) \in S
  <2>1. r[d] = Tail(q[d]) /\ q[d] \in Seq(S)
    BY DEF Pop
  <2>. QED
    BY <2>1, TailFacts
<1>. DEFINE Old(f, i) == IF f = d THEN i + 1 ELSE i
<1>3. ASSUME NEW f \in D, NEW i \in 1..Len(r[f])
      PROVE  Old(f, i) \in 1..Len(q[f]) /\ r[f][i] = q[f][Old(f, i)] /\ ~(f = d /\ Old(f, i) = 1)
  <2>1. CASE f = d
    BY <1>2, <1>3, <2>1
  <2>2. CASE f # d
    BY <1>1, <1>3, <2>2
  <2>. QED
    BY <2>1, <2>2
<1>4. ASSUME NEW c \in S, Queued(r, D, c) PROVE Queued(q, D, c) /\ c # Head(q[d])
  <2>1. PICK f \in D : \E i \in 1..Len(r[f]) : r[f][i] = c
    BY <1>4 DEF Queued
  <2>2. PICK i \in 1..Len(r[f]) : r[f][i] = c
    BY <2>1
  <2>3. Old(f, i) \in 1..Len(q[f]) /\ q[f][Old(f, i)] = c /\ ~(f = d /\ Old(f, i) = 1)
    BY <1>3, <2>2
  <2>. HIDE DEF Old
  <2>4. Queued(q, D, c)
    BY <2>3 DEF Queued
  <2>5. c = q[d][1] => f = d /\ Old(f, i) = 1
    BY <1>2, <2>3 DEF NoRepeats
  <2>. QED
    BY <1>2, <2>3, <2>4, <2>5
<1>5. NoRepeats(r, D)
  <2>. SUFFICES ASSUME NEW f \in D, NEW g \in D, NEW i \in 1..Len(r[f]), NEW j \in 1..Len(r[g]),
                       r[f][i] = r[g][j]
                PROVE  f = g /\ i = j
    BY DEF NoRepeats
  <2>1. /\ Old(f, i) \in 1..Len(q[f]) /\ Old(g, j) \in 1..Len(q[g])
        /\ q[f][Old(f, i)] = q[g][Old(g, j)]
    BY <1>3
  <2>2. f = g /\ Old(f, i) = Old(g, j)
    <3>. HIDE DEF Old
    <3>. QED
      BY <2>1 DEF NoRepeats
  <2>. QED
    BY <2>2
<1>6. Queued(q, D, Head(q[d]))
  BY <1>2 DEF Queued
<1>. QED
  BY <1>2, <1>4, <1>5, <1>6

LEMMA InitPlace == Init => PlaceInv
<1>. SUFFICES ASSUME Init PROVE PlaceInv
  OBVIOUS
<1>1. \A c \in Conns : ~InBacklog(c) /\ hand.conn # c /\ ~IsPending(c) /\ ~Served(c)
  BY ConstantsAssumption DEF Init, InBacklog, IsPending, Queued, Served, EmptyHand
<1>2. NoRepeats(backlog, Services) /\ NoRepeats(fdList, Workers) /\ AcceptorsDisjoint
  BY DEF Init, NoRepeats, AcceptorsDisjoint
<1>. QED
  BY <1>1, <1>2 DEF Init, PlaceInv, OnePlace, PlacesDisjoint, NowhereOK

LEMMA SamePlace ==
    ASSUME PlaceInv, UNCHANGED <<backlog, fdList, acceptors, lost>>,
           hand'.conn = hand.conn,
           \A c \in Conns : link'[c] = "off" => link[c] = "off"
    PROVE  PlaceInv'
<1>1. \A c \in Conns : /\ InBacklog(c)' = InBacklog(c) /\ IsPending(c)' = IsPending(c)
                       /\ Served(c)' = Served(c)
  BY DEF InBacklog, IsPending, Served
<1>2. PlacesDisjoint' /\ NowhereOK'
  BY <1>1 DEF PlaceInv, OnePlace, PlacesDisjoint, NowhereOK
<1>. QED
  BY <1>2 DEF PlaceInv, OnePlace, AcceptorsDisjoint

LEMMA ConnectPlace ==
    ASSUME TypeOK, PlaceInv, NEW c \in Conns, NEW s \in Services, Connect(c, s)
    PROVE  PlaceInv'
<1>. USE DEF handoffVars, workerVars
<1>1. backlog \in [Services -> Seq(Conns)] /\ link \in [Conns -> {"off", "on", "gone"}]
  BY DEF TypeOK, DispatchTypes, ClientTypes
<1>2. /\ link[c] = "off" /\ UNCHANGED <<hand, fdList, acceptors, lost>>
      /\ link' = [link EXCEPT ![c] = "on"] /\ backlog' = [backlog EXCEPT ![s] = Append(@, c)]
  BY DEF Connect
<1>3. ~InBacklog(c) /\ hand.conn # c /\ ~IsPending(c) /\ ~Served(c) /\ c \notin lost
  BY <1>2 DEF PlaceInv, NowhereOK
<1>4. /\ \A d \in Conns : InBacklog(d)' <=> InBacklog(d) \/ d = c
      /\ NoRepeats(backlog, Services)'
  <2>1. NoRepeats(backlog, Services)
    BY DEF PlaceInv, OnePlace
  <2>2. backlog' = Push(backlog, s, c)
    BY <1>2 DEF Push
  <2>3. /\ \A d \in Conns : Queued(backlog', Services, d) <=> Queued(backlog, Services, d) \/ d = c
        /\ ~Queued(backlog, Services, c) => NoRepeats(backlog', Services)
    BY <1>1, <2>1, <2>2, AppendKeeps
  <2>. QED
    BY <1>3, <2>3 DEF InBacklog
<1>5. \A d \in Conns : IsPending(d)' = IsPending(d) /\ Served(d)' = Served(d)
  BY <1>2 DEF IsPending, Served
<1>6. PlacesDisjoint'
  BY <1>2, <1>3, <1>4, <1>5 DEF PlaceInv, OnePlace, PlacesDisjoint
<1>7. NowhereOK'
  BY <1>1, <1>2, <1>3, <1>4, <1>5 DEF PlaceInv, NowhereOK
<1>. QED
  BY <1>2, <1>4, <1>6, <1>7 DEF PlaceInv, OnePlace, AcceptorsDisjoint

LEMMA AcceptPlace ==
    ASSUME TypeOK, HandOK, PlaceInv, NEW s \in Services, AcceptConn(s)
    PROVE  PlaceInv'
<1>. USE DEF clientVars, handoffVars, workerVars
<1>1. backlog \in [Services -> Seq(Conns)] /\ backlog[s] # <<>>
  BY DEF TypeOK, DispatchTypes, AcceptConn
<1>2. /\ hand'.conn = Head(backlog[s]) /\ UNCHANGED <<fdList, acceptors, lost, link>>
      /\ backlog' = [backlog EXCEPT ![s] = Tail(@)]
  BY DEF AcceptConn
<1>3. /\ Head(backlog[s]) \in Conns /\ InBacklog(Head(backlog[s]))
      /\ \A d \in Conns : InBacklog(d)' => InBacklog(d) /\ d # Head(backlog[s])
      /\ NoRepeats(backlog, Services)'
  <2>1. NoRepeats(backlog, Services)
    BY DEF PlaceInv, OnePlace
  <2>2. backlog' = Pop(backlog, s)
    BY <1>2 DEF Pop
  <2>3. /\ Head(backlog[s]) \in Conns /\ Queued(backlog, Services, Head(backlog[s]))
        /\ \A d \in Conns : Queued(backlog', Services, d)
                => Queued(backlog, Services, d) /\ d # Head(backlog[s])
        /\ NoRepeats(backlog', Services)
    BY <1>1, <2>1, <2>2, TailKeeps
  <2>. QED
    BY <2>3 DEF InBacklog
<1>4. \A d \in Conns : IsPending(d)' = IsPending(d) /\ Served(d)' = Served(d)
  BY <1>2 DEF IsPending, Served
<1>5. PlacesDisjoint'
  BY <1>2, <1>3, <1>4 DEF PlaceInv, OnePlace, PlacesDisjoint
<1>6. NowhereOK'
  BY <1>2, <1>3, <1>4 DEF PlaceInv, OnePlace, PlacesDisjoint, NowhereOK
<1>. QED
  BY <1>2, <1>3, <1>5, <1>6 DEF PlaceInv, OnePlace, AcceptorsDisjoint

LEMMA AddSocketPlace ==
    ASSUME TypeOK, HandOK, PlaceInv, AddSocket
    PROVE  PlaceInv'
<1>. USE DEF clientVars, workerVars
<1>. DEFINE c == hand.conn
<1>1. fdList \in [Workers -> Seq(Conns)] /\ hand.wt \in Workers /\ c \in Conns
  BY DEF TypeOK, HandoffTypes, AddSocket, HandOK
<1>2. /\ hand'.conn = None /\ UNCHANGED <<backlog, acceptors, lost, link>>
      /\ fdList' = Push(fdList, hand.wt, c)
  BY DEF AddSocket, Push, TypeOK, DispatchTypes
<1>3. ~IsPending(c) /\ NoRepeats(fdList, Workers)
  BY <1>1 DEF PlaceInv, OnePlace, PlacesDisjoint
<1>4. /\ \A d \in Conns : IsPending(d)' <=> IsPending(d) \/ d = c
      /\ NoRepeats(fdList, Workers)'
  <2>. HIDE DEF c
  <2>1. /\ \A d \in Conns : Queued(fdList', Workers, d) <=> Queued(fdList, Workers, d) \/ d = c
        /\ ~Queued(fdList, Workers, c) => NoRepeats(fdList', Workers)
    BY <1>1, <1>2, <1>3, AppendKeeps
  <2>. QED
    BY <1>3, <2>1 DEF IsPending
<1>5. \A d \in Conns : InBacklog(d)' = InBacklog(d) /\ Served(d)' = Served(d)
  BY <1>2 DEF InBacklog, Served
<1>6. PlacesDisjoint'
  BY <1>1, <1>2, <1>4, <1>5, ConstantsAssumption DEF PlaceInv, OnePlace, PlacesDisjoint
<1>7. NowhereOK'
  BY <1>1, <1>2, <1>4, <1>5, ConstantsAssumption DEF PlaceInv, NowhereOK
<1>. QED
  BY <1>2, <1>4, <1>6, <1>7 DEF PlaceInv, OnePlace, AcceptorsDisjoint

LEMMA AttachPlace ==
    ASSUME TypeOK, PlaceInv, NEW w \in Workers, Attach(w)
    PROVE  PlaceInv'
<1>. USE DEF clientVars, dispatchVars
<1>. DEFINE c == Head(fdList[w])
<1>1. fdList \in [Workers -> Seq(Conns)] /\ acceptors \in [Workers -> SUBSET Conns]
  BY DEF TypeOK, HandoffTypes, WorkerTypes
<1>2. UNCHANGED <<backlog, hand, link>>
  BY DEF Attach
<1>3. CASE fdList[w] = <<>>
  BY <1>2, <1>3, SamePlace DEF Attach
<1>4. CASE fdList[w] # <<>>
  <2>1. fdList' = Pop(fdList, w)
    BY <1>4 DEF Attach, Pop
  <2>2. NoRepeats(fdList, Workers)
    BY DEF PlaceInv, OnePlace
  <2>3. /\ c \in Conns /\ Queued(fdList, Workers, c)
        /\ \A d \in Conns : Queued(fdList', Workers, d) => Queued(fdList, Workers, d) /\ d # c
        /\ NoRepeats(fdList', Workers)
    BY <1>1, <1>4, <2>1, <2>2, TailKeeps
  <2>4. /\ c \in Conns /\ IsPending(c) /\ NoRepeats(fdList, Workers)'
        /\ \A d \in Conns : IsPending(d)' => IsPending(d) /\ d # c
    BY <2>3 DEF IsPending
  <2>. HIDE DEF c
  <2>5. \A d \in Conns : InBacklog(d)' = InBacklog(d)
    BY <1>2 DEF InBacklog
  <2>6. link[c] # "off" /\ ~InBacklog(c) /\ hand.conn # c /\ ~Served(c)
    BY <2>4 DEF PlaceInv, OnePlace, PlacesDisjoint, NowhereOK
  <2>7. CASE acceptors' = [acceptors EXCEPT ![w] = @ \union {c}] /\ UNCHANGED lost
    <3>1. \A d \in Conns : Served(d)' => Served(d) \/ d = c
      BY <1>1, <2>7 DEF Served
    <3>2. AcceptorsDisjoint'
      BY <1>1, <2>6, <2>7 DEF PlaceInv, OnePlace, AcceptorsDisjoint, Served
    <3>3. PlacesDisjoint'
      BY <1>2, <2>4, <2>5, <2>6, <3>1 DEF PlaceInv, OnePlace, PlacesDisjoint
    <3>4. NowhereOK'
      BY <1>2, <2>4, <2>5, <2>6, <2>7, <3>1 DEF PlaceInv, NowhereOK
    <3>. QED
      BY <1>2, <2>4, <3>2, <3>3, <3>4 DEF PlaceInv, OnePlace
  <2>8. CASE UNCHANGED acceptors /\ lost' = lost \union {c}
    <3>1. \A d \in Conns : Served(d)' = Served(d)
      BY <2>8 DEF Served
    <3>2. PlacesDisjoint'
      BY <1>2, <2>4, <2>5, <2>6, <3>1 DEF PlaceInv, OnePlace, PlacesDisjoint
    <3>3. NowhereOK'
      BY <1>2, <2>4, <2>5, <2>6, <2>8, <3>1 DEF PlaceInv, NowhereOK
    <3>. QED
      BY <1>2, <2>4, <2>8, <3>2, <3>3 DEF PlaceInv, OnePlace, AcceptorsDisjoint
  <2>. QED
    BY <1>4, <2>7, <2>8 DEF Attach, c
<1>. QED
  BY <1>3, <1>4

(* Queues and acceptor lists that only shrink, with what left the workers' *)
(* lists added to lost at most, keep every connection in one place.        *)
LEMMA ShrinkPlace ==
    ASSUME PlaceInv, UNCHANGED link, hand'.conn = hand.conn,
           NoRepeats(backlog, Services)', NoRepeats(fdList, Workers)',
           \A w \in Workers : acceptors'[w] \subseteq acceptors[w],
           \A c \in Conns : InBacklog(c)' => InBacklog(c),
           \A c \in Conns : IsPending(c)' => IsPending(c),
           \A c \in Conns : c \in lost' => c \in lost \/ (IsPending(c) /\ ~IsPending(c)')
    PROVE  PlaceInv'
<1>1. \A c \in Conns : Served(c)' => Served(c)
  BY DEF Served
<1>2. PlacesDisjoint'
  BY <1>1 DEF PlaceInv, OnePlace, PlacesDisjoint
<1>3. NowhereOK'
  BY <1>1 DEF PlaceInv, OnePlace, PlacesDisjoint, NowhereOK
<1>4. AcceptorsDisjoint'
  BY DEF PlaceInv, OnePlace, AcceptorsDisjoint
<1>. QED
  BY <1>2, <1>3, <1>4 DEF PlaceInv, OnePlace

LEMMA DisconnectionPlace ==
    ASSUME TypeOK, PlaceInv, NEW w \in Workers, NEW c \in Conns, NEW armed,
           Disconnection(w, c, armed), UNCHANGED <<link, hand, backlog, fdList, lost>>
    PROVE  PlaceInv'
<1>1. NoRepeats(backlog, Services)' /\ NoRepeats(fdList, Workers)'
  BY DEF PlaceInv, OnePlace
<1>2. \A d \in Conns : InBacklog(d)' = InBacklog(d) /\ IsPending(d)' = IsPending(d)
  BY DEF InBacklog, IsPending
<1>3. \A v \in Workers : acceptors'[v] \subseteq acceptors[v]
  BY DEF Disconnection, TypeOK, WorkerTypes
<1>. QED
  BY <1>1, <1>2, <1>3, ShrinkPlace

LEMMA DispatchExitPlace ==
    ASSUME PlaceInv, DispatchExit
    PROVE  PlaceInv'
<1>. USE DEF clientVars, handoffVars, workerVars
<1>1. backlog' = [s \in Services |-> <<>>] /\ UNCHANGED <<link, hand, fdList, acceptors, lost>>
  BY DEF DispatchExit
<1>2. NoRepeats(backlog, Services)' /\ \A c \in Conns : ~InBacklog(c)'
  BY <1>1 DEF NoRepeats, InBacklog, Queued
<1>3. NoRepeats(fdList, Workers)' /\ \A c \in Conns : IsPending(c)' = IsPending(c)
  BY <1>1 DEF PlaceInv, OnePlace, IsPending
<1>. QED
  BY <1>1, <1>2, <1>3, ShrinkPlace

LEMMA DeleteWorkerPlace ==
    ASSUME TypeOK, PlaceInv, DeleteWorker
    PROVE  PlaceInv'
<1>. USE DEF clientVars, dispatchVars
<1>. DEFINE v == Stopping
<1>1. v \in Workers
  BY StoppingIsWorker DEF TypeOK
<1>2. /\ fdList' = [fdList EXCEPT ![v] = <<>>] /\ acceptors' = [acceptors EXCEPT ![v] = {}]
      /\ lost' = lost \union {fdList[v][i] : i \in 1..Len(fdList[v])}
      /\ UNCHANGED <<link, hand, backlog>>
  BY DEF DeleteWorker
<1>. HIDE DEF v
<1>3. fdList'[v] = <<>> /\ \A w \in Workers : w # v => fdList'[w] = fdList[w]
  BY <1>1, <1>2 DEF TypeOK, HandoffTypes
<1>4. NoRepeats(fdList, Workers)
  BY DEF PlaceInv, OnePlace
<1>5. ASSUME NEW w \in Workers, NEW i \in 1..Len(fdList'[w])
      PROVE  w # v /\ i \in 1..Len(fdList[w]) /\ fdList'[w][i] = fdList[w][i]
  BY <1>3, <1>5
<1>6. NoRepeats(fdList, Workers)'
  <2>. SUFFICES ASSUME NEW w \in Workers, NEW u \in Workers,
                       NEW i \in 1..Len(fdList'[w]), NEW j \in 1..Len(fdList'[u]),
                       fdList'[w][i] = fdList'[u][j]
                PROVE  w = u /\ i = j
    BY DEF NoRepeats
  <2>1. /\ i \in 1..Len(fdList[w]) /\ fdList'[w][i] = fdList[w][i]
        /\ j \in 1..Len(fdList[u]) /\ fdList'[u][j] = fdList[u][j]
    BY <1>5
  <2>2. fdList[w][i] = fdList[u][j]
    BY <2>1
  <2>. QED
    BY ONLY <1>4, <2>1, <2>2, w \in Workers, u \in Workers DEF NoRepeats
<1>7. \A c \in Conns : IsPending(c)' => IsPending(c)
  BY <1>5 DEF IsPending, Queued
<1>8. ASSUME NEW c \in Conns, c \in lost', c \notin lost PROVE IsPending(c) /\ ~IsPending(c)'
  <2>1. PICK i \in 1..Len(fdList[v]) : c = fdList[v][i]
    BY <1>2, <1>8
  <2>2. IsPending(c)
    BY <1>1, <2>1 DEF IsPending, Queued
  <2>3. ASSUME NEW w \in Workers, NEW j \in 1..Len(fdList'[w]), fdList'[w][j] = c PROVE FALSE
    <3>1. w # v /\ j \in 1..Len(fdList[w]) /\ fdList[w][j] = c
      BY <1>5, <2>3
    <3>. QED
      BY <1>1, <1>4, <2>1, <3>1 DEF NoRepeats
  <2>. QED
    BY <2>2, <2>3 DEF IsPending, Queued
<1>9. NoRepeats(backlog, Services)' /\ \A c \in Conns : InBacklog(c)' = InBacklog(c)
  BY <1>2 DEF PlaceInv, OnePlace, InBacklog
<1>10. \A w \in Workers : acceptors'[w] \subseteq acceptors[w]
  BY <1>2 DEF TypeOK, WorkerTypes
<1>. QED
  BY <1>2, <1>6, <1>7, <1>8, <1>9, <1>10, ShrinkPlace

LEMMA StepPlace ==
    ASSUME TypeOK, HandOK, PlaceInv, [Next]_vars
    PROVE  PlaceInv'
<1>. USE DEF clientVars, dispatchVars, handoffVars, workerVars
<1>1. ASSUME UNCHANGED <<link, backlog, hand, fdList, acceptors, lost>> PROVE PlaceInv'
  BY <1>1, SamePlace
<1>2. ASSUME NEW c \in Conns, Client(c) PROVE PlaceInv'
  <2>1. CASE Leave(c)
    <3>1. \A d \in Conns : link'[d] = "off" => link[d] = "off"
      BY <2>1 DEF Leave, TypeOK, ClientTypes
    <3>. QED
      BY <2>1, <3>1, SamePlace DEF Leave
  <2>. QED
    BY <1>1, <1>2, <2>1, ConnectPlace DEF Client, Send
<1>3. CASE CreateConnection
  <2>1. CASE ScanCompare \/ ScanAssign
    <3>1. hand'.conn = hand.conn
      BY <2>1 DEF ScanCompare, ScanAssign, TypeOK, DispatchTypes
    <3>. QED
      BY <2>1, <3>1, SamePlace DEF ScanCompare, ScanAssign
  <2>2. CASE Notify
    <3>1. hand'.conn = hand.conn
      BY <2>2 DEF Notify, HandOK, EmptyHand
    <3>. QED
      BY <2>2, <3>1, SamePlace DEF Notify
  <2>. QED
    BY <1>3, <2>1, <2>2, AddSocketPlace DEF CreateConnection
<1>4. ASSUME NEW w \in Workers, Worker(w) PROVE PlaceInv'
  <2>1. ASSUME NEW c \in Conns, ReadEnd(w, c) PROVE PlaceInv'
    BY <2>1, DisconnectionPlace DEF ReadEnd
  <2>2. ASSUME NEW c \in Conns, WriteToGone(w, c) PROVE PlaceInv'
    <3>1. CASE UNCHANGED acceptors
      BY <1>1, <2>2, <3>1 DEF WriteToGone
    <3>2. CASE Disconnection(w, c, TRUE)
      BY <2>2, <3>2, DisconnectionPlace DEF WriteToGone
    <3>. QED
      BY <2>2, <3>1, <3>2 DEF WriteToGone
  <2>3. CASE ReadToken(w)
    BY <1>1, <2>3 DEF ReadToken
  <2>4. CASE FinishProduce(w) \/ ProduceFails(w) \/ WorkerExit(w)
    BY <1>1, <2>4 DEF FinishProduce, ProduceFails, ProduceNothing, ProduceDies, ProduceHangs,
                      WorkerExit
  <2>5. ASSUME NEW c \in Conns, ReadCB(w, c) \/ Flush(w, c) \/ LateEvent(w, c) PROVE PlaceInv'
    BY <1>1, <2>5 DEF ReadCB, Flush, LateEvent
  <2>. QED
    BY <1>4, <2>1, <2>2, <2>3, <2>4, <2>5, AttachPlace DEF Worker
<1>5. CASE Main
  BY <1>1, <1>5, DeleteWorkerPlace DEF Main, Stop, JoinDispatch, StopWorker
<1>6. CASE UNCHANGED vars
  BY <1>1, <1>6 DEF vars
<1>. QED
  BY <1>2, <1>3, <1>4, <1>5, <1>6, AcceptPlace, DispatchExitPlace DEF Next

(* A connection is in one place only, so exactly one thread owns it, and   *)
(* no descriptor is attached twice.                                        *)
THEOREM OneOwner == Spec => []OnePlace
<1>1. TypeOK /\ HandOK /\ PlaceInv /\ [Next]_vars => (TypeOK /\ HandOK /\ PlaceInv)'
  BY StepTypes, StepPlace
<1>2. PlaceInv => OnePlace
  BY DEF PlaceInv
<1>. QED
  BY <1>1, <1>2, InitTypes, InitPlace, PTL DEF Spec

(* All of it together: the inductive invariant of the service.             *)
THEOREM HandoffCorrect == Spec => []HandoffInv
<1>1. HandoffInv <=> TypeOK /\ HandOK /\ StopOK /\ TokenPerPendingFd /\ PlaceInv
  BY DEF HandoffInv, PlaceInv
<1>2. Init => HandoffInv
  BY <1>1, InitTypes, InitStop, InitToken, InitPlace
<1>3. HandoffInv /\ [Next]_vars => HandoffInv'
  <2>1. HandoffInv' <=> (TypeOK /\ HandOK /\ StopOK /\ TokenPerPendingFd /\ PlaceInv)'
    BY DEF HandoffInv, PlaceInv
  <2>. QED
    BY <1>1, <2>1, StepTypes, StepStop, StepToken, StepPlace
<1>. QED
  BY <1>2, <1>3, PTL DEF Spec

-----------------------------------------------------------------------------
(* The life cycle of a connection.                                         *)

(* A step that changes the phase of one connection is a move of it.        *)
LEMMA OneMoves ==
    ASSUME NEW c \in Conns, NEW from, NEW to, PhaseOf(c) = from, PhaseOf(c)' = to,
           \A d \in Conns : d # c => PhaseOf(d)' = PhaseOf(d)
    PROVE  Lifecycle!Move(c, from, to)
BY DEF Lifecycle!Move

LEMMA NoneMoves ==
    ASSUME \A d \in Conns : PhaseOf(d)' = PhaseOf(d)
    PROVE  UNCHANGED [d \in Conns |-> PhaseOf(d)]
OBVIOUS

(* A connection stays where it is if the step moves it in no queue or set. *)
LEMMA StaysPut ==
    ASSUME NEW d \in Conns, (link'[d] = "off") <=> (link[d] = "off"),
           InBacklog(d)' <=> InBacklog(d),
           (hand'.conn = d \/ IsPending(d)') <=> (hand.conn = d \/ IsPending(d)),
           Served(d)' <=> Served(d), (d \in lost') <=> (d \in lost)
    PROVE  PhaseOf(d)' = PhaseOf(d)
BY DEF PhaseOf

LEMMA InitLifecycle == Init => Lifecycle!LifecycleInit
<1>. SUFFICES ASSUME Init PROVE Lifecycle!LifecycleInit
  OBVIOUS
<1>1. \A c \in Conns : PhaseOf(c) = "none"
  BY DEF Init, PhaseOf
<1>. QED
  BY <1>1 DEF Lifecycle!LifecycleInit

(* What a queue loses at its head it keeps behind.                         *)
LEMMA TailKeepsOthers ==
    ASSUME NEW D, NEW S, NEW q \in [D -> Seq(S)], NEW d \in D, q[d] # <<>>,
           NEW r, r = Pop(q, d), NEW c \in S, c # Head(q[d]), Queued(q, D, c)
    PROVE  Queued(r, D, c)
<1>1. PICK f \in D : \E i \in 1..Len(q[f]) : q[f][i] = c
  BY DEF Queued
<1>2. PICK i \in 1..Len(q[f]) : q[f][i] = c
  BY <1>1
<1>3. CASE f = d
  <2>1. /\ Len(r[d]) = Len(q[d]) - 1 /\ Head(q[d]) = q[d][1] /\ Len(q[d]) \in Nat
        /\ \A j \in 1..Len(q[d]) - 1 : r[d][j] = q[d][j + 1]
    <3>1. r[d] = Tail(q[d]) /\ q[d] \in Seq(S)
      BY DEF Pop
    <3>. QED
      BY <3>1, TailFacts
  <2>2. i # 1
    BY <1>2, <1>3, <2>1
  <2>3. i - 1 \in 1..Len(r[d]) /\ r[d][i - 1] = c
    BY <1>2, <1>3, <2>1, <2>2
  <2>. QED
    BY <2>3 DEF Queued
<1>4. CASE f # d
  <2>1. r[f] = q[f]
    BY <1>4 DEF Pop
  <2>. QED
    BY <1>2, <2>1 DEF Queued
<1>. QED
  BY <1>3, <1>4

LEMMA ConnectPhase ==
    ASSUME TypeOK, PlaceInv, NEW c \in Conns, NEW s \in Services, Connect(c, s)
    PROVE  Lifecycle!Arrive(c)
<1>. USE DEF handoffVars, workerVars
<1>1. /\ link[c] = "off" /\ link'[c] = "on" /\ \A d \in Conns : d # c => link'[d] = link[d]
      /\ UNCHANGED <<hand, fdList, acceptors, lost>> /\ backlog' = Push(backlog, s, c)
  BY DEF Connect, TypeOK, ClientTypes, Push
<1>2. \A d \in Conns : InBacklog(d)' <=> InBacklog(d) \/ d = c
  <2>1. backlog \in [Services -> Seq(Conns)]
    BY DEF TypeOK, DispatchTypes
  <2>2. \A d \in Conns : Queued(backlog', Services, d) <=> Queued(backlog, Services, d) \/ d = c
    BY <1>1, <2>1, AppendKeeps
  <2>. QED
    BY <2>2 DEF InBacklog
<1>3. PhaseOf(c) = "none" /\ PhaseOf(c)' = "queued"
  BY <1>1, <1>2 DEF PhaseOf
<1>4. ASSUME NEW d \in Conns, d # c PROVE PhaseOf(d)' = PhaseOf(d)
  <2>1. IsPending(d)' = IsPending(d) /\ Served(d)' = Served(d)
    BY <1>1 DEF IsPending, Served
  <2>. QED
    BY <1>1, <1>2, <1>4, <2>1, StaysPut
<1>. QED
  BY <1>3, <1>4, OneMoves DEF Lifecycle!Arrive

LEMMA AcceptPhase ==
    ASSUME TypeOK, HandOK, PlaceInv, NEW s \in Services, AcceptConn(s)
    PROVE  \E c \in Conns : Lifecycle!TakeOver(c)
<1>. USE DEF clientVars, handoffVars, workerVars
<1>1. backlog \in [Services -> Seq(Conns)] /\ backlog[s] # <<>>
  BY DEF TypeOK, DispatchTypes, AcceptConn
<1>0. Head(backlog[s]) \in Conns
  BY <1>1
<1>. PICK c \in Conns : c = Head(backlog[s])
  BY <1>0
<1>2. /\ hand.conn = None /\ hand'.conn = c /\ UNCHANGED <<fdList, acceptors, lost, link>>
      /\ backlog' = Pop(backlog, s)
  BY DEF AcceptConn, HandOK, EmptyHand, Pop
<1>3. /\ c \in Conns /\ InBacklog(c) /\ ~InBacklog(c)'
      /\ \A d \in Conns : d # c => (InBacklog(d)' <=> InBacklog(d))
  <2>1. NoRepeats(backlog, Services)
    BY DEF PlaceInv, OnePlace
  <2>2. /\ c \in Conns /\ Queued(backlog, Services, c)
        /\ \A d \in Conns : Queued(backlog', Services, d) => Queued(backlog, Services, d) /\ d # c
    BY <1>1, <1>2, <2>1, TailKeeps
  <2>3. \A d \in Conns : d # c /\ Queued(backlog, Services, d) => Queued(backlog', Services, d)
    BY <1>1, <1>2, TailKeepsOthers
  <2>. QED
    BY <2>2, <2>3 DEF InBacklog
<1>4. \A d \in Conns : IsPending(d)' = IsPending(d) /\ Served(d)' = Served(d) /\ d # None
  BY <1>2, ConstantsAssumption DEF IsPending, Served
<1>5. PhaseOf(c) = "queued" /\ PhaseOf(c)' = "accepted"
  BY <1>2, <1>3 DEF PhaseOf, PlaceInv, NowhereOK
<1>6. ASSUME NEW d \in Conns, d # c PROVE PhaseOf(d)' = PhaseOf(d)
  BY <1>2, <1>3, <1>4, <1>6, StaysPut
<1>. QED
  BY <1>3, <1>5, <1>6, OneMoves DEF Lifecycle!TakeOver

(* The descriptor in the dispatcher's hand goes to a worker's list: it is  *)
(* accepted before and after.                                              *)
LEMMA AddSocketPhase ==
    ASSUME TypeOK, HandOK, PlaceInv, AddSocket
    PROVE  UNCHANGED [d \in Conns |-> PhaseOf(d)]
<1>. USE DEF clientVars, workerVars
<1>. DEFINE c == hand.conn
<1>1. fdList \in [Workers -> Seq(Conns)] /\ hand.wt \in Workers /\ c \in Conns
  BY DEF TypeOK, HandoffTypes, AddSocket, HandOK
<1>2. /\ hand'.conn = None /\ UNCHANGED <<backlog, acceptors, lost, link>>
      /\ fdList' = Push(fdList, hand.wt, c)
  BY DEF AddSocket, Push, TypeOK, DispatchTypes
<1>3. \A d \in Conns : IsPending(d)' <=> IsPending(d) \/ d = c
  <2>. HIDE DEF c
  <2>1. \A d \in Conns : Queued(fdList', Workers, d) <=> Queued(fdList, Workers, d) \/ d = c
    BY <1>1, <1>2, AppendKeeps
  <2>. QED
    BY <2>1 DEF IsPending
<1>4. ASSUME NEW d \in Conns PROVE PhaseOf(d)' = PhaseOf(d)
  <2>1. InBacklog(d)' = InBacklog(d) /\ Served(d)' = Served(d) /\ d # None
    BY <1>2, ConstantsAssumption DEF InBacklog, Served
  <2>. QED
    BY <1>2, <1>3, <2>1, StaysPut
<1>. QED
  BY <1>4, NoneMoves

LEMMA AttachPhase ==
    ASSUME TypeOK, PlaceInv, NEW w \in Workers, Attach(w), fdList[w] # <<>>
    PROVE  \E c \in Conns : Lifecycle!Serve(c) \/ Lifecycle!Lose(c)
<1>. USE DEF clientVars, dispatchVars
<1>1. fdList \in [Workers -> Seq(Conns)] /\ acceptors \in [Workers -> SUBSET Conns]
  BY DEF TypeOK, HandoffTypes, WorkerTypes
<1>0. Head(fdList[w]) \in Conns
  BY <1>1
<1>. PICK c \in Conns : c = Head(fdList[w])
  BY <1>0
<1>2. UNCHANGED <<backlog, hand, link>> /\ fdList' = Pop(fdList, w)
  BY DEF Attach, Pop
<1>3. /\ c \in Conns /\ IsPending(c) /\ ~IsPending(c)'
      /\ \A d \in Conns : d # c => (IsPending(d)' <=> IsPending(d))
  <2>1. NoRepeats(fdList, Workers)
    BY DEF PlaceInv, OnePlace
  <2>2. /\ c \in Conns /\ Queued(fdList, Workers, c)
        /\ \A d \in Conns : Queued(fdList', Workers, d) => Queued(fdList, Workers, d) /\ d # c
    BY <1>1, <1>2, <2>1, TailKeeps
  <2>3. \A d \in Conns : d # c /\ Queued(fdList, Workers, d) => Queued(fdList', Workers, d)
    BY <1>1, <1>2, TailKeepsOthers
  <2>. QED
    BY <2>2, <2>3 DEF IsPending
<1>4. \/ acceptors' = [acceptors EXCEPT ![w] = @ \union {c}] /\ UNCHANGED lost
      \/ UNCHANGED acceptors /\ lost' = lost \union {c}
  BY DEF Attach
<1>5. \A d \in Conns : InBacklog(d)' = InBacklog(d)
  BY <1>2 DEF InBacklog
<1>6. link[c] # "off" /\ ~InBacklog(c) /\ hand.conn # c /\ ~Served(c) /\ PhaseOf(c) = "accepted"
  BY <1>3 DEF PlaceInv, OnePlace, PlacesDisjoint, NowhereOK, PhaseOf
<1>7. CASE acceptors' = [acceptors EXCEPT ![w] = @ \union {c}] /\ UNCHANGED lost
  <2>1. Served(c)' /\ \A d \in Conns : d # c => (Served(d)' <=> Served(d))
    BY <1>1, <1>7 DEF Served
  <2>2. PhaseOf(c)' = "serving"
    BY <1>2, <1>3, <1>5, <1>6, <2>1 DEF PhaseOf
  <2>3. ASSUME NEW d \in Conns, d # c PROVE PhaseOf(d)' = PhaseOf(d)
    BY <1>2, <1>3, <1>5, <1>7, <2>1, <2>3, StaysPut
  <2>. QED
    BY <1>3, <1>6, <2>2, <2>3, OneMoves DEF Lifecycle!Serve
<1>8. CASE UNCHANGED acceptors /\ lost' = lost \union {c}
  <2>1. \A d \in Conns : Served(d)' <=> Served(d)
    BY <1>8 DEF Served
  <2>2. PhaseOf(c)' = "lost"
    BY <1>2, <1>3, <1>5, <1>6, <1>8, <2>1 DEF PhaseOf
  <2>3. ASSUME NEW d \in Conns, d # c PROVE PhaseOf(d)' = PhaseOf(d)
    BY <1>2, <1>3, <1>5, <1>8, <2>1, <2>3, StaysPut
  <2>. QED
    BY <1>3, <1>6, <2>2, <2>3, OneMoves DEF Lifecycle!Lose
<1>. QED
  BY <1>4, <1>7, <1>8

LEMMA DisconnectionPhase ==
    ASSUME TypeOK, PlaceInv, NEW w \in Workers, NEW c \in Conns, NEW armed, c \in acceptors[w],
           Disconnection(w, c, armed), UNCHANGED <<link, hand, backlog, fdList, lost>>
    PROVE  Lifecycle!Release(c)
<1>1. acceptors \in [Workers -> SUBSET Conns] /\ acceptors' = [acceptors EXCEPT ![w] = @ \ {c}]
  BY DEF Disconnection, TypeOK, WorkerTypes
<1>2. \A d \in Conns : InBacklog(d)' = InBacklog(d) /\ IsPending(d)' = IsPending(d)
  BY DEF InBacklog, IsPending
<1>3. Served(c) /\ ~Served(c)' /\ \A d \in Conns : d # c => (Served(d)' <=> Served(d))
  BY <1>1 DEF Served, PlaceInv, OnePlace, AcceptorsDisjoint
<1>4. link[c] # "off" /\ c \notin lost /\ ~InBacklog(c) /\ hand.conn # c /\ ~IsPending(c)
  BY <1>3 DEF PlaceInv, OnePlace, PlacesDisjoint, NowhereOK
<1>5. PhaseOf(c) = "serving" /\ PhaseOf(c)' = "closed"
  BY <1>2, <1>3, <1>4 DEF PhaseOf
<1>6. ASSUME NEW d \in Conns, d # c PROVE PhaseOf(d)' = PhaseOf(d)
  BY <1>2, <1>3, <1>6, StaysPut
<1>. QED
  BY <1>5, <1>6, OneMoves DEF Lifecycle!Release

LEMMA DispatchExitPhase ==
    ASSUME PlaceInv, DispatchExit
    PROVE  Lifecycle!DropListeners
<1>. USE DEF clientVars, handoffVars, workerVars
<1>1. backlog' = [s \in Services |-> <<>>] /\ UNCHANGED <<link, hand, fdList, acceptors, lost>>
  BY DEF DispatchExit
<1>2. ASSUME NEW c \in Conns
      PROVE  PhaseOf(c)' = IF PhaseOf(c) = "queued" THEN "closed" ELSE PhaseOf(c)
  <2>1. ~InBacklog(c)' /\ IsPending(c)' = IsPending(c) /\ Served(c)' = Served(c)
    BY <1>1 DEF InBacklog, IsPending, Served, Queued
  <2>2. InBacklog(c) => hand.conn # c /\ ~IsPending(c) /\ ~Served(c) /\ c \notin lost
    BY DEF PlaceInv, OnePlace, PlacesDisjoint, NowhereOK
  <2>. QED
    BY <1>1, <2>1, <2>2 DEF PhaseOf
<1>. QED
  BY <1>2 DEF Lifecycle!DropListeners

LEMMA DeleteWorkerPhase ==
    ASSUME TypeOK, PlaceInv, DeleteWorker
    PROVE  Lifecycle!DropWorker
<1>. USE DEF clientVars, dispatchVars
<1>1. Stopping \in Workers
  BY StoppingIsWorker DEF TypeOK
<1>. PICK v \in Workers : v = Stopping
  BY <1>1
<1>2. /\ fdList' = [fdList EXCEPT ![v] = <<>>] /\ acceptors' = [acceptors EXCEPT ![v] = {}]
      /\ lost' = lost \union {fdList[v][i] : i \in 1..Len(fdList[v])}
      /\ UNCHANGED <<link, hand, backlog>>
  BY DEF DeleteWorker
<1>. DEFINE S == acceptors[v]
            L == {fdList[v][i] : i \in 1..Len(fdList[v])}
<1>3. /\ fdList \in [Workers -> Seq(Conns)] /\ acceptors \in [Workers -> SUBSET Conns]
      /\ S \in SUBSET Conns /\ L \in SUBSET Conns
  BY DEF TypeOK, HandoffTypes, WorkerTypes
<1>4. NoRepeats(fdList, Workers) /\ AcceptorsDisjoint
  BY DEF PlaceInv, OnePlace
<1>5. ASSUME NEW c \in Conns PROVE IsPending(c)' <=> IsPending(c) /\ c \notin L
  <2>1. ASSUME NEW w \in Workers, NEW j \in 1..Len(fdList'[w]), fdList'[w][j] = c
        PROVE  IsPending(c) /\ c \notin L
    <3>1. w # v /\ j \in 1..Len(fdList[w]) /\ fdList[w][j] = c
      BY <1>2, <1>3, <2>1
    <3>. QED
      BY <1>4, <3>1 DEF NoRepeats, IsPending, Queued
  <2>2. ASSUME NEW w \in Workers, NEW j \in 1..Len(fdList[w]), fdList[w][j] = c, c \notin L
        PROVE  IsPending(c)'
    <3>1. w # v
      BY <2>2
    <3>2. fdList'[w] = fdList[w]
      BY <1>2, <1>3, <3>1
    <3>. QED
      BY <2>2, <3>2 DEF IsPending, Queued
  <2>. QED
    BY <2>1, <2>2 DEF IsPending, Queued
<1>6. ASSUME NEW c \in Conns PROVE Served(c)' <=> Served(c) /\ c \notin S
  BY <1>2, <1>3, <1>4 DEF Served, AcceptorsDisjoint
<1>7. \A c \in S : Served(c)
  BY DEF Served
<1>8. \A c \in L : IsPending(c)
  BY DEF IsPending, Queued
<1>9. \A c \in Conns : c \in lost' <=> c \in lost \/ c \in L
  BY <1>2
<1>. HIDE DEF S, L
<1>10. ASSUME NEW c \in S
       PROVE  c \in Conns /\ c \notin L /\ PhaseOf(c) = "serving" /\ PhaseOf(c)' = "closed"
  <2>1. c \in Conns /\ Served(c)
    BY <1>3, <1>7
  <2>2. link[c] # "off" /\ c \notin lost /\ ~InBacklog(c) /\ hand.conn # c /\ ~IsPending(c)
    BY <2>1 DEF PlaceInv, OnePlace, PlacesDisjoint, NowhereOK
  <2>3. ~IsPending(c)' /\ ~Served(c)' /\ c \notin lost' /\ c \notin L
    BY <1>5, <1>6, <1>8, <1>9, <2>1, <2>2
  <2>4. ~InBacklog(c)'
    BY <1>2, <2>2 DEF InBacklog
  <2>. QED
    BY <1>2, <2>1, <2>2, <2>3, <2>4 DEF PhaseOf
<1>11. ASSUME NEW c \in L
       PROVE  c \in Conns /\ PhaseOf(c) = "accepted" /\ PhaseOf(c)' = "lost"
  <2>1. c \in Conns /\ IsPending(c)
    BY <1>3, <1>8
  <2>2. link[c] # "off" /\ ~InBacklog(c) /\ hand.conn # c /\ ~Served(c)
    BY <2>1 DEF PlaceInv, OnePlace, PlacesDisjoint, NowhereOK
  <2>3. ~IsPending(c)' /\ ~Served(c)' /\ c \in lost'
    BY <1>5, <1>6, <1>9, <2>1, <2>2
  <2>4. ~InBacklog(c)'
    BY <1>2, <2>2 DEF InBacklog
  <2>. QED
    BY <1>2, <2>1, <2>2, <2>3, <2>4 DEF PhaseOf
<1>12. ASSUME NEW c \in Conns, c \notin S, c \notin L PROVE PhaseOf(c)' = PhaseOf(c)
  <2>1. InBacklog(c)' = InBacklog(c)
    BY <1>2 DEF InBacklog
  <2>. QED
    BY <1>2, <1>5, <1>6, <1>9, <1>12, <2>1, StaysPut
<1>. QED
  BY <1>3, <1>10, <1>11, <1>12 DEF Lifecycle!DropWorker

LEMMA StepLifecycle ==
    ASSUME TypeOK, HandOK, PlaceInv, [Next]_vars
    PROVE  [Lifecycle!LifecycleNext]_([c \in Conns |-> PhaseOf(c)])
<1>. USE DEF clientVars, dispatchVars, handoffVars, workerVars
<1>. DEFINE Goal == Lifecycle!LifecycleNext \/ UNCHANGED [c \in Conns |-> PhaseOf(c)]
<1>1. ASSUME UNCHANGED <<backlog, fdList, acceptors, lost>>, hand'.conn = hand.conn,
             \A d \in Conns : (link'[d] = "off") <=> (link[d] = "off")
      PROVE  UNCHANGED [c \in Conns |-> PhaseOf(c)]
  <2>1. ASSUME NEW d \in Conns PROVE PhaseOf(d)' = PhaseOf(d)
    <3>1. InBacklog(d)' = InBacklog(d) /\ IsPending(d)' = IsPending(d) /\ Served(d)' = Served(d)
      BY <1>1 DEF InBacklog, IsPending, Served
    <3>. QED
      BY <1>1, <3>1, StaysPut
  <2>. QED
    BY <2>1, NoneMoves
<1>2. ASSUME UNCHANGED <<link, backlog, hand, fdList, acceptors, lost>> PROVE Goal
  BY <1>1, <1>2
<1>3. ASSUME NEW c \in Conns, Client(c) PROVE Goal
  <2>1. ASSUME NEW s \in Services, Connect(c, s) PROVE Goal
    BY <2>1, ConnectPhase DEF Lifecycle!LifecycleNext
  <2>2. CASE Leave(c)
    <3>1. \A d \in Conns : (link'[d] = "off") <=> (link[d] = "off")
      BY <2>2 DEF Leave, TypeOK, ClientTypes
    <3>. QED
      BY <1>1, <2>2, <3>1 DEF Leave
  <2>3. ASSUME NEW m \in Requests, Send(c, m) PROVE Goal
    BY <1>2, <2>3 DEF Send
  <2>. QED
    BY <1>3, <2>1, <2>2, <2>3 DEF Client
<1>4. ASSUME NEW s \in Services, AcceptConn(s) PROVE Goal
  BY <1>4, AcceptPhase DEF Lifecycle!LifecycleNext
<1>5. CASE CreateConnection
  <2>1. CASE ScanCompare \/ ScanAssign
    <3>1. hand'.conn = hand.conn
      BY <2>1 DEF ScanCompare, ScanAssign, TypeOK, DispatchTypes
    <3>. QED
      BY <1>1, <2>1, <3>1 DEF ScanCompare, ScanAssign
  <2>2. CASE Notify
    <3>1. hand'.conn = hand.conn
      BY <2>2 DEF Notify, HandOK, EmptyHand
    <3>. QED
      BY <1>1, <2>2, <3>1 DEF Notify
  <2>. QED
    BY <1>5, <2>1, <2>2, AddSocketPhase DEF CreateConnection
<1>6. CASE DispatchExit
  BY <1>6, DispatchExitPhase DEF Lifecycle!LifecycleNext
<1>7. ASSUME NEW w \in Workers, Worker(w) PROVE Goal
  <2>1. ASSUME NEW c \in Conns, ReadEnd(w, c) PROVE Goal
    BY <2>1, DisconnectionPhase DEF ReadEnd, Lifecycle!LifecycleNext
  <2>2. ASSUME NEW c \in Conns, WriteToGone(w, c) PROVE Goal
    <3>1. CASE UNCHANGED acceptors
      BY <1>2, <2>2, <3>1 DEF WriteToGone
    <3>2. CASE Disconnection(w, c, TRUE)
      BY <2>2, <3>2, DisconnectionPhase DEF WriteToGone, Lifecycle!LifecycleNext
    <3>. QED
      BY <2>2, <3>1, <3>2 DEF WriteToGone
  <2>3. CASE Attach(w)
    <3>1. CASE fdList[w] = <<>>
      BY <1>2, <2>3, <3>1 DEF Attach
    <3>2. CASE fdList[w] # <<>>
      BY <2>3, <3>2, AttachPhase DEF Lifecycle!LifecycleNext
    <3>. QED
      BY <3>1, <3>2
  <2>4. CASE ReadToken(w) \/ FinishProduce(w) \/ ProduceFails(w) \/ WorkerExit(w)
    BY <1>2, <2>4 DEF ReadToken, FinishProduce, ProduceFails, ProduceNothing, ProduceDies,
                      ProduceHangs, WorkerExit
  <2>5. ASSUME NEW c \in Conns, ReadCB(w, c) \/ Flush(w, c) \/ LateEvent(w, c) PROVE Goal
    BY <1>2, <2>5 DEF ReadCB, Flush, LateEvent
  <2>. QED
    BY <1>7, <2>1, <2>2, <2>3, <2>4, <2>5 DEF Worker
<1>8. CASE Main
  <2>1. CASE DeleteWorker
    BY <2>1, DeleteWorkerPhase DEF Lifecycle!LifecycleNext
  <2>. QED
    BY <1>2, <1>8, <2>1 DEF Main, Stop, JoinDispatch, StopWorker
<1>9. CASE UNCHANGED vars
  BY <1>2, <1>9 DEF vars
<1>. QED
  BY <1>3, <1>4, <1>5, <1>6, <1>7, <1>8, <1>9 DEF Next

(* The service keeps what ConnLifecycle promises for every connection:     *)
(* each step of the dispatcher, the workers and Stop is one step of the    *)
(* life of connections, or none.                                           *)
THEOREM KeepsLifecycle == Spec => LifecycleRefined
<1>1. TypeOK /\ HandOK /\ PlaceInv /\ [Next]_vars => (TypeOK /\ HandOK /\ PlaceInv)'
  BY StepTypes, StepPlace
<1>2. TypeOK /\ HandOK /\ PlaceInv /\ [Next]_vars
         => [Lifecycle!LifecycleNext]_([c \in Conns |-> PhaseOf(c)])
  BY StepLifecycle
<1>. QED
  BY <1>1, <1>2, InitTypes, InitPlace, InitLifecycle, PTL
  DEF Spec, LifecycleRefined, Lifecycle!LifecycleSpec

-----------------------------------------------------------------------------
(* Requests and replies.                                                   *)

(* A worker serves a client while it produces for it, and the acceptor is  *)
(* there until it is done: the callbacks that delete it run on its thread. *)
ServingOK ==
    \A w \in Workers :
        /\ wpc[w] \in {"produce", "died", "hung"} => serving[w] \in acceptors[w]
        /\ wpc[w] \notin {"produce", "died", "hung"} => serving[w] = None

IsServing(c) == \E w \in Workers : serving[w] = c

LEMMA StepServing ==
    ASSUME TypeOK, ServingOK, [Next]_vars
    PROVE  ServingOK'
<1>. USE DEF clientVars, dispatchVars, handoffVars, workerVars, TypeOK, WorkerTypes
<1>1. ASSUME UNCHANGED <<wpc, serving, acceptors>> PROVE ServingOK'
  BY <1>1 DEF ServingOK
<1>2. ASSUME NEW c \in Conns, Client(c) PROVE ServingOK'
  BY <1>1, <1>2 DEF Client, Connect, Send, Leave
<1>3. ASSUME (\E s \in Services : AcceptConn(s)) \/ CreateConnection \/ DispatchExit
      PROVE  ServingOK'
  BY <1>1, <1>3 DEF AcceptConn, CreateConnection, ScanCompare, ScanAssign, AddSocket, Notify,
                    DispatchExit
<1>4. ASSUME NEW w \in Workers, Worker(w) PROVE ServingOK'
  <2>1. CASE ReadToken(w)
    BY <2>1 DEF ReadToken, ServingOK
  <2>2. CASE Attach(w)
    <3>1. \A v \in Workers : acceptors[v] \subseteq acceptors'[v]
      BY <2>2 DEF Attach
    <3>. QED
      BY <2>2, <3>1 DEF Attach, ServingOK
  <2>3. CASE FinishProduce(w)
    BY <2>3 DEF FinishProduce, ServingOK
  <2>4. CASE WorkerExit(w)
    BY <2>4 DEF WorkerExit, ServingOK
  <2>5. ASSUME NEW c \in Conns, ReadCB(w, c) PROVE ServingOK'
    <3>1. PICK isGet \in BOOLEAN : Answer(w, c, isGet)
      BY <2>5, ReadIsAnswered
    <3>. QED
      BY <2>5, <3>1 DEF ReadCB, Answer, ServingOK
  <2>8. CASE ProduceFails(w)
    BY <2>8 DEF ProduceFails, ProduceNothing, ProduceDies, ProduceHangs, ServingOK
  <2>6. ASSUME NEW c \in Conns, Flush(w, c) \/ LateEvent(w, c) PROVE ServingOK'
    BY <1>1, <2>6 DEF Flush, LateEvent
  <2>7. ASSUME NEW c \in Conns, ReadEnd(w, c) \/ WriteToGone(w, c) PROVE ServingOK'
    <3>1. wpc[w] = "idle" /\ UNCHANGED <<wpc, serving>>
      BY <2>7 DEF ReadEnd, WriteToGone
    <3>2. \A v \in Workers : v # w => acceptors'[v] = acceptors[v]
      BY <2>7 DEF ReadEnd, WriteToGone, Disconnection
    <3>. QED
      BY <3>1, <3>2 DEF ServingOK
  <2>. QED
    BY <1>4, <2>1, <2>2, <2>3, <2>4, <2>5, <2>6, <2>7, <2>8 DEF Worker
<1>5. CASE Main
  <2>1. CASE DeleteWorker
    BY <2>1, StoppingIsWorker DEF DeleteWorker, ServingOK
  <2>. QED
    BY <1>1, <1>5, <2>1 DEF Main, Stop, JoinDispatch, StopWorker
<1>6. CASE UNCHANGED vars
  BY <1>1, <1>6 DEF vars
<1>. QED
  BY <1>2, <1>3, <1>4, <1>5, <1>6 DEF Next

(* At most one worker serves a client.                                     *)
LEMMA CountServers ==
    ASSUME TypeOK, PlaceInv, ServingOK, NEW c \in Conns
    PROVE  Cardinality({w \in Workers : serving[w] = c}) = Holding(IsServing(c))
<1>1. CASE IsServing(c)
  <2>1. PICK v \in Workers : serving[v] = c
    BY <1>1 DEF IsServing
  <2>2. \A w \in Workers : serving[w] = c => c \in acceptors[w]
    BY ConstantsAssumption DEF ServingOK
  <2>3. {w \in Workers : serving[w] = c} = {v}
    BY <2>1, <2>2 DEF PlaceInv, OnePlace, AcceptorsDisjoint
  <2>. QED
    BY <1>1, <2>3, FS_Singleton DEF Holding
<1>2. CASE ~IsServing(c)
  <2>1. {w \in Workers : serving[w] = c} = {}
    BY <1>2 DEF IsServing
  <2>. QED
    BY <1>2, <2>1, FS_EmptySet DEF Holding
<1>. QED
  BY <1>1, <1>2

(* The replies that a client's requests allow.                             *)
Asked(c) == sent[c] + cuts[c]

(* What is owed to a client and what it got: never more than it asked for. *)
Owed == \A c \in Conns :
    got[c] + outbox[c] + Len(inbox[c]) + Holding(IsServing(c)) <= Asked(c)

LEMMA OwedIsNoUnaskedReply ==
    ASSUME TypeOK, PlaceInv, ServingOK
    PROVE  Owed <=> NoUnaskedReply
BY CountServers DEF Owed, Asked, NoUnaskedReply

LEMMA ClientStepOwed ==
    ASSUME TypeOK, Owed, NEW c \in Conns, Client(c)
    PROVE  Owed'
<1>. USE DEF dispatchVars, handoffVars, workerVars
<1>1. UNCHANGED <<got, outbox, serving>>
  BY DEF Client, Connect, Send, Leave
<1>2. \A d \in Conns : IsServing(d)' = IsServing(d)
  BY <1>1 DEF IsServing
<1>3. ASSUME NEW d \in Conns PROVE Len(inbox'[d]) - Len(inbox[d]) = Asked(d)' - Asked(d)
  <2>1. inbox[d] \in Seq(Unread) /\ Asked(d) \in Nat
    BY DEF Asked, TypeOK, ClientTypes
  <2>2. CASE UNCHANGED <<inbox, sent, cuts>>
    BY <2>1, <2>2 DEF Asked
  <2>3. ASSUME NEW m \in Requests, Send(c, m) PROVE Len(inbox'[d]) - Len(inbox[d]) = Asked(d)' - Asked(d)
    <3>1. CASE d = c
      <4>1. inbox'[d] = Append(inbox[d], m) /\ Asked(d)' = Asked(d) + 1
        BY <2>3, <3>1 DEF Asked, Send, TypeOK, ClientTypes
      <4>. QED
        <5>1. m \in Unread
          BY DEF Unread
        <5>. QED
          BY <2>1, <4>1, <5>1, AppendFacts
    <3>2. CASE d # c
      <4>1. inbox'[d] = inbox[d] /\ Asked(d)' = Asked(d)
        BY <2>3, <3>2 DEF Asked, Send, TypeOK, ClientTypes
      <4>. QED
        BY <2>1, <4>1
    <3>. QED
      BY <3>1, <3>2
  <2>. QED
    BY <2>2, <2>3 DEF Client, Connect, Leave
<1>4. ASSUME NEW d \in Conns
      PROVE  /\ got[d] \in Nat /\ outbox[d] \in Nat /\ Asked(d) \in Nat /\ Asked(d)' \in Nat
             /\ Len(inbox[d]) \in Nat /\ Len(inbox'[d]) \in Nat
  <2>1. ClientTypes'
    <3>1. ASSUME NEW m \in Requests, Send(c, m) PROVE ClientTypes'
      <4>1. m \in Unread
        BY DEF Unread
      <4>. QED
        BY <3>1, <4>1 DEF Send, TypeOK, ClientTypes
    <3>. QED
      BY <3>1 DEF Client, Connect, Leave, TypeOK, ClientTypes
  <2>2. sent'[d] \in Nat /\ cuts'[d] \in Nat /\ Len(inbox'[d]) \in Nat
    BY <2>1 DEF ClientTypes
  <2>3. /\ sent[d] \in Nat /\ cuts[d] \in Nat /\ got[d] \in Nat /\ outbox[d] \in Nat
        /\ Len(inbox[d]) \in Nat
    BY DEF TypeOK, ClientTypes, WorkerTypes
  <2>. QED
    BY <2>2, <2>3 DEF Asked
<1>5. ASSUME NEW d \in Conns
      PROVE  got'[d] + outbox'[d] + Len(inbox'[d]) + Holding(IsServing(d)') <= Asked(d)'
  <2>1. got[d] + outbox[d] + Len(inbox[d]) + Holding(IsServing(d)) <= Asked(d)
    BY DEF Owed
  <2>2. got'[d] = got[d] /\ outbox'[d] = outbox[d] /\ Holding(IsServing(d)') = Holding(IsServing(d))
    BY <1>1, <1>2 DEF Holding
  <2>3. Holding(IsServing(d)) \in Nat
    BY DEF Holding
  <2>. QED
    <3>1. outbox[d] + Len(inbox'[d]) + Holding(IsServing(d)) + Asked(d)
            <= outbox[d] + Len(inbox[d]) + Holding(IsServing(d)) + Asked(d)'
      <4>1. \A a, b, s1, s2, o, h \in Nat : a - b = s1 - s2 => o + a + h + s2 <= o + b + h + s1
        OBVIOUS
      <4>. QED
        BY <1>3, <1>4, <2>3, <4>1
    <3>2. PICK g \in Nat, o \in Nat, n \in Nat, n2 \in Nat, h \in Nat, s \in Nat, s2 \in Nat :
             /\ g = got[d] /\ o = outbox[d] /\ n = Len(inbox[d]) /\ n2 = Len(inbox'[d])
             /\ h = Holding(IsServing(d)) /\ s = Asked(d) /\ s2 = Asked(d)'
      BY <1>4, <2>3
    <3>3. g + o + n + h <= s /\ o + n2 + h + s <= o + n + h + s2
      BY <2>1, <3>1, <3>2
    <3>4. g + o + n2 + h <= s2
      BY <3>3
    <3>. QED
      BY <2>2, <3>2, <3>4
<1>. QED
  BY <1>5 DEF Owed, Holding

LEMMA WorkerStepOwed ==
    ASSUME TypeOK, PlaceInv, ServingOK, Owed, NEW w \in Workers, Worker(w)
    PROVE  Owed'
<1>. USE DEF clientVars, dispatchVars, handoffVars
<1>1. \A d \in Conns : /\ got[d] \in Nat /\ outbox[d] \in Nat /\ Asked(d) \in Nat
                       /\ inbox[d] \in Seq(Unread) /\ Len(inbox[d]) \in Nat
  BY DEF Asked, TypeOK, ClientTypes, WorkerTypes
<1>2. ASSUME UNCHANGED <<got, outbox, inbox, sent, cuts, serving>> PROVE Owed'
  <2>1. \A d \in Conns : IsServing(d)' = IsServing(d)
    BY <1>2 DEF IsServing
  <2>. QED
    BY <1>2, <2>1 DEF Owed, Asked, Holding
<1>3. CASE ReadToken(w) \/ Attach(w) \/ WorkerExit(w)
  BY <1>2, <1>3 DEF ReadToken, Attach, WorkerExit
<1>4. ASSUME NEW c \in Conns, ReadEnd(w, c) \/ LateEvent(w, c) PROVE Owed'
  BY <1>2, <1>4 DEF ReadEnd, LateEvent
<1>5. CASE FinishProduce(w)
  <2>1. serving[w] \in acceptors[w] /\ serving[w] \in Conns
    BY <1>5 DEF FinishProduce, ServingOK, TypeOK, WorkerTypes
  <2>. PICK c \in Conns : c = serving[w]
    BY <2>1
  <2>2. UNCHANGED <<got, inbox, sent, cuts>> /\ outbox' = [outbox EXCEPT ![c] = @ + 1]
        /\ serving' = [serving EXCEPT ![w] = None]
    BY <1>5 DEF FinishProduce
  <2>3. \A v \in Workers : serving[v] = c => v = w
    BY <2>1, ConstantsAssumption DEF ServingOK, PlaceInv, OnePlace, AcceptorsDisjoint
  <2>4. IsServing(c) /\ ~IsServing(c)'
    BY <2>2, <2>3, ConstantsAssumption DEF IsServing, TypeOK, WorkerTypes
  <2>5. ASSUME NEW d \in Conns, d # c PROVE IsServing(d)' <=> IsServing(d)
    BY <2>2, <2>5, ConstantsAssumption DEF IsServing, TypeOK, WorkerTypes
  <2>6. outbox'[c] = outbox[c] + 1 /\ \A d \in Conns : d # c => outbox'[d] = outbox[d]
    BY <2>2 DEF TypeOK, WorkerTypes
  <2>7. ASSUME NEW d \in Conns
        PROVE  got'[d] + outbox'[d] + Len(inbox'[d]) + Holding(IsServing(d)') <= Asked(d)'
    <3>1. got[d] + outbox[d] + Len(inbox[d]) + Holding(IsServing(d)) <= Asked(d)
      BY DEF Owed
    <3>2. got'[d] = got[d] /\ inbox'[d] = inbox[d] /\ Asked(d)' = Asked(d)
      BY <2>2 DEF Asked
    <3>3. CASE d = c
      <4>1. Holding(IsServing(d)) = 1 /\ Holding(IsServing(d)') = 0
        BY <2>4, <3>3 DEF Holding
      <4>. QED
        BY <1>1, <2>6, <3>1, <3>2, <3>3, <4>1
    <3>4. CASE d # c
      <4>1. Holding(IsServing(d)') = Holding(IsServing(d))
        BY <2>5, <3>4 DEF Holding
      <4>. QED
        BY <2>6, <3>1, <3>2, <3>4, <4>1
    <3>. QED
      BY <3>3, <3>4
  <2>. QED
    BY <2>7 DEF Owed, Holding
<1>6. ASSUME NEW c \in Conns, ReadCB(w, c) PROVE Owed'
  <2>1. wpc[w] = "idle" /\ c \in acceptors[w] /\ serving[w] = None /\ UNCHANGED <<got, sent>>
    BY <1>6 DEF ReadCB, ServingOK
  <2>2. ~IsServing(c)
    BY <2>1, ConstantsAssumption DEF IsServing, ServingOK, PlaceInv, OnePlace, AcceptorsDisjoint
  <2>3. /\ Len(inbox'[c]) \in Nat /\ Asked(c)' \in Nat
        /\ Len(inbox'[c]) + Asked(c) + 1 <= Len(inbox[c]) + Asked(c)'
        /\ \A d \in Conns : d # c => inbox'[d] = inbox[d] /\ Asked(d)' = Asked(d)
    <3>1. PICK n \in 0..Len(inbox[c]) :
             \/ /\ n > 0 /\ UNCHANGED cuts
                /\ inbox' = [inbox EXCEPT ![c] = SubSeq(@, n + 1, Len(@))]
             \/ /\ n < Len(inbox[c])
                /\ inbox' = [inbox EXCEPT ![c] = <<"rest">> \o SubSeq(@, n + 2, Len(@))]
                /\ cuts' = [cuts EXCEPT ![c] = @ + 1]
      BY <1>6 DEF ReadCB
    <3>2. inbox \in [Conns -> Seq(Unread)] /\ cuts \in [Conns -> Nat] /\ sent \in [Conns -> Nat]
      BY DEF TypeOK, ClientTypes
    <3>3. CASE /\ n > 0 /\ UNCHANGED cuts
               /\ inbox' = [inbox EXCEPT ![c] = SubSeq(@, n + 1, Len(@))]
      <4>1. Len(inbox'[c]) = Len(inbox[c]) - n /\ \A d \in Conns : d # c => inbox'[d] = inbox[d]
        BY <1>1, <3>2, <3>3, ReadRests
      <4>2. \A d \in Conns : Asked(d)' = Asked(d)
        BY <2>1, <3>3 DEF Asked
      <4>. QED
        BY <1>1, <3>3, <4>1, <4>2
    <3>4. CASE /\ n < Len(inbox[c])
               /\ inbox' = [inbox EXCEPT ![c] = <<"rest">> \o SubSeq(@, n + 2, Len(@))]
               /\ cuts' = [cuts EXCEPT ![c] = @ + 1]
      <4>1. Len(inbox'[c]) = Len(inbox[c]) - n /\ \A d \in Conns : d # c => inbox'[d] = inbox[d]
        <5>1. inbox'[c] = <<"rest">> \o SubSeq(inbox[c], n + 2, Len(inbox[c]))
              /\ \A d \in Conns : d # c => inbox'[d] = inbox[d]
          BY <3>2, <3>4
        <5>. QED
          BY <1>1, <3>4, <5>1, ReadRests
      <4>2. Asked(c)' = Asked(c) + 1 /\ \A d \in Conns : d # c => Asked(d)' = Asked(d)
        BY <2>1, <3>2, <3>4 DEF Asked
      <4>. QED
        BY <1>1, <3>4, <4>1, <4>2
    <3>. QED
      BY <3>1, <3>3, <3>4
  <2>5. /\ \A d \in Conns : d # c => (IsServing(d)' <=> IsServing(d)) /\ outbox'[d] = outbox[d]
        /\ outbox'[c] + Holding(IsServing(c)') <= outbox[c] + 1
        /\ outbox'[c] \in Nat
    <3>1. CASE serving' = [serving EXCEPT ![w] = c] /\ UNCHANGED outbox
      <4>1. \A d \in Conns : d # c => (IsServing(d)' <=> IsServing(d))
        BY <2>1, <3>1, ConstantsAssumption DEF IsServing, TypeOK, WorkerTypes
      <4>. QED
        BY <1>1, <3>1, <4>1 DEF Holding
    <3>2. CASE UNCHANGED serving /\ outbox' = [outbox EXCEPT ![c] = @ + 1]
      <4>1. \A d \in Conns : IsServing(d)' <=> IsServing(d)
        BY <3>2 DEF IsServing
      <4>2. outbox'[c] = outbox[c] + 1 /\ \A d \in Conns : d # c => outbox'[d] = outbox[d]
        BY <3>2 DEF TypeOK, WorkerTypes
      <4>. QED
        BY <1>1, <2>2, <4>1, <4>2 DEF Holding
    <3>. QED
      BY <1>6, <3>1, <3>2, ReadIsAnswered DEF Answer
  <2>6. ASSUME NEW d \in Conns
        PROVE  got'[d] + outbox'[d] + Len(inbox'[d]) + Holding(IsServing(d)') <= Asked(d)'
    <3>1. got[d] + outbox[d] + Len(inbox[d]) + Holding(IsServing(d)) <= Asked(d)
      BY DEF Owed
    <3>2. got'[d] = got[d]
      BY <2>1
    <3>3. CASE d = c
      <4>1. Holding(IsServing(c)) = 0 /\ Holding(IsServing(c)') \in Nat
        BY <2>2 DEF Holding
      <4>2. got[c] + outbox[c] + Len(inbox[c]) <= Asked(c) /\ got[c] \in Nat /\ outbox[c] \in Nat
            /\ Len(inbox[c]) \in Nat /\ Asked(c) \in Nat
        BY <1>1, <3>1, <3>3, <4>1
      <4>3. got[c] + outbox'[c] + Len(inbox'[c]) + Holding(IsServing(c)') <= Asked(c)'
        <5>1. PICK g \in Nat, o \in Nat, n \in Nat, s \in Nat :
                 g = got[c] /\ o = outbox[c] /\ n = Len(inbox[c]) /\ s = Asked(c)
          BY <4>2
        <5>2. PICK o2 \in Nat, n2 \in Nat, h2 \in Nat, s2 \in Nat :
                 /\ o2 = outbox'[c] /\ n2 = Len(inbox'[c]) /\ h2 = Holding(IsServing(c)')
                 /\ s2 = Asked(c)'
          BY <2>3, <2>5, <4>1
        <5>3. g + o + n <= s /\ n2 + s + 1 <= n + s2 /\ o2 + h2 <= o + 1
          BY <2>3, <2>5, <4>2, <5>1, <5>2
        <5>4. g + o2 + n2 + h2 <= s2
          BY <5>3
        <5>. QED
          BY <5>1, <5>2, <5>4
      <4>. QED
        BY <3>2, <3>3, <4>3
    <3>4. CASE d # c
      <4>1. Holding(IsServing(d)') = Holding(IsServing(d))
        BY <2>5, <3>4 DEF Holding
      <4>. QED
        BY <2>3, <2>5, <3>1, <3>2, <3>4, <4>1
    <3>. QED
      BY <3>3, <3>4
  <2>. QED
    BY <2>6 DEF Owed, Holding
<1>8. CASE ProduceFails(w)
  <2>1. ASSUME NEW d \in Conns
        PROVE  got'[d] + outbox'[d] + Len(inbox'[d]) + Holding(IsServing(d)') <= Asked(d)'
    <3>1. got[d] + outbox[d] + Len(inbox[d]) + Holding(IsServing(d)) <= Asked(d)
      BY DEF Owed
    <3>2. UNCHANGED <<got, outbox, inbox, sent, cuts>>
          /\ (UNCHANGED serving \/ serving' = [serving EXCEPT ![w] = None])
      BY <1>8 DEF ProduceFails, ProduceNothing, ProduceDies, ProduceHangs
    <3>3. IsServing(d)' => IsServing(d)
      BY <3>2, ConstantsAssumption DEF IsServing, TypeOK, WorkerTypes
    <3>4. /\ Holding(IsServing(d)') <= Holding(IsServing(d))
          /\ Holding(IsServing(d)') \in Nat /\ Holding(IsServing(d)) \in Nat
      BY <3>3 DEF Holding
    <3>5. got'[d] = got[d] /\ outbox'[d] = outbox[d] /\ inbox'[d] = inbox[d] /\ Asked(d)' = Asked(d)
      BY <3>2 DEF Asked
    <3>. QED
      BY <1>1, <3>1, <3>4, <3>5
  <2>. QED
    BY <2>1 DEF Owed, Holding
<1>7. ASSUME NEW c \in Conns, Flush(w, c) \/ WriteToGone(w, c) PROVE Owed'
  <2>1. outbox[c] > 0 /\ UNCHANGED <<inbox, sent, cuts, serving>>
    BY <1>7 DEF Flush, WriteToGone
  <2>2. \A d \in Conns : IsServing(d)' = IsServing(d)
    BY <2>1 DEF IsServing
  <2>3. /\ \A d \in Conns : d # c => got'[d] = got[d] /\ outbox'[d] = outbox[d]
        /\ got'[c] \in Nat /\ outbox'[c] \in Nat
        /\ got'[c] + outbox'[c] <= got[c] + outbox[c]
    <3>1. CASE Flush(w, c)
      <4>1. outbox'[c] = outbox[c] - 1 /\ got'[c] = got[c] + 1
            /\ \A d \in Conns : d # c => got'[d] = got[d] /\ outbox'[d] = outbox[d]
        BY <3>1 DEF Flush, TypeOK, ClientTypes, WorkerTypes
      <4>. QED
        BY <1>1, <2>1, <4>1
    <3>2. CASE WriteToGone(w, c)
      <4>1. UNCHANGED got /\ (outbox' = outbox \/ outbox' = [outbox EXCEPT ![c] = @ - 1])
        BY <3>2 DEF WriteToGone
      <4>2. outbox'[c] \in {outbox[c], outbox[c] - 1} /\ \A d \in Conns : d # c => outbox'[d] = outbox[d]
        BY <4>1 DEF TypeOK, WorkerTypes
      <4>. QED
        BY <1>1, <2>1, <4>1, <4>2
    <3>. QED
      BY <1>7, <3>1, <3>2
  <2>4. ASSUME NEW d \in Conns
        PROVE  got'[d] + outbox'[d] + Len(inbox'[d]) + Holding(IsServing(d)') <= Asked(d)'
    <3>1. got[d] + outbox[d] + Len(inbox[d]) + Holding(IsServing(d)) <= Asked(d)
      BY DEF Owed
    <3>2. inbox'[d] = inbox[d] /\ Asked(d)' = Asked(d) /\ Holding(IsServing(d)') = Holding(IsServing(d))
      BY <2>1, <2>2 DEF Asked
    <3>3. Holding(IsServing(d)) \in Nat
      BY DEF Holding
    <3>4. CASE d = c
      BY <1>1, <2>3, <3>1, <3>2, <3>3, <3>4
    <3>5. CASE d # c
      BY <2>3, <3>1, <3>2, <3>5
    <3>. QED
      BY <3>4, <3>5
  <2>. QED
    BY <2>4 DEF Owed, Holding
<1>. QED
  BY <1>3, <1>4, <1>5, <1>6, <1>7, <1>8 DEF Worker

LEMMA StepOwed ==
    ASSUME TypeOK, PlaceInv, ServingOK, Owed, [Next]_vars
    PROVE  Owed'
<1>. USE DEF clientVars, dispatchVars, handoffVars, workerVars
<1>1. ASSUME UNCHANGED <<got, outbox, inbox, sent, cuts, serving>> PROVE Owed'
  <2>1. \A d \in Conns : IsServing(d)' = IsServing(d)
    BY <1>1 DEF IsServing
  <2>. QED
    BY <1>1, <2>1 DEF Owed, Asked, Holding
<1>2. ASSUME (\E s \in Services : AcceptConn(s)) \/ CreateConnection \/ DispatchExit PROVE Owed'
  BY <1>1, <1>2 DEF AcceptConn, CreateConnection, ScanCompare, ScanAssign, AddSocket, Notify,
                    DispatchExit
<1>3. CASE Main
  BY <1>1, <1>3 DEF Main, Stop, JoinDispatch, StopWorker, DeleteWorker
<1>4. CASE UNCHANGED vars
  BY <1>1, <1>4 DEF vars
<1>. QED
  BY <1>2, <1>3, <1>4, ClientStepOwed, WorkerStepOwed DEF Next

LEMMA InitOwed == Init => ServingOK /\ Owed
<1>. SUFFICES ASSUME Init PROVE ServingOK /\ Owed
  OBVIOUS
<1>1. ServingOK
  BY DEF Init, ServingOK
<1>2. \A c \in Conns : ~IsServing(c)
  BY ConstantsAssumption DEF Init, IsServing
<1>. QED
  BY <1>1, <1>2 DEF Init, Owed, Asked, Holding

(* No client gets more replies than it made requests and reads ended       *)
(* inside one of them, however requests are joined or cut by the reads and *)
(* whatever else the workers do.                                           *)
THEOREM RepliesWereAsked == Spec => []NoUnaskedReply
<1>. DEFINE Inv == TypeOK /\ HandOK /\ PlaceInv /\ ServingOK /\ Owed
<1>1. Init => Inv
  BY InitTypes, InitPlace, InitOwed
<1>2. Inv /\ [Next]_vars => Inv'
  BY StepTypes, StepPlace, StepServing, StepOwed
<1>3. Inv => NoUnaskedReply
  BY OwedIsNoUnaskedReply
<1>. QED
  BY <1>1, <1>2, <1>3, PTL DEF Spec

-----------------------------------------------------------------------------
(* What can end the process.                                               *)

(* Only a client that left with a reply still buffered has a deleted       *)
(* acceptor with an event armed on it.                                     *)
StaleOK ==
    \A w \in Workers : \A c \in stale[w] :
        PhaseOf(c) = "closed" /\ link[c] = "gone" /\ outbox[c] > 0

LEMMA MoveKeepsClosed ==
    ASSUME NEW c \in Conns, PhaseOf(c) = "closed",
           NEW d \in Conns, NEW from, NEW to, from # "closed", Lifecycle!Move(d, from, to)
    PROVE  PhaseOf(c)' = "closed"
<1>. DEFINE phase == [b \in Conns |-> PhaseOf(b)]
<1>1. phase[c] = "closed" /\ phase'[c] = PhaseOf(c)'
  OBVIOUS
<1>. QED
  BY <1>1 DEF Lifecycle!Move

(* A closed connection is never opened again.                              *)
LEMMA ClosedStays ==
    ASSUME TypeOK, HandOK, PlaceInv, [Next]_vars, NEW c \in Conns, PhaseOf(c) = "closed"
    PROVE  PhaseOf(c)' = "closed"
<1>. DEFINE phase == [d \in Conns |-> PhaseOf(d)]
<1>1. [Lifecycle!LifecycleNext]_phase
  BY StepLifecycle
<1>2. phase[c] = "closed" /\ phase'[c] = PhaseOf(c)'
  OBVIOUS
<1>4. CASE \E d \in Conns : \/ Lifecycle!Arrive(d) \/ Lifecycle!TakeOver(d) \/ Lifecycle!Serve(d)
                            \/ Lifecycle!Release(d) \/ Lifecycle!Lose(d)
  <2>. PICK d \in Conns : \/ Lifecycle!Arrive(d) \/ Lifecycle!TakeOver(d) \/ Lifecycle!Serve(d)
                          \/ Lifecycle!Release(d) \/ Lifecycle!Lose(d)
    BY <1>4
  <2>1. CASE Lifecycle!Arrive(d)
    BY MoveKeepsClosed, <2>1 DEF Lifecycle!Arrive
  <2>2. CASE Lifecycle!TakeOver(d)
    BY MoveKeepsClosed, <2>2 DEF Lifecycle!TakeOver
  <2>3. CASE Lifecycle!Serve(d)
    BY MoveKeepsClosed, <2>3 DEF Lifecycle!Serve
  <2>4. CASE Lifecycle!Release(d)
    BY MoveKeepsClosed, <2>4 DEF Lifecycle!Release
  <2>5. CASE Lifecycle!Lose(d)
    BY MoveKeepsClosed, <2>5 DEF Lifecycle!Lose
  <2>. QED
    BY <2>1, <2>2, <2>3, <2>4, <2>5
<1>5. CASE Lifecycle!DropWorker
  BY <1>2, <1>5 DEF Lifecycle!DropWorker
<1>6. CASE Lifecycle!DropListeners
  BY <1>2, <1>6 DEF Lifecycle!DropListeners
<1>7. CASE UNCHANGED phase
  BY <1>2, <1>7
<1>. QED
  BY <1>1, <1>2, <1>4, <1>5, <1>6, <1>7 DEF Lifecycle!LifecycleNext

LEMMA ClosedIsUnserved ==
    ASSUME NEW c \in Conns, PhaseOf(c) = "closed"
    PROVE  \A w \in Workers : c \notin acceptors[w]
BY DEF PhaseOf, Served

(* No step takes a reply from a client whose connection is closed.         *)
LEMMA StaleKeeps ==
    ASSUME TypeOK, HandOK, PlaceInv, ServingOK, [Next]_vars,
           NEW c \in Conns, PhaseOf(c) = "closed", link[c] = "gone", outbox[c] > 0
    PROVE  PhaseOf(c)' = "closed" /\ link'[c] = "gone" /\ outbox'[c] > 0
<1>. USE DEF clientVars, dispatchVars, handoffVars, workerVars
<1>1. PhaseOf(c)' = "closed" /\ \A w \in Workers : c \notin acceptors[w]
  BY ClosedStays, ClosedIsUnserved
<1>2. outbox \in [Conns -> Nat]
  BY DEF TypeOK, WorkerTypes
<1>3. CASE UNCHANGED <<link, outbox>>
  BY <1>1, <1>3
<1>4. ASSUME NEW d \in Conns, Client(d) PROVE link'[c] = "gone" /\ outbox'[c] > 0
  <2>1. UNCHANGED outbox
    BY <1>4 DEF Client, Connect, Send, Leave
  <2>2. link'[c] = "gone"
    BY <1>4 DEF Client, Connect, Send, Leave, TypeOK, ClientTypes
  <2>. QED
    BY <2>1, <2>2
<1>5. ASSUME NEW w \in Workers, Worker(w) PROVE link'[c] = "gone" /\ outbox'[c] > 0
  <2>1. UNCHANGED link
    BY <1>5 DEF Worker, ReadToken, Attach, FinishProduce, WorkerExit, ProduceFails, ProduceNothing, ProduceDies, ProduceHangs, ReadCB, Answer, Flush, ReadEnd,
                WriteToGone, LateEvent
  <2>2. CASE ReadToken(w) \/ Attach(w) \/ ProduceFails(w) \/ WorkerExit(w)
    BY <1>2, <2>1, <2>2 DEF ReadToken, Attach, ProduceFails, ProduceNothing, ProduceDies,
                            ProduceHangs, WorkerExit
  <2>3. CASE FinishProduce(w)
    <3>1. serving[w] \in acceptors[w]
      BY <2>3 DEF FinishProduce, ServingOK
    <3>2. outbox'[c] = outbox[c]
      BY <1>1, <1>2, <2>3, <3>1 DEF FinishProduce
    <3>. QED
      BY <2>1, <3>2
  <2>4. ASSUME NEW d \in Conns, ReadEnd(w, d) \/ LateEvent(w, d)
        PROVE  link'[c] = "gone" /\ outbox'[c] > 0
    BY <2>1, <2>4 DEF ReadEnd, LateEvent
  <2>5. ASSUME NEW d \in Conns, ReadCB(w, d) \/ Flush(w, d) \/ WriteToGone(w, d)
        PROVE  link'[c] = "gone" /\ outbox'[c] > 0
    <3>1. d \in acceptors[w] /\ d # c
      BY <1>1, <2>5 DEF ReadCB, Flush, WriteToGone
    <3>2. outbox'[c] = outbox[c]
      BY <1>2, <2>5, <3>1, ReadIsAnswered DEF Answer, Flush, WriteToGone
    <3>. QED
      BY <2>1, <3>2
  <2>. QED
    BY <1>5, <2>2, <2>3, <2>4, <2>5 DEF Worker
<1>6. CASE (\E s \in Services : AcceptConn(s)) \/ CreateConnection \/ DispatchExit
  BY <1>3, <1>6 DEF AcceptConn, CreateConnection, ScanCompare, ScanAssign, AddSocket, Notify,
                    DispatchExit
<1>7. CASE Main
  BY <1>3, <1>7 DEF Main, Stop, JoinDispatch, StopWorker, DeleteWorker
<1>8. CASE UNCHANGED vars
  BY <1>3, <1>8 DEF vars
<1>. QED
  BY <1>1, <1>3, <1>4, <1>5, <1>6, <1>7, <1>8 DEF Next

(* The client of an acceptor that EventCB deletes has left for good.       *)
LEMMA Abandons ==
    ASSUME TypeOK, HandOK, PlaceInv, NEW w \in Workers, NEW c \in Conns, NEW armed \in BOOLEAN,
           c \in acceptors[w], link[c] = "gone", armed => outbox[c] > 0, Disconnection(w, c, armed),
           UNCHANGED <<link, hand, backlog, fdList, lost, outbox>>
    PROVE  \A v \in Workers : \A d \in stale'[v] :
               d \in stale[v] \/ (PhaseOf(d)' = "closed" /\ link'[d] = "gone" /\ outbox'[d] > 0)
<1>1. Lifecycle!Release(c)
  BY DisconnectionPhase
<1>2. PhaseOf(c)' = "closed"
  BY <1>1 DEF Lifecycle!Release, Lifecycle!Move
<1>3. \A v \in Workers : \A d \in stale'[v] : d \in stale[v] \/ (d = c /\ armed)
  BY DEF Disconnection, TypeOK, WorkerTypes
<1>. QED
  BY <1>2, <1>3

LEMMA StepStale ==
    ASSUME TypeOK, HandOK, PlaceInv, ServingOK, StaleOK, [Next]_vars
    PROVE  StaleOK'
<1>. USE DEF clientVars, dispatchVars, handoffVars, workerVars
<1>. DEFINE New == \A v \in Workers : \A d \in stale'[v] :
                       \/ d \in stale[v]
                       \/ PhaseOf(d)' = "closed" /\ link'[d] = "gone" /\ outbox'[d] > 0
<1>1. ASSUME \A v \in Workers : stale'[v] \subseteq stale[v] PROVE New
  BY <1>1
<1>2. ASSUME NEW w \in Workers, Worker(w) PROVE New
  <2>1. CASE ReadToken(w) \/ Attach(w) \/ FinishProduce(w) \/ ProduceFails(w) \/ WorkerExit(w)
    <3>1. \A v \in Workers : stale'[v] \subseteq stale[v]
      BY <2>1 DEF ReadToken, Attach, FinishProduce, ProduceFails, ProduceNothing, ProduceDies,
                  ProduceHangs, WorkerExit, TypeOK, WorkerTypes
    <3>. QED
      BY <1>1, <3>1
  <2>2. ASSUME NEW c \in Conns, ReadCB(w, c) \/ Flush(w, c) \/ LateEvent(w, c) PROVE New
    <3>1. \A v \in Workers : stale'[v] \subseteq stale[v]
      BY <2>2 DEF ReadCB, Flush, LateEvent, TypeOK, WorkerTypes
    <3>. QED
      BY <1>1, <3>1
  <2>3. ASSUME NEW c \in Conns, ReadEnd(w, c) PROVE New
    <3>1. (outbox[c] > 0) \in BOOLEAN
      OBVIOUS
    <3>. QED
      BY <2>3, <3>1, Abandons DEF ReadEnd
  <2>4. ASSUME NEW c \in Conns, WriteToGone(w, c) PROVE New
    <3>1. CASE UNCHANGED stale
      BY <1>1, <3>1
    <3>2. CASE Disconnection(w, c, TRUE) /\ UNCHANGED outbox
      BY <2>4, <3>2, Abandons DEF WriteToGone
    <3>. QED
      BY <2>4, <3>1, <3>2 DEF WriteToGone
  <2>. QED
    BY <1>2, <2>1, <2>2, <2>3, <2>4 DEF Worker
<1>3. ASSUME UNCHANGED stale PROVE New
  BY <1>3
<1>4. New
  <2>1. ASSUME NEW c \in Conns, Client(c) PROVE New
    BY <1>3, <2>1 DEF Client, Connect, Send, Leave
  <2>2. CASE (\E s \in Services : AcceptConn(s)) \/ CreateConnection \/ DispatchExit
    BY <1>3, <2>2 DEF AcceptConn, CreateConnection, ScanCompare, ScanAssign, AddSocket, Notify,
                      DispatchExit
  <2>3. CASE Main
    BY <1>3, <2>3 DEF Main, Stop, JoinDispatch, StopWorker, DeleteWorker
  <2>4. CASE UNCHANGED vars
    BY <1>3, <2>4 DEF vars
  <2>. QED
    BY <1>2, <2>1, <2>2, <2>3, <2>4 DEF Next
<1>5. ASSUME NEW v \in Workers, NEW d \in stale[v]
      PROVE  PhaseOf(d)' = "closed" /\ link'[d] = "gone" /\ outbox'[d] > 0
  BY <1>5, StaleKeeps DEF StaleOK, TypeOK, WorkerTypes
<1>. QED
  BY <1>4, <1>5 DEF StaleOK

(* The step that ends the process, and nothing happens after it.           *)
LEMMA StepDies ==
    ASSUME TypeOK, HandOK, StopOK, PlaceInv, StaleOK, KnownDeaths, [Next]_vars
    PROVE  KnownDeaths'
<1>. USE DEF clientVars, dispatchVars, handoffVars, workerVars, stopVars
<1>. DEFINE Abandoned == \E c \in Conns : link[c] = "gone" /\ outbox[c] > 0
<1>1. CASE crashed
  <2>1. UNCHANGED vars
    BY <1>1 DEF Next, Client, Connect, Send, Leave, AcceptConn, CreateConnection, ScanCompare,
                ScanAssign, AddSocket, Notify, DispatchExit, Worker, ReadToken, Attach,
                FinishProduce, WorkerExit, ProduceFails, ProduceNothing, ProduceDies, ProduceHangs, ReadCB, Answer, Flush, ReadEnd, WriteToGone, LateEvent, Main,
                Stop, JoinDispatch, StopWorker, DeleteWorker
  <2>. QED
    BY <2>1 DEF vars, KnownDeaths
<1>2. CASE ~crashed
  <2>1. CASE UNCHANGED crashed
    BY <1>2, <2>1 DEF KnownDeaths, TypeOK
  <2>2. ASSUME NEW w \in Workers, NEW c \in Conns, WriteToGone(w, c)
        PROVE  KnownDeaths'
    <3>1. CASE UNCHANGED crashed
      BY <2>1, <3>1
    <3>2. CASE UNCHANGED outbox
      BY <2>2, <3>2 DEF WriteToGone, KnownDeaths
    <3>. QED
      BY <2>2, <3>1, <3>2 DEF WriteToGone
  <2>3. ASSUME NEW w \in Workers, NEW c \in Conns, LateEvent(w, c)
        PROVE  KnownDeaths'
    <3>1. link[c] = "gone" /\ outbox[c] > 0 /\ UNCHANGED <<link, outbox>>
      BY <2>3 DEF LateEvent, StaleOK
    <3>. QED
      BY <3>1 DEF KnownDeaths
  <2>4. CASE DeleteWorker
    BY <2>4 DEF DeleteWorker, KnownDeaths
  <2>5. ASSUME NEW w \in Workers, ProduceFails(w)
        PROVE  KnownDeaths'
    <3>1. CASE UNCHANGED crashed
      BY <2>1, <3>1
    <3>2. CASE ProduceDies(w)
      <4>1. wpc'[w] = "died"
        BY <3>2 DEF ProduceDies, TypeOK, WorkerTypes
      <4>. QED
        BY <4>1 DEF KnownDeaths
    <3>. QED
      BY <2>5, <3>1, <3>2 DEF ProduceFails, ProduceNothing, ProduceHangs
  <2>6. ASSUME NEW w \in Workers, Worker(w)
        PROVE  KnownDeaths'
    <3>1. ASSUME NEW c \in Conns, ReadCB(w, c) \/ Flush(w, c) \/ ReadEnd(w, c)
          PROVE  UNCHANGED crashed
      BY <3>1 DEF ReadCB, Flush, ReadEnd
    <3>2. CASE ReadToken(w) \/ Attach(w) \/ FinishProduce(w) \/ WorkerExit(w)
      BY <2>1, <3>2 DEF ReadToken, Attach, FinishProduce, WorkerExit
    <3>. QED
      BY <2>1, <2>2, <2>3, <2>5, <2>6, <3>1, <3>2 DEF Worker
  <2>. QED
    BY <2>1, <2>4, <2>6
    DEF Next, Client, Connect, Send, Leave, AcceptConn, CreateConnection, ScanCompare, ScanAssign,
        AddSocket, Notify, DispatchExit, Main, Stop, JoinDispatch, StopWorker, vars
<1>. QED
  BY <1>1, <1>2

(* A service that has not been stopped ends in the midst of a production,  *)
(* or because a client left with a reply waiting for it.                   *)
THEOREM DeathHasCause == Spec => []KnownDeaths
<1>. DEFINE Inv == /\ TypeOK /\ HandOK /\ StopOK /\ PlaceInv /\ ServingOK /\ StaleOK
                   /\ KnownDeaths
<1>1. Init => Inv
  <2>1. Init => StaleOK /\ KnownDeaths
    BY DEF Init, StaleOK, KnownDeaths
  <2>. QED
    BY <2>1, InitTypes, InitStop, InitPlace, InitOwed
<1>2. Inv /\ [Next]_vars => Inv'
  BY StepTypes, StepStop, StepPlace, StepServing, StepStale, StepDies
<1>. QED
  BY <1>1, <1>2, PTL DEF Spec
=============================================================================
