--------------------------- MODULE MCStreamServer ---------------------------
(***************************************************************************)
(* Instances of StreamServer for TLC.  The 5 services with 10 threads each *)
(* of CAppContext become one service with two workers, where the choice    *)
(* between workers matters, or two services with one worker each, where    *)
(* the shared dispatcher and the end of two managers matter.               *)
(***************************************************************************)
EXTENDS StreamServer, TLC

CONSTANTS c1, c2, c3, c4, s1, s2, w1, w2

OneServiceTwoWorkers == s1 :> <<w1, w2>>
OneServiceOrder == <<s1>>

TwoServicesOneWorkerEach == (s1 :> <<w1>>) @@ (s2 :> <<w2>>)
TwoServicesOrder == <<s1, s2>>

AnyService == [c \in Conns |-> Services]
AnyOfFirst == [c \in Conns |-> IF c = c1 THEN Requests ELSE {"get"}]

\* c1 asks twice, c2 once and c3 never; one read ends inside a request of c1.
FirstTwice == (c1 :> 2) @@ (c2 :> 1) @@ (c3 :> 0)
FirstIsCut == [c \in Conns |-> IF c = c1 THEN 1 ELSE 0]

\* A get of c1 keeps w1 busy while c2 fills its pipe and c3 blocks the dispatcher in the
\* write of a token; c4 asks the other service meanwhile.
OnlyLastElsewhere == [c \in Conns |-> IF c = c4 THEN {s2} ELSE {s1}]
FirstAndLastAsk == [c \in Conns |-> IF c \in {c1, c4} THEN 1 ELSE 0]
GetsOnly == [c \in Conns |-> {"get"}]
NoCuts == [c \in Conns |-> 0]
=============================================================================
