---------------------------- MODULE ConnLifecycle ----------------------------
(***************************************************************************)
(* What the stream service promises for every client connection, whatever  *)
(* threads, pipes and locks it is built from.  A connection only moves     *)
(* forward:                                                                *)
(*                                                                         *)
(*   none -> queued -> accepted -> serving -> closed                       *)
(*                                                                         *)
(* It is "queued" while the kernel holds it for the listener, "accepted"   *)
(* while the service owns its descriptor but has no CAcceptor for it,      *)
(* "serving" while exactly one CAcceptor exists for it, and "closed" once  *)
(* that CAcceptor is deleted or the listener is freed under it.  A         *)
(* descriptor the service gave up without closing is "lost".               *)
(***************************************************************************)

CONSTANT Conns            \* the clients' connections

VARIABLE phase            \* phase[c]: where connection c stands

Phases == {"none", "queued", "accepted", "serving", "closed", "lost"}

LifecycleTypeOK == phase \in [Conns -> Phases]

LifecycleInit == phase = [c \in Conns |-> "none"]

Move(c, from, to) ==
    /\ phase[c] = from
    /\ phase' = [phase EXCEPT ![c] = to]

\* The client's handshake completes.
Arrive(c) == Move(c, "none", "queued")

\* The dispatcher thread takes the descriptor.
TakeOver(c) == Move(c, "queued", "accepted")

\* A worker thread builds the connection's one CAcceptor.
Serve(c) == Move(c, "accepted", "serving")

\* The worker's Disconnection.
Release(c) == Move(c, "serving", "closed")

\* The CAcceptor could not be built: the descriptor stays open, owned by nobody.
Lose(c) == Move(c, "accepted", "lost")

\* The destructor of a worker thread deletes all its CAcceptors at once, and the
\* descriptors still in its list are forgotten.
DropWorker ==
    \E S \in SUBSET Conns, L \in SUBSET Conns :
        /\ \A c \in S : phase[c] = "serving"
        /\ \A c \in L : phase[c] = "accepted"
        /\ phase' = [c \in Conns |-> IF c \in S THEN "closed"
                                     ELSE IF c \in L THEN "lost" ELSE phase[c]]

\* The end of the dispatcher thread frees the listeners and what they had queued.
DropListeners ==
    phase' = [c \in Conns |-> IF phase[c] = "queued" THEN "closed" ELSE phase[c]]

LifecycleNext ==
    \/ \E c \in Conns : Arrive(c) \/ TakeOver(c) \/ Serve(c) \/ Release(c) \/ Lose(c)
    \/ DropWorker
    \/ DropListeners

LifecycleSpec == LifecycleInit /\ [][LifecycleNext]_phase
==============================================================================
