------------------------------ MODULE Cameras ------------------------------
(***************************************************************************)
(* Either camera backend and the client that owns it, against the promise  *)
(* of ICamera.                                                             *)
(***************************************************************************)
EXTENDS SimulatedPublisher, LibcameraPublisher

vars == <<publisherVars, fdVars, cameraVars>>

(* The variables' types; descriptors and camera are held only by a worker. *)
TypeOK ==
  /\ PublisherTypeOK /\ SimTypeOK /\ LibTypeOK
  /\ thread # "live" => stopFd = "none" /\ held = {}

Init == PublisherInit /\ SimInit /\ LibInit

Common ==
  /\ Start \/ Destroy \/ Join \/ WorkerEnds
  /\ UNCHANGED <<fdVars, cameraVars>>

Next ==
  \/ Common
  \/ SimNext /\ UNCHANGED cameraVars
  \/ LibNext /\ UNCHANGED fdVars

(* A call that has begun goes on, and so do the worker and libcamera's     *)
(* thread between the points where they wait.  Nothing says that the       *)
(* client calls, that the timer or the camera delivers a frame, or that a  *)
(* thread is woken without being told.                                     *)
ClientStep ==
  \/ SimClientSteps /\ UNCHANGED cameraVars
  \/ LibClientSteps /\ UNCHANGED fdVars
  \/ Join /\ UNCHANGED <<fdVars, cameraVars>>

WorkerStep ==
  \/ SimWorkerSteps /\ UNCHANGED cameraVars
  \/ LibWorkerSteps /\ UNCHANGED fdVars
  \/ WorkerEnds /\ UNCHANGED <<fdVars, cameraVars>>

Fairness ==
  /\ WF_vars(ClientStep)
  /\ WF_vars(WorkerStep)
  /\ WF_vars((LibSkips \/ LibDelivers) /\ UNCHANGED fdVars)

Spec == Init /\ [][Next]_vars /\ Fairness

-----------------------------------------------------------------------------
(* When the client is not in a call and has stopped the camera, nothing of *)
(* it acts any more: no callback is under way, none can follow, and all    *)
(* that the worker took of libcamera is given back.                        *)
QuietAfterStop ==
  client \in {"idle", "gone"} /\ ~running =>
    /\ worker \in {"none", "end"}
    /\ held = {} /\ callback = {}

(* stop() of the simulated camera returns, though the timer may be silent  *)
(* and wherever the worker is: before its eventfd, in poll, in a callback. *)
SimulatedStopReturns ==
  IsSimulated /\ client \in {"look", "write", "join"}
    ~> client \in {"idle", "gone"}

(* While libcamera streams and nobody stops it, only libcamera itself can  *)
(* take a request out of the pool, by refusing or cancelling it: once the  *)
(* worker has offered them all, each other request that was made is with   *)
(* libcamera or in the callback.  A frame without a buffer, without planes *)
(* or with too short a plane costs none, nor does an earlier stop().       *)
RequestsCirculate ==
  Streaming /\ running =>
    \A b \in Buffers :
      \/ request[b] \in {"none", "queued", "refused", "cancelled"}
      \/ request[b] = "made" /\ worker = "queue"

(* The worker may still hand out a frame.                                  *)
SetupStages ==
  {"setup", "find", "acquire", "configure", "allocate", "start", "request",
   "queue"}

Delivers ==
  \/ callback # {}
  \/ Streaming
  \/ worker \in SetupStages \cup {"arm", "check", "poll", "deliver"}

(* What the user of a camera sees.                                         *)
Promise == INSTANCE Camera WITH
  status <- IF thread = "none" THEN "off"
            ELSE IF Delivers THEN "on" ELSE "dead",
  last <- ids.given

(* Both backends keep the promise of ICamera.                              *)
ImplementsCamera == Promise!Spec

(* What SimulatedPublisher.hpp:68 and LibcameraPublisher.hpp:65 say: the   *)
(* destructor stops acquisition and joins the thread.                      *)
DestructorJoins == client = "gone" => thread = "none"

(* The same of a call that has begun to stop libcamera: it returns.        *)
LibcameraStopReturns ==
  IsLibcamera /\ client \in {"clear", "notify", "join"}
    ~> client \in {"idle", "gone"}
=============================================================================
