---------------------------- MODULE CamerasProofs ----------------------------
(***************************************************************************)
(* Theorems about both camera backends, for every number of starts, frames *)
(* and buffers, every point at which the setup may fail and every length   *)
(* of a plane: what stop() leaves behind, where the requests go, and that  *)
(* a camera keeps the promise of ICamera.                                  *)
(***************************************************************************)
EXTENDS Cameras, TLAPS

-----------------------------------------------------------------------------
(* The inductive invariant.  Its parts tie what a worker has taken to the  *)
(* place where it is.                                                      *)

(* Where the client and the worker of either backend may be.               *)
ClientPlaces == {"idle", "look", "write", "clear", "notify", "join", "gone",
                 "terminated"}

SimPlaces == {"arm", "check", "poll", "deliver", "close", "reset"}

LibPlaces == SetupStages \cup {"check", "wait", "waiting", "close"}

(* Between cam->start() and cam->stop().                                   *)
StreamPlaces == {"request", "queue", "check", "wait", "waiting", "close"}

Typed ==
  /\ PublisherTypeOK /\ SimTypeOK /\ LibTypeOK
  /\ client \in ClientPlaces
  /\ ids.given <= ids.taken

(* A worker is somewhere in run_() exactly while its thread lives.         *)
ThreadInv ==
  /\ thread = "live" <=> worker # "none"
  /\ IsSimulated => worker \in {"none", "setup", "end"} \cup SimPlaces
  /\ IsLibcamera => worker \in {"none", "end"} \cup LibPlaces

(* A descriptor to write to is there only while run_() is past its setup.  *)
FdInv == stopFd # "none" => IsSimulated /\ worker \in SimPlaces

(* What is taken of libcamera depends on the place alone.                  *)
HeldInv ==
  /\ IsSimulated \/ worker \in {"none", "setup", "end"} => held = {}
  /\ worker \in {"find", "acquire"} => held = {"manager"}
  /\ worker \in {"configure", "allocate"} => held = {"camera", "manager"}
  /\ worker = "start" => held = {"buffers", "camera", "manager"}
  /\ IsLibcamera /\ worker \in StreamPlaces =>
       held = {"stream", "buffers", "camera", "manager"}

(* Requests and callbacks exist only while the camera streams and once     *)
(* they are made, the one in the callback was queued, and a frame under    *)
(* way has an id left to take.                                             *)
StreamInv ==
  /\ ~Streaming \/ worker = "request" => request = NoRequests /\ callback = {}
  /\ \A b \in callback : request[b] = "queued"
  /\ callback # {} \/ worker = "deliver" => ids.taken < MaxFrames

IInv ==
  /\ Typed /\ ThreadInv /\ FdInv /\ HeldInv /\ StreamInv
  /\ QuietAfterStop /\ RequestsCirculate

-----------------------------------------------------------------------------
(* Before the first start() nothing runs and nothing is held.              *)
LEMMA InitIInv == Init => IInv
<1> USE PublisherAssumption
           DEF Init, PublisherInit, SimInit, LibInit, NoRequests, Streaming
<1>1. Init => Typed
  <2> SUFFICES ASSUME Init PROVE Typed
    OBVIOUS
  <2>1. PublisherTypeOK
    <3>1. 0 \in 0 .. MaxFrames /\ 0 \in 0 .. MaxStarts /\ FALSE \in BOOLEAN
      OBVIOUS
    <3> QED
      BY <3>1 DEF PublisherTypeOK
  <2>2. SimTypeOK /\ LibTypeOK
    BY DEF SimTypeOK, LibTypeOK
  <2> QED
    BY <2>1, <2>2 DEF Typed, ClientPlaces
<1>2. Init => ThreadInv /\ FdInv /\ HeldInv /\ StreamInv
  BY DEF ThreadInv, FdInv, HeldInv, StreamInv, StreamPlaces
<1>3. Init => QuietAfterStop /\ RequestsCirculate
  BY DEF QuietAfterStop, RequestsCirculate
<1> QED
  BY <1>1, <1>2, <1>3 DEF IInv

(* A start, a join, a destructor, the end of run_(): after each the client  *)
(* finds the worker where it left it, or gone.                             *)
LEMMA CommonKeeps ==
  ASSUME IInv, Common
  PROVE  IInv'
<1>0. UNCHANGED <<fdVars, cameraVars>>
  BY DEF Common
<1> USE <1>0, PublisherAssumption
        DEF IInv, Typed, PublisherTypeOK, SimTypeOK, LibTypeOK, ClientPlaces,
            ThreadInv, FdInv, HeldInv, StreamInv, QuietAfterStop,
            RequestsCirculate, SimPlaces, LibPlaces, SetupStages, StreamPlaces,
            IsSimulated, IsLibcamera, Streaming, NoRequests, fdVars, cameraVars
<1>1. CASE Start
  BY <1>1 DEF Start
<1>2. CASE Destroy
  BY <1>2 DEF Destroy
<1>3. CASE Join
  BY <1>3 DEF Join, Returned
<1>4. CASE WorkerEnds
  BY <1>4 DEF WorkerEnds
<1> QED
    BY <1>1, <1>2, <1>3, <1>4 DEF Common

(* The simulated camera: stop() and the worker meet at the descriptor.     *)
LEMMA SimulatedKeeps ==
  ASSUME IInv, SimNext, UNCHANGED cameraVars
  PROVE  IInv'
<1> USE PublisherAssumption
        DEF IInv, Typed, PublisherTypeOK, SimTypeOK, LibTypeOK, ClientPlaces,
            ThreadInv, FdInv, HeldInv, StreamInv, QuietAfterStop,
            RequestsCirculate, SimPlaces, LibPlaces, SetupStages, StreamPlaces,
            IsSimulated, IsLibcamera, Streaming, NoRequests, fdVars, cameraVars
<1>1. CASE SimStopCall
  BY <1>1 DEF SimStopCall, Returned
<1>2. CASE SimStopLooks \/ SimStopWrites
  BY <1>2 DEF SimStopLooks, SimStopWrites
<1>3. CASE SimSetup
  BY <1>3 DEF SimSetup, SetupFails, WorkerMoves
<1>4. CASE SimArm
  BY <1>4 DEF SimArm, SetupFails, WorkerMoves
<1>5. CASE SimChecks \/ SimPollStops \/ SimPollFails \/ SimPollNothing
  BY <1>5
     DEF SimChecks, SimPollStops, SimPollFails, SimPollNothing, WorkerMoves
<1>6. CASE SimPollTimer
  BY <1>6 DEF SimPollTimer, WorkerMoves
<1>7. CASE SimDelivers
  BY <1>7 DEF SimDelivers, TakeId
<1>8. CASE SimCloses \/ SimResets
  BY <1>8 DEF SimCloses, SimResets, WorkerMoves
<1> QED
    BY <1>1, <1>2, <1>3, <1>4, <1>5, <1>6, <1>7, <1>8 DEF SimNext

(* stop() of libcamera resets running_ before it notifies.                 *)
LEMMA LibStopKeeps ==
  ASSUME IInv, LibStopCall \/ LibStopClears \/ LibStopNotifies, UNCHANGED fdVars
  PROVE  IInv'
<1> USE PublisherAssumption
        DEF IInv, Typed, PublisherTypeOK, SimTypeOK, LibTypeOK, ClientPlaces,
            ThreadInv, FdInv, HeldInv, StreamInv, QuietAfterStop,
            RequestsCirculate, SimPlaces, LibPlaces, SetupStages, StreamPlaces,
            IsSimulated, IsLibcamera, Streaming, NoRequests, fdVars, cameraVars
<1>1. CASE LibStopCall
  BY <1>1 DEF LibStopCall, Returned
<1>2. CASE LibStopClears
  <2>1. Typed'
    BY <1>2 DEF LibStopClears
  <2>2. ThreadInv' /\ FdInv'
    BY <1>2 DEF LibStopClears
  <2>3. HeldInv' /\ StreamInv'
    BY <1>2 DEF LibStopClears
  <2> QED
    BY <1>2, <2>1, <2>2, <2>3 DEF LibStopClears
<1>3. CASE LibStopNotifies
  BY <1>3 DEF LibStopNotifies
<1> QED
  BY <1>1, <1>2, <1>3

(* A stage of the setup that fails gives back all that was taken by then.  *)
LEMMA LibSetupKeeps ==
  ASSUME IInv, 
         \/ LibStartsManager \/ LibFinds \/ LibAcquires
         \/ LibConfigures \/ LibAllocates \/ LibStartsCamera,
         UNCHANGED fdVars
  PROVE  IInv'
<1> USE PublisherAssumption
        DEF IInv, Typed, PublisherTypeOK, SimTypeOK, LibTypeOK, ClientPlaces,
            ThreadInv, FdInv, HeldInv, StreamInv, QuietAfterStop,
            RequestsCirculate, SimPlaces, LibPlaces, SetupStages, StreamPlaces,
            IsSimulated, IsLibcamera, Streaming, NoRequests, fdVars, cameraVars
<1>1. CASE LibStartsManager
  BY <1>1 DEF LibStartsManager, Setup, SetupFails, WorkerMoves
<1>2. CASE LibFinds
  BY <1>2 DEF LibFinds, Setup, SetupFails, WorkerMoves
<1>3. CASE LibAcquires
  BY <1>3 DEF LibAcquires, Setup, SetupFails, WorkerMoves
<1>4. CASE LibConfigures
  BY <1>4 DEF LibConfigures, Setup, SetupFails, WorkerMoves
<1>5. CASE LibAllocates
  BY <1>5 DEF LibAllocates, Setup, SetupFails, WorkerMoves
<1>6. CASE LibStartsCamera
  BY <1>6 DEF LibStartsCamera, Setup, SetupFails, WorkerMoves
<1> QED
  BY <1>1, <1>2, <1>3, <1>4, <1>5, <1>6

(* While the camera streams its requests go round, or libcamera says no.   *)
LEMMA LibStreamKeeps ==
  ASSUME IInv, 
         \/ LibMakesRequests \/ LibQueues \/ LibStreams \/ LibChecks
         \/ LibWaits \/ LibSpuriousWakeup \/ LibCloses
         \/ LibCallback \/ LibSkips \/ LibDelivers,
         UNCHANGED fdVars
  PROVE  IInv'
<1> USE PublisherAssumption
        DEF IInv, Typed, PublisherTypeOK, SimTypeOK, LibTypeOK, ClientPlaces,
            ThreadInv, FdInv, HeldInv, StreamInv, QuietAfterStop,
            RequestsCirculate, SimPlaces, LibPlaces, SetupStages, StreamPlaces,
            IsSimulated, IsLibcamera, Streaming, NoRequests, fdVars, cameraVars
<1>1. CASE LibMakesRequests
  BY <1>1 DEF LibMakesRequests, WorkerMoves
<1>2. CASE LibQueues
  BY <1>2 DEF LibQueues, publisherVars
<1>3. CASE LibStreams \/ LibChecks \/ LibWaits \/ LibSpuriousWakeup
  BY <1>3
     DEF LibStreams, LibChecks, LibWaits, LibSpuriousWakeup, WorkerMoves
<1>4. CASE LibCloses
  BY <1>4 DEF LibCloses, WorkerMoves
<1>5. CASE LibCallback
  BY <1>5 DEF LibCallback, publisherVars
<1>6. CASE LibSkips
  BY <1>6 DEF LibSkips, Requeued
<1>7. CASE LibDelivers
  BY <1>7 DEF LibDelivers, Requeued, TakeId
<1> QED
  BY <1>1, <1>2, <1>3, <1>4, <1>5, <1>6, <1>7

(* Every step of either worker and of its client keeps the parts together. *)
LEMMA StepIInv == IInv /\ [Next]_vars => IInv'
<1> SUFFICES ASSUME IInv, [Next]_vars PROVE IInv'
  OBVIOUS
<1>1. CASE Common
  BY <1>1, CommonKeeps
<1>2. CASE SimNext /\ UNCHANGED cameraVars
  BY <1>2, SimulatedKeeps
<1>3. CASE LibNext /\ UNCHANGED fdVars
  BY <1>3, LibStopKeeps, LibSetupKeeps, LibStreamKeeps DEF LibNext
<1>4. CASE UNCHANGED vars
  BY <1>4
     DEF vars, publisherVars, fdVars, cameraVars, IInv, Typed, PublisherTypeOK,
         SimTypeOK, LibTypeOK, ThreadInv, FdInv, HeldInv, StreamInv,
         QuietAfterStop, RequestsCirculate, IsSimulated, IsLibcamera, Streaming
<1> QED
  BY <1>1, <1>2, <1>3, <1>4 DEF Next

-----------------------------------------------------------------------------
(* Between them the parts say it all: the properties of the run follow.    *)

(* At every place of the worker and of the client the parts hold.          *)
THEOREM InvHolds == Spec => []IInv
BY InitIInv, StepIInv, PTL DEF Spec

(* Every variable keeps its type, and what a worker holds goes with it.    *)
THEOREM TypeCorrect == Spec => []TypeOK
<1>1. IInv => TypeOK
  BY DEF IInv, Typed, TypeOK, ThreadInv, FdInv, HeldInv, SimPlaces
<1> QED
  BY <1>1, InvHolds, PTL

(* After stop() nothing of a camera acts or is held, for any buffers and   *)
(* any number of starts.                                                   *)
THEOREM StoppedIsQuiet == Spec => []QuietAfterStop
<1>1. IInv => QuietAfterStop
  BY DEF IInv
<1> QED
  BY <1>1, InvHolds, PTL

(* While the camera runs a request leaves the pool only by an answer of    *)
(* libcamera, for any number of buffers: no way through the callback       *)
(* forgets one.                                                            *)
THEOREM RequestsStay == Spec => []RequestsCirculate
<1>1. IInv => RequestsCirculate
  BY DEF IInv
<1> QED
  BY <1>1, InvHolds, PTL

-----------------------------------------------------------------------------
(* The copy of a plane.                                                    *)

(* What a row more adds, and what rows that fit amount to.                 *)
LEMMA RowsAddUp ==
  ASSUME NEW s \in Nat, NEW n \in Nat, NEW y \in 0 .. n - 1
  PROVE  y * s + s <= n * s
<1>1. (y + 1) * s = y * s + s
  OBVIOUS
<1>2. \A k \in Nat : (y + 1 + k) * s = (y + 1) * s + k * s /\ k * s >= 0
  OBVIOUS
<1>3. n - y - 1 \in Nat /\ n = y + 1 + (n - y - 1)
  OBVIOUS
<1> QED
  BY <1>1, <1>2, <1>3

(* The estimated stride holds a row, and so many strides fit the plane     *)
(* unless a picture without padding does not.                              *)
LEMMA StrideFits ==
  ASSUME NEW length \in Nat
  PROVE  /\ StrideFromPlane(length) \in Nat
         /\ StrideFromPlane(length) >= RowBytes
         /\ Rows * RowBytes <= length => Rows * StrideFromPlane(length) <= length
<1>1. Rows \in Nat /\ Rows > 0 /\ RowBytes \in Nat /\ RowBytes > 0
  BY PlaneAssumption
<1> DEFINE share == length \div Rows
<1>2. share \in Nat /\ Rows * share <= length /\ length < Rows * share + Rows
  BY <1>1
<1>3. StrideFromPlane(length) = IF share < RowBytes THEN RowBytes ELSE share
  BY DEF StrideFromPlane
<1> HIDE DEF share
<1> QED
  BY <1>1, <1>2, <1>3

(* copyPlaneStrideAware() throws for a plane that is shorter than the      *)
(* picture and for no other, whatever padding it has: a copy that goes on  *)
(* reads inside the plane.                                                 *)
THEOREM CopyThrowsWhenShort ==
  \A length \in Nat : CopyThrows(length) <=> length < Rows * RowBytes
<1> SUFFICES ASSUME NEW length \in Nat
             PROVE  CopyThrows(length) <=> length < Rows * RowBytes
  OBVIOUS
<1> DEFINE s == StrideFromPlane(length)
<1>1. Rows \in Nat /\ Rows > 0 /\ RowBytes \in Nat /\ RowBytes > 0
  BY PlaneAssumption
<1>2. s \in Nat /\ s >= RowBytes
      /\ (Rows * RowBytes <= length => Rows * s <= length)
  BY StrideFits
<1>3. CopyThrows(length) <=> \E y \in 0 .. Rows - 1 : y * s + RowBytes > length
  BY DEF CopyThrows, RowAt
<1> HIDE DEF s
<1>4. ASSUME Rows * RowBytes <= length, NEW y \in 0 .. Rows - 1
      PROVE  ~(y * s + RowBytes > length)
  <2>1. y * s + s <= Rows * s
    BY <1>1, <1>2, RowsAddUp
  <2>2. y * s \in Nat /\ Rows * s \in Nat
    BY <1>1, <1>2
  <2> QED
    BY <1>1, <1>2, <1>4, <2>1, <2>2
<1>5. ASSUME length < Rows * RowBytes
      PROVE  Rows - 1 \in 0 .. Rows - 1 /\ (Rows - 1) * s + RowBytes > length
  <2>1. (Rows - 1) * s >= (Rows - 1) * RowBytes
    BY <1>1, <1>2
  <2>2. (Rows - 1) * RowBytes + RowBytes = Rows * RowBytes
    BY <1>1
  <2> QED
    BY <1>1, <1>2, <1>5, <2>1, <2>2
<1>6. length < Rows * RowBytes \/ Rows * RowBytes <= length
  <2>1. Rows * RowBytes \in Nat
    BY <1>1
  <2> QED
    BY <2>1
<1>7. ~(length < Rows * RowBytes /\ Rows * RowBytes <= length)
  <2>1. Rows * RowBytes \in Nat
    BY <1>1
  <2> QED
    BY <2>1
<1> QED
  BY <1>3, <1>4, <1>5, <1>6, <1>7

-----------------------------------------------------------------------------
(* The promise of ICamera.                                                 *)

(* The status of a camera as its user sees it.                             *)
Status == IF thread = "none" THEN "off" ELSE IF Delivers THEN "on" ELSE "dead"

(* The steps of the promise, or none.                                      *)
PromisedStep ==
  [Promise!TurnOn \/ Promise!Deliver \/ Promise!Die \/ Promise!TurnOff]_<<Status,
    ids.given>>

(* A camera may deliver until its loop ends, or libcamera has stopped.     *)
DeliveringPlaces ==
  SetupStages \cup {"arm", "check", "poll", "deliver"}
    \cup (IF IsLibcamera THEN StreamPlaces ELSE {})

(* The status is given by the thread and the place of the worker alone.    *)
StatusOfPlace ==
  /\ Status = IF thread = "none" THEN "off"
              ELSE IF worker \in DeliveringPlaces THEN "on" ELSE "dead"
  /\ worker \in DeliveringPlaces => thread = "live"
  /\ thread = "none" => worker = "none"
  /\ callback # {} => IsLibcamera /\ worker \in StreamPlaces

(* The place of the worker and of the client tells what the camera         *)
(* promises then.                                                          *)
LEMMA PlaceGivesStatus == IInv => StatusOfPlace
BY DEF IInv, Typed, PublisherTypeOK, ThreadInv, HeldInv, StreamInv, Status,
       Delivers, Streaming, DeliveringPlaces, StreamPlaces, SetupStages,
       SimPlaces, LibPlaces, IsSimulated, IsLibcamera, StatusOfPlace

(* No new frame, and the worker as good as where it was: nothing the user  *)
(* could notice.                                                           *)
LEMMA Unnoticed ==
  ASSUME StatusOfPlace, StatusOfPlace', UNCHANGED ids,
         thread' = "none" <=> thread = "none",
         worker' \in DeliveringPlaces' <=> worker \in DeliveringPlaces
  PROVE  PromisedStep
BY DEF PromisedStep, StatusOfPlace

(* The worker leaves the places where it may deliver.                      *)
LEMMA GivesUp ==
  ASSUME StatusOfPlace, StatusOfPlace', UNCHANGED <<thread, ids>>,
         worker \in DeliveringPlaces, worker' \notin DeliveringPlaces'
  PROVE  PromisedStep
BY DEF PromisedStep, StatusOfPlace, Status, Promise!Die

(* A frame, or one that is not handed out.                                 *)
LEMMA TakesFrame ==
  ASSUME StatusOfPlace, StatusOfPlace', UNCHANGED thread,
         worker \in DeliveringPlaces, worker' \in DeliveringPlaces',
         Typed, NEW handedOut \in BOOLEAN, TakeId(handedOut)
  PROVE  PromisedStep
BY DEF PromisedStep, StatusOfPlace, Status, Promise!Deliver, Typed,
       PublisherTypeOK, TakeId

(* A step of either backend is one of Camera, or changes nothing a client  *)
(* can see.                                                                *)
LEMMA StepKeepsPromise ==
  ASSUME IInv, IInv', [Next]_vars
  PROVE  PromisedStep
<1>1. StatusOfPlace /\ StatusOfPlace'
  <2>1. StatusOfPlace
    BY PlaceGivesStatus
  <2>2. IInv' => StatusOfPlace'
    BY PlaceGivesStatus, PTL
  <2> QED
    BY <2>1, <2>2
<1>2. Typed
  BY DEF IInv
<1> USE <1>1 DEF DeliveringPlaces, SetupStages, StreamPlaces, IsLibcamera, IsSimulated
<1>3. CASE Start
  BY <1>3, Unnoticed DEF Start, PromisedStep, Promise!TurnOn, StatusOfPlace, Status
<1>4. CASE Join
  BY <1>4 DEF Join, PromisedStep, Promise!TurnOff, StatusOfPlace, Status
<1>5. CASE Destroy \/ WorkerEnds
  BY <1>5, Unnoticed DEF Destroy, WorkerEnds, StatusOfPlace
<1>6. CASE SimStopCall \/ SimStopLooks \/ SimStopWrites
  BY <1>6, Unnoticed DEF SimStopCall, SimStopLooks, SimStopWrites
<1>7. CASE SimSetup \/ SimArm
  BY <1>7, Unnoticed, GivesUp DEF SimSetup, SimArm, SetupFails, WorkerMoves
<1>8. CASE SimChecks \/ SimPollStops \/ SimPollFails
  BY <1>8, Unnoticed, GivesUp DEF SimChecks, SimPollStops, SimPollFails, WorkerMoves
<1>9. CASE SimPollNothing \/ SimPollTimer \/ SimCloses \/ SimResets
  BY <1>9, Unnoticed DEF SimPollNothing, SimPollTimer, SimCloses, SimResets, WorkerMoves
<1>10. CASE SimDelivers
  BY <1>2, <1>10, TakesFrame DEF SimDelivers
<1>11. CASE LibStopCall \/ LibStopClears \/ LibStopNotifies
  BY <1>11, Unnoticed DEF LibStopCall, LibStopClears, LibStopNotifies
<1>12. CASE \/ LibStartsManager \/ LibFinds \/ LibAcquires \/ LibConfigures
            \/ LibAllocates \/ LibStartsCamera
  BY <1>12, Unnoticed, GivesUp
     DEF LibStartsManager, LibFinds, LibAcquires, LibConfigures, LibAllocates,
         LibStartsCamera, Setup, SetupFails, WorkerMoves
<1>13. CASE LibMakesRequests \/ LibQueues \/ LibStreams
  BY <1>13, Unnoticed DEF LibMakesRequests, LibQueues, LibStreams, WorkerMoves, publisherVars
<1>14. CASE LibChecks \/ LibWaits \/ LibSpuriousWakeup
  BY <1>14, Unnoticed DEF LibChecks, LibWaits, LibSpuriousWakeup, WorkerMoves
<1>15. CASE LibCloses
  BY <1>15, GivesUp DEF LibCloses, WorkerMoves
<1>16. CASE LibCallback \/ LibSkips
  BY <1>16, Unnoticed DEF LibCallback, LibSkips, Requeued, publisherVars
<1>17. CASE LibDelivers
  <2>1. PICK length \in Lengths : TakeId(~CopyThrows(length))
    BY <1>17 DEF LibDelivers
  <2> QED
    BY <1>2, <1>17, <2>1, TakesFrame DEF LibDelivers, Requeued, StatusOfPlace
<1>18. CASE UNCHANGED vars
  BY <1>18, Unnoticed DEF vars, publisherVars
<1> QED
  BY <1>3, <1>4, <1>5, <1>6, <1>7, <1>8, <1>9, <1>10, <1>11, <1>12, <1>13,
     <1>14, <1>15, <1>16, <1>17, <1>18 DEF Next, Common, SimNext, LibNext

(* Both backends keep the promise of ICamera: frames in the order of their *)
(* ids and only from start() to the return of stop(), and none after a     *)
(* camera has died, for any number of starts, frames and buffers.          *)
THEOREM KeepsPromise == Spec => ImplementsCamera
<1>1. Init => Status = "off" /\ ids.given = 0
  BY DEF Init, PublisherInit, Status
<1> QED
  BY <1>1, StepKeepsPromise, InvHolds, PTL
     DEF Spec, ImplementsCamera, Promise!Spec, Status, PromisedStep
=============================================================================
