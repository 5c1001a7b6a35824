------------------------- MODULE LibcameraPublisher -------------------------
(***************************************************************************)
(* sensors/LibcameraPublisher: the worker takes the camera step by step,   *)
(* queues a request for every buffer, waits on a condition variable until  *)
(* running_ is false, and gives everything back.  Frames come from a       *)
(* thread of libcamera, which is external: it completes queued requests    *)
(* between cam->start() and the return of cam->stop(), and the callback    *)
(* queues each again, without looking whether libcamera took it, unless it *)
(* came back cancelled.  stop() resets running_ and notifies without the   *)
(* mutex of the wait.                                                      *)
(***************************************************************************)
EXTENDS Publisher, PlaneCopy

CONSTANTS Buffers,      \* the frame buffers the allocator makes
          Lengths       \* lengths a luminance plane may have

ASSUME LibAssumption == Lengths \subseteq Nat

VARIABLES held,         \* what the worker has taken and not given back
          request,      \* where the request of each buffer is
          callback      \* the buffers of the request in the callback

cameraVars == <<held, request, callback>>

IsLibcamera == backend = "libcamera"
Streaming == "stream" \in held

LibTypeOK ==
  /\ held \subseteq {"manager", "camera", "buffers", "stream"}
  /\ request \in [Buffers -> {"none", "made", "queued", "refused", "cancelled",
                              "dropped"}]
  /\ callback \subseteq Buffers

NoRequests == [b \in Buffers |-> "none"]

LibInit == held = {} /\ request = NoRequests /\ callback = {}

-----------------------------------------------------------------------------
(* stop(): if (!running_) return;                                          *)
LibStopCall ==
  /\ IsLibcamera
  /\ client = "idle"
  /\ running \/ dying
  /\ client' = IF running THEN "clear" ELSE Returned
  /\ UNCHANGED <<backend, running, thread, dying, worker, ids, starts,
                 cameraVars>>

(* running_ = false;                                                       *)
LibStopClears ==
  /\ IsLibcamera
  /\ client = "clear"
  /\ client' = "notify"
  /\ running' = FALSE
  /\ UNCHANGED <<backend, thread, dying, worker, ids, starts, cameraVars>>

(* runCv_.notify_all() wakes the worker only if it is waiting by now.      *)
LibStopNotifies ==
  /\ IsLibcamera
  /\ client = "notify"
  /\ client' = "join"
  /\ worker' = IF worker = "waiting" THEN "check" ELSE worker
  /\ UNCHANGED <<backend, running, thread, dying, ids, starts, cameraVars>>

-----------------------------------------------------------------------------
(* One step of the setup: it takes something, or it fails and gives back   *)
(* what the code names there.                                              *)
Setup(from, to, takes, givesBack) ==
  /\ IsLibcamera
  /\ worker = from
  /\ \/ WorkerMoves(from, to) /\ held' = held \cup takes
     \/ SetupFails /\ held' = held \ givesBack
  /\ UNCHANGED <<request, callback>>

LibStartsManager == Setup("setup", "find", {"manager"}, {})

(* The camera asked for, or the first; there may be none.                  *)
LibFinds == Setup("find", "acquire", {}, {"manager"})

LibAcquires == Setup("acquire", "configure", {"camera"}, {"manager"})

(* Mutant: the camera is not released when no configuration is found.      *)
LibConfiguresKeeping == Setup("configure", "allocate", {}, {"manager"})

(* generateConfiguration, validate, configure and the stream: four calls   *)
(* that fail alike.                                                        *)
LibConfigures == Setup("configure", "allocate", {}, {"camera", "manager"})

(* allocate() may fail, or leave no buffers, which are then freed.         *)
LibAllocates == Setup("allocate", "start", {"buffers"}, {"camera", "manager"})

(* The callback is connected, the camera started.                          *)
LibStartsCamera ==
  Setup("start", "request", {"stream"}, {"buffers", "camera", "manager"})

(* createRequest and addBuffer: a buffer whose request fails is left out.  *)
LibMakesRequests ==
  /\ IsLibcamera
  /\ WorkerMoves("request", "queue")
  /\ \E made \in SUBSET Buffers :
       request' = [b \in Buffers |-> IF b \in made THEN "made" ELSE "none"]
  /\ UNCHANGED <<held, callback>>

(* Requests are queued one by one; queueRequest may refuse.                *)
LibQueues ==
  /\ IsLibcamera
  /\ worker = "queue"
  /\ \E b \in Buffers, answer \in {"queued", "refused"} :
       request[b] = "made" /\ request' = [request EXCEPT ![b] = answer]
  /\ UNCHANGED <<publisherVars, held, callback>>

LibStreams ==
  /\ IsLibcamera
  /\ \A b \in Buffers : request[b] # "made"
  /\ WorkerMoves("queue", "check")
  /\ UNCHANGED cameraVars

(* The predicate of runCv_.wait, then the wait itself.                     *)
LibChecks ==
  /\ IsLibcamera
  /\ WorkerMoves("check", IF running THEN "wait" ELSE "close")
  /\ UNCHANGED cameraVars

LibWaits ==
  /\ IsLibcamera
  /\ WorkerMoves("wait", "waiting")
  /\ UNCHANGED cameraVars

LibSpuriousWakeup ==
  /\ IsLibcamera
  /\ WorkerMoves("waiting", "check")
  /\ UNCHANGED cameraVars

(* Mutant: the camera is released without stopping it.                     *)
LibClosesUnstopped ==
  /\ IsLibcamera
  /\ WorkerMoves("close", "end")
  /\ held' = {"stream"}
  /\ UNCHANGED <<request, callback>>

(* cam->stop() waits for a callback in progress, and what is queued comes  *)
(* back cancelled, for which the callback does nothing.  Then everything   *)
(* is given back, last the requests.                                       *)
LibCloses ==
  /\ IsLibcamera
  /\ callback = {}
  /\ WorkerMoves("close", "end")
  /\ held' = {}
  /\ request' = NoRequests
  /\ UNCHANGED callback

-----------------------------------------------------------------------------
(* requestCompleted: the callback returns at once when running_ was reset, *)
(* and when libcamera cancelled the request, which it may at any time.     *)
LibCallback ==
  /\ Streaming
  /\ callback = {}
  /\ \E b \in Buffers :
       /\ request[b] = "queued"
       /\ \/ /\ running /\ ids.taken < MaxFrames
             /\ callback' = {b} /\ UNCHANGED request
          \/ /\ running
             /\ request' = [request EXCEPT ![b] = "cancelled"]
             /\ UNCHANGED callback
          \/ /\ ~running
             /\ request' = [request EXCEPT ![b] = "dropped"]
             /\ UNCHANGED callback
  /\ UNCHANGED <<publisherVars, held>>

(* Every other way through the callback ends with queueRequest, whose      *)
(* answer nobody looks at.                                                 *)
Requeued ==
  /\ callback' = {}
  /\ \E answer \in {"queued", "refused"} :
       request' = [b \in Buffers |-> IF b \in callback THEN answer
                                    ELSE request[b]]
  /\ UNCHANGED <<backend, running, thread, client, dying, worker, starts, held>>

(* Mutant: a request without a buffer is not queued again.                 *)
LibSkipsDropping ==
  /\ callback # {}
  /\ callback' = {}
  /\ request' = [b \in Buffers |-> IF b \in callback THEN "dropped"
                                   ELSE request[b]]
  /\ UNCHANGED <<publisherVars, held>>

(* The request holds no buffer of the stream, or one without planes.       *)
LibSkips == callback # {} /\ Requeued /\ UNCHANGED ids

(* A frame takes an id; it is handed out unless copying it throws.         *)
LibDelivers ==
  /\ callback # {}
  /\ \E length \in Lengths : TakeId(~CopyThrows(length))
  /\ Requeued

LibClientSteps == LibStopClears \/ LibStopNotifies
LibWorkerSteps ==
  \/ LibStartsManager \/ LibFinds \/ LibAcquires \/ LibConfigures
  \/ LibAllocates \/ LibStartsCamera \/ LibMakesRequests \/ LibQueues
  \/ LibStreams \/ LibChecks \/ LibWaits \/ LibCloses

LibNext ==
  \/ LibStopCall
  \/ LibStopClears
  \/ LibStopNotifies
  \/ LibStartsManager
  \/ LibFinds
  \/ LibAcquires
  \/ LibConfigures
  \/ LibAllocates
  \/ LibStartsCamera
  \/ LibMakesRequests
  \/ LibQueues
  \/ LibStreams
  \/ LibChecks
  \/ LibWaits
  \/ LibSpuriousWakeup
  \/ LibCloses
  \/ LibCallback
  \/ LibSkips
  \/ LibDelivers
=============================================================================
