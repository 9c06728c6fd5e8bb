-------------------------------- MODULE WakeLock --------------------------------
(***************************************************************************)
(* The power manager (internal/power/inhibitor.go): one inhibitor process  *)
(* for all runs, held by a reference count under a mutex.  The operators   *)
(* are taken into the steps of the workers that hold it (TopicFiles).      *)
(***************************************************************************)
EXTENDS Naturals

VARIABLES
  refCount,
  inhibitor    \* "off", "on", or "failed": the process did not start

lockVars == <<refCount, inhibitor>>

WakeInit == refCount = 0 /\ inhibitor = "off"

(* Acquire: the first holder starts the process; that it failed is logged, *)
(* and it is not tried again while the lock is held.                       *)
Acquire ==
  /\ refCount' = refCount + 1
  /\ IF refCount = 0 THEN inhibitor' \in {"on", "failed"}
     ELSE UNCHANGED inhibitor

(* Slip: the process is stopped by whoever releases.                       *)
ReleaseStops ==
  /\ refCount' = IF refCount > 0 THEN refCount - 1 ELSE 0
  /\ inhibitor' = "off"

(* release, called once per Acquire: the last holder stops the process.    *)
Release ==
  /\ refCount' = IF refCount > 0 THEN refCount - 1 ELSE 0
  /\ inhibitor' = IF refCount' = 0 THEN "off" ELSE inhibitor
=============================================================================
