------------------------------ MODULE Semaphore ------------------------------
(***************************************************************************)
(* What a family of counting semaphores promises its callers.  A caller    *)
(* that finds a permit takes it at once; one that finds none becomes       *)
(* pending and is released later, either by a permit it takes itself or by *)
(* a permit handed to it directly.  A permit is never created or dropped   *)
(* on the way, and a permit does not stay unused beside a pending caller.  *)
(***************************************************************************)
EXTENDS Naturals

CONSTANTS
  Object,     \* the semaphores
  Task,       \* the callers that can be blocked
  InitWakeup, \* permits of each semaphore at the start
  MaxWakeup   \* the most permits each semaphore stores

VARIABLES
  permits,    \* permits stored in each semaphore
  pending     \* callers blocked on each semaphore

svars == <<permits, pending>>

SInit ==
  /\ permits = InitWakeup
  /\ pending = [o \in Object |-> {}]

Take(o) ==
  /\ permits[o] > 0
  /\ permits' = [permits EXCEPT ![o] = @ - 1]
  /\ UNCHANGED pending

Block(t, o) ==
  /\ permits[o] = 0
  /\ \A p \in Object : t \notin pending[p]
  /\ pending' = [pending EXCEPT ![o] = @ \cup {t}]
  /\ UNCHANGED permits

Grant(t, o) ==
  /\ permits[o] > 0
  /\ t \in pending[o]
  /\ permits' = [permits EXCEPT ![o] = @ - 1]
  /\ pending' = [pending EXCEPT ![o] = @ \ {t}]

Post(o) ==
  /\ permits[o] < MaxWakeup[o]
  /\ permits' = [permits EXCEPT ![o] = @ + 1]
  /\ UNCHANGED pending

HandOff(t, o) ==
  /\ permits[o] = 0
  /\ t \in pending[o]
  /\ pending' = [pending EXCEPT ![o] = @ \ {t}]
  /\ UNCHANGED permits

SNext ==
  \E o \in Object :
    \/ Take(o) \/ Post(o)
    \/ \E t \in Task : Block(t, o) \/ Grant(t, o) \/ HandOff(t, o)

SSafety == SInit /\ [][SNext]_svars

\* While somebody is pending, a stored permit is taken by somebody.
Serve(o) == pending[o] # {} /\ (Take(o) \/ \E t \in Task : Grant(t, o))

SSpec == SSafety /\ \A o \in Object : WF_svars(Serve(o))
=============================================================================
