--------------------------------- MODULE App ---------------------------------
(***************************************************************************)
(* The process of the admin API: NewApp, Run and main, around the requests *)
(* of Gateway and the cycles of the reconciler.  What the database, NATS   *)
(* and the reconciler do inside is in the other modules; here they are     *)
(* open or closed, running or not.                                         *)
(***************************************************************************)
EXTENDS Gateway

VARIABLES
    dbOpen,      \* the pool is open
    looping      \* the reconciler's goroutine runs, sweeping or waiting

procVars == <<dbOpen, looping>>
appVars == <<gatewayVars, procVars>>

Rest == <<limiterVars, rows, inflight, issued, trail, lost, admitted>>

AppInit ==
    /\ GatewayInit
    /\ phase = "starting"
    /\ dbOpen = FALSE
    /\ looping = FALSE

-----------------------------------------------------------------------------
(* NewApp: credentials before anything is opened; what was opened is       *)
(* closed again when a later step fails.                                   *)

ParseTokens(named, shared) ==
    /\ phase = "starting"
    /\ IF parseFails(named, shared)
         THEN phase' = "exited" /\ UNCHANGED <<tokens, meant>>
         ELSE /\ phase' = "opening"
              /\ tokens' = parseAdminTokens(named, shared)
              /\ meant' = (~Blank(named) \/ shared # "")
    /\ UNCHANGED <<Rest, procVars>>

openDB ==
    /\ phase = "opening"
    /\ \/ phase' = "connecting" /\ dbOpen' = TRUE
       \/ phase' = "exited" /\ UNCHANGED dbOpen
    /\ UNCHANGED <<Rest, tokens, meant, looping>>

(* Publishing is off; the URL is bad; or the client is there, connected or *)
(* not, and the reconciler starts with a sweep.                            *)
setupMessaging ==
    /\ phase = "connecting"
    /\ \/ phase' = "serving" /\ UNCHANGED <<dbOpen, looping>>
       \/ phase' = "exited" /\ dbOpen' = FALSE /\ UNCHANGED looping
       \/ phase' = "serving" /\ looping' = TRUE /\ UNCHANGED dbOpen
    /\ UNCHANGED <<Rest, tokens, meant>>

-----------------------------------------------------------------------------
(* Run.  The ten seconds begin with the signal, before the wait for the    *)
(* reconciler; until the listener is closed requests are accepted.         *)

Phase(from, to) ==
    /\ phase = from
    /\ phase' = to
    /\ UNCHANGED <<Rest, tokens, meant>>

(* The process ends: what was in flight and in memory is gone.             *)
Dies(from) ==
    /\ phase = from
    /\ phase' = "exited"
    /\ inflight' = [s \in Slot |-> NoWrite]
    /\ lost' = lost \cup {inflight[s].n : s \in InFlight}
    /\ looping' = FALSE
    /\ buckets' = [k \in {} |-> 0]
    /\ UNCHANGED <<lastSweep, now, ideal, tokens, meant, rows, issued, trail, admitted>>

Signal == Phase("serving", "stopping") /\ UNCHANGED <<dbOpen, looping>>

(* The listener fails: os.Exit, whatever is in flight.                     *)
ServeFails ==
    /\ Dies("serving") \/ Dies("stopping")
    /\ UNCHANGED dbOpen

(* The signal cancels the reconciler's context: its goroutine ends when    *)
(* the cycle it is in, or one that was just due, has unwound.              *)
LoopEnds ==
    /\ phase \in {"stopping", "shutdown", "draining", "closing", "closed"}
    /\ looping
    /\ looping' = FALSE
    /\ UNCHANGED <<Rest, phase, tokens, meant, dbOpen>>

(* Fault: stop cancels and does not wait.                                  *)
stopReconcileNow == Phase("stopping", "shutdown") /\ UNCHANGED <<dbOpen, looping>>

(* stop cancels the context and waits for the goroutine.                   *)
stopReconcile ==
    /\ ~looping
    /\ Phase("stopping", "shutdown")
    /\ UNCHANGED <<dbOpen, looping>>

Shutdown ==
    /\ InFlight = {}
    /\ Phase("shutdown", "draining")
    /\ UNCHANGED <<dbOpen, looping>>

(* Fault: Shutdown is given a context without a deadline.                  *)
ShutdownWaits == FALSE /\ UNCHANGED appVars

(* The ten seconds are up, of which the wait for the reconciler may have   *)
(* taken any part.  Requests still in flight go with the process; NATS is  *)
(* not drained and the pool not closed.                                    *)
ShutdownTimesOut ==
    /\ InFlight # {}
    /\ Dies("shutdown")
    /\ UNCHANGED dbOpen

(* A failed drain is logged.                                               *)
Drain == Phase("draining", "closing") /\ UNCHANGED <<dbOpen, looping>>

CloseDB ==
    /\ Phase("closing", "closed")
    /\ dbOpen' = FALSE
    /\ UNCHANGED looping

Exit == Dies("closed") /\ UNCHANGED dbOpen

Stopping ==
    stopReconcile \/ Shutdown \/ ShutdownTimesOut \/ Drain \/ CloseDB \/ Exit

AppNext ==
    \/ \E named \in Named, shared \in {"", "blank", "secret"} : ParseTokens(named, shared)
    \/ openDB \/ setupMessaging
    \/ Signal \/ ServeFails \/ LoopEnds \/ Stopping
    \/ GatewayStep /\ UNCHANGED procVars

(* The runtime runs what is ready; the goroutine ends, because its calls   *)
(* carry a context that is cancelled and select picks at random among what *)
(* is ready.  Nothing is assumed of requests: a handler may hang.          *)
AppFairness ==
    /\ WF_appVars(LoopEnds)
    /\ WF_appVars(stopReconcile)
    /\ WF_appVars(Shutdown \/ ShutdownTimesOut)
    /\ WF_appVars(Drain \/ CloseDB \/ Exit)

AppSpec == AppInit /\ [][AppNext]_appVars /\ AppFairness

-----------------------------------------------------------------------------
(* Properties *)

(* Type correctness of the gateway and the process.                        *)
AppTypeOK ==
    /\ LimiterTypeOK
    /\ phase \in {"starting", "opening", "connecting", "serving", "stopping",
                  "shutdown", "draining", "closing", "closed", "exited"}
    /\ tokens \subseteq TokenName
    /\ rows \in [Row -> Env \cup {0}]
    /\ \A s \in Slot :
         /\ inflight[s].pc \in {"idle", "guard", "target", "handler", "audit"}
         /\ inflight[s].write \in Write
         /\ inflight[s].envs \subseteq Env
    /\ \A e \in trail : e.env \in Env \cup {0} /\ e.n \in 1..issued
    /\ dbOpen \in BOOLEAN /\ looping \in BOOLEAN

(* A process that serves without authentication was given neither variable *)
(* at all: no list of blanks, stray separators or whitespace secret gets   *)
(* it there (parseAdminTokens, NewApp).                                    *)
AuthIsNeverSilentlyOff == Running /\ tokens = {} => ~meant

(* A write of the narrow token reaches no environment outside its scope,   *)
(* whatever id its path or body names, unless another request moved the    *)
(* row between the guard's lookup and the write.                           *)
WritesStayInScope ==
    [][\A s \in Slot :
         (/\ inflight[s].pc = "handler" /\ inflight'[s].pc = "audit"
          /\ ~FullScope(Actor(inflight[s].cred)) /\ ~inflight[s].raced
          /\ Handle(s))
         => Reaches(inflight[s].write) \subseteq NarrowScope]_appVars

(* Every write that reached a route is in flight, on record exactly once,  *)
(* or among those whose insert failed, whose handler panicked or which died*)
(* with the process.  On record are also the writes answered 401, 403 and  *)
(* 429, and those whose client hung up.                                    *)
EveryWriteIsOnRecord ==
    /\ \A n \in 1..issued :
         \/ n \in lost
         \/ \E s \in Slot : inflight[s].n = n
         \/ \E e \in trail : e.n = n
    /\ \A e, f \in trail : e.n = f.n => e = f

(* The edge has no budget left for a write with a credential only after a  *)
(* full budget of such writes from its address: writes without one, from   *)
(* behind the same proxy, never lock an operator out.                      *)
AnonymousNeverLocksOut ==
    Running /\ ~Affords(addressKey(Proxy), 1) => admitted >= Capacity

(* NATS is drained and the pool closed only when nobody uses them: no      *)
(* request is in flight and the reconciler's goroutine is over.            *)
NobodyIsCutOff ==
    phase \in {"draining", "closing", "closed"}
    => InFlight = {} /\ ~looping

(* After the signal the process ends, though requests may hang and a sweep *)
(* may be in progress: the ten seconds bound the wait.                     *)
ShutdownEnds == phase = "stopping" ~> phase = "exited"
=============================================================================
