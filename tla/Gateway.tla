------------------------------- MODULE Gateway -------------------------------
(***************************************************************************)
(* internal/app, the way of a write from the listener to the database:     *)
(* limitWrites at the edge, auditWrites around the routes, guard with its  *)
(* authentication, budget and scope check, then the handler, then the      *)
(* audit record on the way out.  What a read returns is in module Reads.   *)
(*                                                                         *)
(* Every client arrives through one proxy, so all share an address.  The   *)
(* clock of the limiter stands still: budgets only go down.  Rows are one  *)
(* whose update never moves it (a flag value) and one whose update may     *)
(* (appsettings or a bundle); Env is the environment ids.                  *)
(***************************************************************************)
EXTENDS RateLimiter, Sequences

CONSTANTS
    Slot,          \* requests that can be in flight at once
    Env,           \* environment ids, without 0
    NarrowScope,   \* the environments of the token that is not full scope
    MaxWrites      \* bound on the writes that reach a route

(* parseTokenScope refuses a scope without an environment id.               *)
ASSUME ScopeAssumption ==
    NarrowScope \subseteq Env /\ NarrowScope # {} /\ 0 \notin Env
ASSUME TokenAssumption == TokenName = {"narrow", "shared"}
ASSUME WritesAssumption == MaxWrites \in Nat /\ Slot \subseteq Nat

(* There is a proxy, and the table has room for those behind it: its       *)
(* address with and without a credential, and two tokens (the code: 8192). *)
ASSUME ProxyAssumption == Address # {} /\ maxBuckets >= 4

VARIABLES
    phase,       \* of the process (module App)
    tokens,      \* names of the configured credentials; empty: auth is off
    meant,       \* whether either variable was set to something
    rows,        \* rows[r]: the environment r lives in, 0 if there is no r
    inflight,    \* inflight[s]: the write that slot s is serving
    issued,      \* writes that got past the edge to a route, numbered
    trail,       \* CONFIG_AUDIT_LOG
    lost,        \* writes whose record failed to insert, or that panicked
    admitted     \* writes with a credential the edge let through

gateVars == <<tokens, meant, rows, inflight, issued, trail, lost, admitted>>
gatewayVars == <<limiterVars, phase, gateVars>>

Proxy == CHOOSE a \in Address : TRUE

-----------------------------------------------------------------------------
(* The two variables.  An entry of ADMIN_TOKENS is blank, malformed or a   *)
(* narrow token; ADMIN_TOKEN is unset, blank or a secret.  A list of one   *)
(* blank entry is the same as the variable not being set.                  *)

Named == UNION {[1..n -> {"blank", "malformed", "narrow"}] : n \in 1..2}

Blank(named) == named = <<"blank">>

Entries(named) == {named[i] : i \in DOMAIN named} \ {"blank"}

(* Fault: a list of separators only is taken for an unset variable.        *)
parseFailsOnEntries(named, shared) ==
    "malformed" \in Entries(named) \/ shared = "blank"

(* What makes parseAdminTokens, and with it the start, fail.               *)
parseFails(named, shared) ==
    \/ "malformed" \in Entries(named)
    \/ ~Blank(named) /\ Entries(named) = {}
    \/ shared = "blank"

parseAdminTokens(named, shared) ==
    Entries(named) \cup (IF shared = "secret" THEN {"shared"} ELSE {})

Known(cred) == cred \in tokens

(* lookup: the token a secret belongs to; any other is as good as none.    *)
lookup(cred) == IF Known(cred) THEN cred ELSE "none"

(* Whom a request acts as: "" is the zero token of a server without auth.  *)
Actor(cred) == IF tokens = {} THEN "" ELSE cred

FullScope(actor) == actor # "narrow"

-----------------------------------------------------------------------------
(* Writes: the class of the route, the row and the environment id in the   *)
(* body or the path (0: absent or unparseable).                            *)

Row == {"value", "settings"}

movesEnvironment(r) == r = "settings"

Class == {"global", "neutral", "envBody", "envPath", "update", "delete"}

Write == [class : Class, row : Row, env : Env \cup {0}]

(* Writes that differ in something their route looks at.  A body without   *)
(* the id it needs resolves as a global write and is answered 400.         *)
Writes == {w \in Write :
             /\ w.class \in {"global", "neutral", "delete"} => w.env = 0
             /\ w.class \in {"envBody", "update"} => w.env # 0
             /\ w.class \in {"global", "neutral", "envPath"} => w.row = "value"
             /\ w.class = "envBody" => w.row = "settings"}

NoWrite == [pc |-> "idle", cred |-> "none",
            write |-> [class |-> "neutral", row |-> "value", env |-> 0],
            envs |-> {}, raced |-> FALSE, n |-> 0]

InFlight == {s \in Slot : inflight[s].pc # "idle"}

(* A request takes the first slot that is free.                            *)
Free(s) == s \notin InFlight /\ \A t \in Slot \ InFlight : s <= t

Accepting == phase \in {"serving", "stopping"}

Running == phase \in {"serving", "stopping", "shutdown"}

(* One row inside the narrow scope, and one outside it if there is such an *)
(* environment.                                                            *)
InitialRows ==
    [r \in Row |-> IF r = "value" THEN CHOOSE e \in Env : NarrowScope # Env => e \notin NarrowScope
                                  ELSE CHOOSE e \in NarrowScope : TRUE]

GatewayInit ==
    /\ newRateLimiter
    /\ tokens = {} /\ meant = FALSE
    /\ rows = InitialRows
    /\ inflight = [s \in Slot |-> NoWrite]
    /\ issued = 0 /\ trail = {} /\ lost = {} /\ admitted = 0

-----------------------------------------------------------------------------
(* limitWrites: a usable credential, or a server without auth, draws on    *)
(* the bucket of the address, anything else on the anonymous one.          *)

presentsCredential(cred) == tokens = {} \/ Known(cred)

(* Fault: one bucket per address, whoever asks.                            *)
EdgeAdmitsShared(cred) ==
    IF presentsCredential(cred) THEN allow(addressKey(Proxy))
                                ELSE allowCost(addressKey(Proxy), anonymousCost)

EdgeAdmits(cred) ==
    IF presentsCredential(cred) THEN allow(addressKey(Proxy)) ELSE allowAnonymous(Proxy)

EdgeRefuses(cred) ==
    IF presentsCredential(cred) THEN refuse(addressKey(Proxy)) ELSE refuseAnonymous(Proxy)

(* 429 at the edge leaves no record.                                       *)
TurnAway(s, cred) ==
    /\ Accepting
    /\ Free(s)
    /\ EdgeRefuses(cred)
    /\ UNCHANGED <<phase, gateVars>>

(* A write addressed at no route is charged and not recorded.              *)
Unrouted(s, cred) ==
    /\ Accepting
    /\ Free(s)
    /\ EdgeAdmits(cred)
    /\ admitted' = IF presentsCredential(cred) THEN admitted + 1 ELSE admitted
    /\ UNCHANGED <<phase, tokens, meant, rows, inflight, issued, trail, lost>>

Arrive(s, cred, w) ==
    /\ Accepting
    /\ Free(s)
    /\ issued < MaxWrites
    /\ EdgeAdmits(cred)
    /\ inflight' = [inflight EXCEPT ![s] =
          [NoWrite EXCEPT !.pc = "guard", !.cred = lookup(cred), !.write = w, !.n = issued + 1]]
    /\ issued' = issued + 1
    /\ admitted' = IF presentsCredential(cred) THEN admitted + 1 ELSE admitted
    /\ UNCHANGED <<phase, tokens, meant, rows, trail, lost>>

Goto(s, pc) == inflight' = [inflight EXCEPT ![s].pc = pc]

(* The response is on its way; of the request only the record is left.     *)
Over(r, envs) == [r EXCEPT !.pc = "audit", !.envs = envs,
                           !.write = NoWrite.write, !.raced = FALSE]

Answer(s) == inflight' = [inflight EXCEPT ![s] = Over(@, inflight[s].envs)]

(* authenticate answers 401, spend on the token's bucket answers 429; both *)
(* are recorded.                                                           *)
Guard(s) ==
    /\ Running
    /\ inflight[s].pc = "guard"
    /\ \/ tokens = {} /\ Goto(s, "target") /\ UNCHANGED limiterVars
       \/ tokens # {} /\ ~Known(inflight[s].cred) /\ Answer(s)
             /\ UNCHANGED limiterVars
       \/ Known(inflight[s].cred) /\ allow(tokenKey(inflight[s].cred)) /\ Goto(s, "target")
       \/ Known(inflight[s].cred) /\ refuse(tokenKey(inflight[s].cred)) /\ Answer(s)
    /\ UNCHANGED <<phase, tokens, meant, rows, issued, trail, lost, admitted>>

-----------------------------------------------------------------------------
(* resolveTarget: the environments a write touches; global when they are   *)
(* all, or cannot be told.                                                 *)

Global == [global |-> TRUE, envs |-> {}]
Targets(envs) == [global |-> FALSE, envs |-> envs]

(* Faults: the environment in the body is believed; a row that is not      *)
(* found is taken to live in environment 0.                                *)
resolveTargetFromBody(w, env) ==
    CASE w.class = "neutral" -> Targets({})
      [] w.class # "neutral" /\ w.env # 0 -> Targets({w.env})
      [] w.class \in {"update", "delete"} /\ w.env = 0 /\ env # 0 -> Targets({env})
      [] OTHER -> Global

resolveTargetNotFound(w, env) ==
    CASE w.class = "neutral" -> Targets({})
      [] w.class \in {"envBody", "envPath"} /\ w.env # 0 -> Targets({w.env})
      [] w.class \in {"update", "delete"} -> Targets({env})
      [] OTHER -> Global

(* env is what lookupRowEnvironment found: 0 is a missing row or a failed  *)
(* read.                                                                   *)
resolveTarget(w, env) ==
    CASE w.class = "neutral" -> Targets({})
      [] w.class \in {"envBody", "envPath"} /\ w.env # 0 -> Targets({w.env})
      [] w.class = "delete" /\ env # 0 -> Targets({env})
      [] w.class = "update" /\ env # 0 ->
            Targets({env} \cup (IF movesEnvironment(w.row) THEN {w.env} \ {0} ELSE {}))
      [] OTHER -> Global

allows(actor, target) ==
    FullScope(actor) \/ (~target.global /\ target.envs \subseteq NarrowScope)

lookupRowEnvironment(r) == {rows[r], 0}

(* The sink keeps the environment when there is exactly one.               *)
Resolve(s) ==
    /\ Running
    /\ inflight[s].pc = "target"
    /\ \E env \in lookupRowEnvironment(inflight[s].write.row) :
          LET target == resolveTarget(inflight[s].write, env)
          IN  inflight' = [inflight EXCEPT ![s] =
                 IF allows(Actor(inflight[s].cred), target)
                   THEN [@ EXCEPT !.pc = "handler", !.envs = target.envs]
                   ELSE Over(@, target.envs)]
    /\ UNCHANGED <<limiterVars, phase, tokens, meant, rows, issued, trail, lost, admitted>>

-----------------------------------------------------------------------------
(* The handlers, as far as the gateway tells them apart: which rows they   *)
(* write and which environments feel it.                                   *)

(* What the rows become: a create fills a missing row, an update of a row  *)
(* that moves needs an environment in the body.                            *)
Effect(w) ==
    CASE w.class = "envBody" /\ w.env # 0 /\ rows[w.row] = 0 ->
            {[rows EXCEPT ![w.row] = w.env]}
      [] w.class = "update" /\ rows[w.row] # 0 /\ (movesEnvironment(w.row) => w.env # 0) ->
            {[rows EXCEPT ![w.row] = IF movesEnvironment(w.row) THEN w.env ELSE @]}
      [] w.class = "delete" /\ rows[w.row] # 0 -> {[rows EXCEPT ![w.row] = 0]}
      [] w.class \in {"global", "neutral"} -> {rows}
      [] w.class = "envPath" /\ w.env \in Env \ {rows[r] : r \in Row} -> {rows}
      [] OTHER -> {}

(* The environments a committed write reaches.                             *)
Reaches(w) ==
    CASE w.class = "global" -> Env
      [] w.class = "neutral" -> {}
      [] w.class \in {"envBody", "envPath"} -> {w.env}
      [] w.class = "delete" -> {rows[w.row]}
      [] w.class = "update" ->
            {rows[w.row]} \cup (IF movesEnvironment(w.row) THEN {w.env} ELSE {})

(* Slot s writes a row and becomes own.  For the others that have looked   *)
(* at the row and not written yet, what they saw is out of date.           *)
Written(s, after, own) ==
    LET r == inflight[s].write.row
    IN  /\ rows' = after
        /\ inflight' = [t \in Slot |->
              IF t = s THEN own
              ELSE [inflight[t] EXCEPT !.raced = @ \/
                      /\ inflight[t].pc = "handler"
                      /\ inflight[t].write.row = r
                      /\ after[r] # rows[r]]]

Handle(s) ==
    /\ Running
    /\ inflight[s].pc = "handler"
    /\ \E after \in Effect(inflight[s].write) :
          Written(s, after, Over(inflight[s], inflight[s].envs))
    /\ UNCHANGED <<limiterVars, phase, tokens, meant, issued, trail, lost, admitted>>

(* 400, 404, 409 or 500: nothing was written.                              *)
HandlerRefuses(s) ==
    /\ Running
    /\ inflight[s].pc = "handler"
    /\ Answer(s)
    /\ UNCHANGED <<limiterVars, phase, tokens, meant, rows, issued, trail, lost, admitted>>

(* A panic, before or after the commit, unwinds past auditWrites; observe  *)
(* answers 500.                                                            *)
HandlerPanics(s) ==
    /\ Running
    /\ inflight[s].pc = "handler"
    /\ \E after \in {rows} \cup Effect(inflight[s].write) : Written(s, after, NoWrite)
    /\ lost' = lost \cup {inflight[s].n}
    /\ UNCHANGED <<limiterVars, phase, tokens, meant, issued, trail, admitted>>

-----------------------------------------------------------------------------
(* The record: the number of the request and the one environment, or 0.    *)
Entry(s) ==
    [n |-> inflight[s].n,
     env |-> IF Cardinality(inflight[s].envs) = 1
               THEN CHOOSE e \in inflight[s].envs : TRUE ELSE 0]

(* Fault: the insert runs under the context of the request.                *)
AuditWhileConnected(s, gone) ==
    /\ Running
    /\ inflight[s].pc = "audit"
    /\ trail' = IF gone THEN trail ELSE trail \cup {Entry(s)}
    /\ inflight' = [inflight EXCEPT ![s] = NoWrite]
    /\ UNCHANGED <<limiterVars, phase, tokens, meant, rows, issued, lost, admitted>>

(* The record is made whether or not the client is gone by now.            *)
Audit(s, gone) ==
    /\ Running
    /\ inflight[s].pc = "audit"
    /\ trail' = trail \cup {Entry(s)}
    /\ inflight' = [inflight EXCEPT ![s] = NoWrite]
    /\ UNCHANGED <<limiterVars, phase, tokens, meant, rows, issued, lost, admitted>>

(* The insert fails or takes longer than auditWriteTimeout: logged.        *)
AuditFails(s) ==
    /\ Running
    /\ inflight[s].pc = "audit"
    /\ lost' = lost \cup {inflight[s].n}
    /\ inflight' = [inflight EXCEPT ![s] = NoWrite]
    /\ UNCHANGED <<limiterVars, phase, tokens, meant, rows, issued, trail, admitted>>

-----------------------------------------------------------------------------
Credential == TokenName \cup {"none"}

SlotStep(s) ==
    \/ \E cred \in Credential :
          \/ TurnAway(s, cred) \/ Unrouted(s, cred)
          \/ \E w \in Writes : Arrive(s, cred, w)
    \/ Guard(s) \/ Resolve(s)
    \/ Handle(s) \/ HandlerRefuses(s) \/ HandlerPanics(s)
    \/ \E gone \in BOOLEAN : Audit(s, gone)
    \/ AuditFails(s)

GatewayStep == \E s \in Slot : SlotStep(s)
=============================================================================
