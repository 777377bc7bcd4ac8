----------------------------- MODULE TestConsole -----------------------------
(***************************************************************************)
(* cmd/testconsole: a console that watches a whole environment through     *)
(* pkg/configclient, fans what it is pushed out to the browsers connected  *)
(* to it, and proxies their admin calls.                                   *)
(*                                                                         *)
(* The goroutine that connects, the watchers' goroutines (which call       *)
(* broadcast through OnChange), one handler per browser and the shutdown   *)
(* of the server interleave.  An event is not told from another: a channel *)
(* is the number of events in it.  A failed attempt to connect leaves      *)
(* nothing behind that a later one could meet (ConfigClient's              *)
(* NothingLeftOpen), so the watchers of the next attempt start afresh.     *)
(***************************************************************************)
EXTENDS ConfigClient

CONSTANTS
    Browser,       \* browsers
    BufferSize,    \* capacity of a subscriber's channel (32 in the code)
    BindAddr,      \* the name the console is bound to
    AllowedHosts,  \* ALLOWED_HOSTS
    AllowedOrigins \* ALLOWED_ORIGINS

ASSUME BufferAssumption == BufferSize \in Nat \ {0}

VARIABLES
    cons,          \* the consumer: its connect loop, what it holds and reports
    expired,       \* connectWindow is over
    signalled,     \* ctx is cancelled
    run,           \* where run is
    sse,           \* sse[b]: the event handler of browser b
    hub,           \* hub.clients
    chan,          \* chan[b]: events buffered for b
    open           \* open[b]: the channel of b has not been closed

consoleVars == <<cons, expired, signalled, run, sse, hub, chan, open>>
allVars == <<ccVars, consoleVars>>

Serving == run = "select"
Alive == run # "exit"

-----------------------------------------------------------------------------
(* The hub.                                                                *)

(* Fault: broadcast waits for the slowest browser.                         *)
broadcastWaits ==
    /\ \A b \in hub : chan[b] < BufferSize
    /\ chan' = [b \in Browser |-> IF b \in hub THEN chan[b] + 1 ELSE chan[b]]

(* broadcast never waits: a full channel misses the event.                 *)
broadcast ==
    chan' = [b \in Browser |-> IF b \in hub /\ chan[b] < BufferSize
                                 THEN chan[b] + 1 ELSE chan[b]]

subscribe(b) ==
    /\ hub' = hub \cup {b}
    /\ chan' = [chan EXCEPT ![b] = 0]
    /\ open' = [open EXCEPT ![b] = TRUE]

(* sseHandler: a browser asks for the stream ...                           *)
Subscribe(b) ==
    /\ Serving
    /\ sse[b] = "idle"
    /\ sse' = [sse EXCEPT ![b] = "streaming"]
    /\ subscribe(b)
    /\ UNCHANGED <<ccVars, cons, expired, signalled, run>>

(* ... is sent an event, for as long as it reads ...                       *)
SendEvent(b) ==
    /\ Alive
    /\ sse[b] = "streaming"
    /\ chan[b] > 0
    /\ chan' = [chan EXCEPT ![b] = @ - 1]
    /\ UNCHANGED <<ccVars, cons, expired, signalled, run, sse, hub, open>>

(* Fault: the channel is closed before it is taken out of the map.         *)
UnsubscribeClosesFirst(b) ==
    /\ Alive
    /\ sse[b] = "streaming"
    /\ sse' = [sse EXCEPT ![b] = "leaving"]
    /\ open' = [open EXCEPT ![b] = FALSE]
    /\ UNCHANGED <<ccVars, cons, expired, signalled, run, hub, chan>>

(* ... and leaves: it went away, or ctx was cancelled.  unsubscribe takes  *)
(* the channel out of the map under the lock and closes it after.          *)
Unsubscribe(b) ==
    /\ Alive
    /\ sse[b] = "streaming"
    /\ sse' = [sse EXCEPT ![b] = "leaving"]
    /\ hub' = hub \ {b}
    /\ UNCHANGED <<ccVars, cons, expired, signalled, run, chan, open>>

CloseChannel(b) ==
    /\ Alive
    /\ sse[b] = "leaving"
    /\ sse' = [sse EXCEPT ![b] = "idle"]
    /\ open' = [open EXCEPT ![b] = FALSE]
    /\ hub' = hub \ {b}
    /\ UNCHANGED <<ccVars, cons, expired, signalled, run, chan>>

-----------------------------------------------------------------------------
(* The consumer.                                                           *)

NoConsumer == [pc |-> "connecting", held |-> FALSE, lastErr |-> "none"]

ConsoleInit ==
    /\ CCInit
    /\ cons = NoConsumer
    /\ expired = FALSE
    /\ signalled = FALSE
    /\ run = "select"
    /\ sse = [b \in Browser |-> "idle"]
    /\ hub = {}
    /\ chan = [b \in Browser |-> 0]
    /\ open = [b \in Browser |-> FALSE]

(* The library at work for the console.  Every entry applied calls         *)
(* OnChange, which broadcasts it; no other step of the library does.       *)
Notifies ==
    \/ Drain
    \/ \E b \in Buckets : Deliver(b) /\ Head(queue[b]) # End

Silent ==
    \/ Connect
    \/ OpenWatch
    \/ DrainDone
    \/ Warm
    \/ WarmUpFails
    \/ \E b \in Buckets : \/ Deliver(b) /\ Head(queue[b]) = End
                          \/ WatchEnds(b)

LibraryStep ==
    /\ Alive
    /\ \/ Notifies /\ broadcast
       \/ Silent /\ UNCHANGED chan
    /\ UNCHANGED <<cons, expired, signalled, run, sse, hub, open>>

(* connect: one attempt ...                                                *)
Attempt ==
    /\ Alive
    /\ cons.pc = "connecting"
    /\ New
    /\ UNCHANGED consoleVars

(* ... that worked ...                                                     *)
Connected ==
    /\ Alive
    /\ cons.pc = "connecting"
    /\ client.pc = "ready"
    /\ cons' = [pc |-> "done", held |-> TRUE, lastErr |-> "none"]
    /\ UNCHANGED <<ccVars, expired, signalled, run, sse, hub, chan, open>>

(* ... or did not: stop if ctx is cancelled, give up past the deadline, or *)
(* wait and try again.                                                     *)
AfterFailure ==
    IF signalled THEN [cons EXCEPT !.pc = "done"]
    ELSE IF expired THEN [cons EXCEPT !.pc = "done", !.lastErr = "gave up"]
    ELSE [cons EXCEPT !.pc = "waiting", !.lastErr = "error"]

AttemptFailed ==
    /\ Alive
    /\ cons.pc = "connecting"
    /\ client.pc = "failed"
    /\ cons' = AfterFailure
    /\ client' = NewClient
    /\ sub' = [b \in Buckets |-> "none"]
    /\ queue' = [b \in Buckets |-> <<>>]
    /\ UNCHANGED <<worldVars, cache, hyd, fallback, faults,
                   expired, signalled, run, sse, hub, chan, open>>

(* The pause between two attempts ends, early if ctx is cancelled.         *)
Waited ==
    /\ Alive
    /\ cons.pc = "waiting"
    /\ cons' = [cons EXCEPT !.pc = IF signalled THEN "done" ELSE "connecting"]
    /\ UNCHANGED <<ccVars, expired, signalled, run, sse, hub, chan, open>>

WindowExpires ==
    /\ Alive
    /\ cons.pc # "done"
    /\ ~expired
    /\ expired' = TRUE
    /\ UNCHANGED <<ccVars, cons, signalled, run, sse, hub, chan, open>>

(* An attempt under way ends when ctx is cancelled.                        *)
AttemptCancelled ==
    /\ Alive
    /\ signalled
    /\ AbandonWarmUp
    /\ UNCHANGED <<faults, consoleVars>>

-----------------------------------------------------------------------------
(* run.                                                                    *)

Signal ==
    /\ Alive
    /\ ~signalled
    /\ signalled' = TRUE
    /\ UNCHANGED <<ccVars, cons, expired, run, sse, hub, chan, open>>

(* A server that cannot serve ends the process at once.                    *)
ServeFails ==
    /\ run = "select"
    /\ faults < MaxFaults
    /\ faults' = faults + 1
    /\ run' = "exit"
    /\ UNCHANGED <<worldVars, clientVars, fallback, cons, expired, signalled, sse, hub,
                   chan, open>>

BeginShutdown ==
    /\ run = "select"
    /\ signalled
    /\ run' = "shutdown"
    /\ UNCHANGED <<ccVars, cons, expired, signalled, sse, hub, chan, open>>

(* Shutdown waits for the handlers ...                                     *)
ShutdownDone ==
    /\ run = "shutdown"
    /\ \A b \in Browser : sse[b] = "idle"
    /\ run' = "close"
    /\ UNCHANGED <<ccVars, cons, expired, signalled, sse, hub, chan, open>>

(* Fault: it waits without a limit.                                        *)
ShutdownNeverTimesOut ==
    /\ FALSE
    /\ UNCHANGED allVars

(* ... but not for longer than its ten seconds: a handler whose browser    *)
(* stopped reading is stuck in its write and does not see the signal.      *)
ShutdownTimesOut ==
    /\ run = "shutdown"
    /\ \E b \in Browser : sse[b] # "idle"
    /\ run' = "close"
    /\ UNCHANGED <<ccVars, cons, expired, signalled, sse, hub, chan, open>>

(* close: the client is taken and closed; an attempt under way has none.   *)
CloseConsumer ==
    /\ run = "close"
    /\ run' = "exit"
    /\ cons' = [cons EXCEPT !.held = FALSE]
    /\ IF cons.held
         THEN /\ client' = [closeConn(client) EXCEPT !.pc = "closed"]
              /\ sub' = Stopped
              /\ queue' = StoppedQueue
         ELSE UNCHANGED <<client, sub, queue>>
    /\ UNCHANGED <<worldVars, cache, hyd, fallback, faults,
                   expired, signalled, sse, hub, chan, open>>

-----------------------------------------------------------------------------
(* The proxy to the admin API.  A name is where a request was sent to or   *)
(* the page that sent it: this machine, the address the console is bound   *)
(* to, or another one.                                                     *)

Name == {"loopback", "bound", "listed", "stranger"}

Request == [host : Name, origin : Name \cup {"none", "malformed"},
            proxied : BOOLEAN, json : BOOLEAN, tooLarge : BOOLEAN]

isLoopbackHost(name) == name = "loopback"

(* A wildcard bind names no host.                                          *)
hostPolicy == ({BindAddr} \cup AllowedHosts \cup AllowedOrigins) \ {"wildcard"}

permits(host) == isLoopbackHost(host) \/ host \in hostPolicy

sameOrigin(r) ==
    \/ r.origin = "none"
    \/ /\ r.origin # "malformed"
       /\ \/ r.origin = r.host
          \/ isLoopbackHost(r.origin) /\ isLoopbackHost(r.host)
          \/ r.origin \in AllowedOrigins

(* forward: the first test that fails decides the answer.                  *)
forward(r) ==
    CASE ~permits(r.host)  -> 403
      [] permits(r.host) /\ ~sameOrigin(r) -> 403
      [] permits(r.host) /\ sameOrigin(r) /\ ~r.proxied -> 404
      [] permits(r.host) /\ sameOrigin(r) /\ r.proxied /\ ~r.json -> 415
      [] permits(r.host) /\ sameOrigin(r) /\ r.proxied /\ r.json /\ r.tooLarge -> 413
      [] OTHER -> 200

-----------------------------------------------------------------------------
Handler(b) == SendEvent(b) \/ Unsubscribe(b) \/ CloseChannel(b)

ConsoleNext ==
    \/ Alive /\ World /\ UNCHANGED consoleVars
    \/ LibraryStep
    \/ Attempt
    \/ Connected
    \/ AttemptFailed
    \/ Waited
    \/ WindowExpires
    \/ AttemptCancelled
    \/ \E b \in Browser : Subscribe(b) \/ Handler(b)
    \/ Signal
    \/ ServeFails
    \/ BeginShutdown
    \/ ShutdownDone
    \/ ShutdownTimesOut
    \/ CloseConsumer

(* The process's goroutines run and its timers fire.  Browsers read or do  *)
(* not: nothing is assumed of them.                                        *)
ConsoleSpec ==
    /\ ConsoleInit
    /\ [][ConsoleNext]_allVars
    /\ WF_allVars(LibraryStep)
    /\ WF_allVars(Attempt \/ Connected \/ AttemptFailed \/ Waited)
    /\ WF_allVars(WindowExpires)
    /\ WF_allVars(BeginShutdown \/ ShutdownDone \/ ShutdownTimesOut \/ CloseConsumer)

-----------------------------------------------------------------------------
(* Properties *)

(* broadcast never sends on a closed channel, which would panic in a       *)
(* watcher's goroutine: whatever is in the map is open, at every moment of *)
(* a browser's coming and going.                                           *)
NoSendOnClosedChannel == \A b \in hub : open[b]

(* What /api/state serves is a live cache: a client the console holds is   *)
(* watching.  Without one it is still trying, or says that it gave up, or  *)
(* is being stopped.                                                       *)
StateIsHonest ==
    Alive =>
       /\ cons.held => client.watch
       /\ ~cons.held => \/ cons.pc # "done"
                        \/ cons.lastErr = "gave up"
                        \/ signalled

(* A slow or silent browser does not hold back the cache: the console's    *)
(* copy of every item catches up with KV whatever the browsers do.         *)
BrowsersDoNotStallTheWatch ==
    \A i \in Item :
       <>[](cons.held /\ Alive) => <>[](cache[i].value = kv[i].value)

(* A signal ends the process, with streams open, with an attempt to        *)
(* connect under way, and with a browser that never reads.                 *)
SignalEndsTheProcess == signalled ~> ~Alive

(* A write that a page makes a browser send carries the page's name as     *)
(* Origin.  Whatever the page called the console, its write is forwarded,  *)
(* with the admin token, only if the page is this machine's, the console's *)
(* own or a configured one.  forward looks at nothing but the request, so  *)
(* the states before the consumer's first step stand for all.              *)
WritesComeFromOwnPages ==
    Serving /\ cons = NoConsumer =>
       \A page \in Name, host \in Name, json \in BOOLEAN :
          forward([host |-> host, origin |-> page, proxied |-> TRUE, json |-> json,
                   tooLarge |-> FALSE]) = 200
          => page \in {"loopback"} \cup hostPolicy
=============================================================================
