---------------------------- MODULE AlertStream ----------------------------
(***************************************************************************)
(* Alerts on the open pages: the goroutine Engine.send starts for onAlert  *)
(* (internal/alerts/engine.go), the Broadcaster with its buffered channels *)
(* (internal/server/broadcaster.go) and the handler of GET /events         *)
(* (internal/server/server.go), under the process that main starts and     *)
(* stops (cmd/server/main.go): an open event stream is a request that      *)
(* never ends, and http.Server.Shutdown waits for requests.                *)
(***************************************************************************)
EXTENDS Integers, Sequences, FiniteSets

CONSTANTS Clients,    \* browsers with /events open, or about to
          Stalled,    \* those that may stop reading for ever
          Buffer,     \* capacity of a client's channel
          Deadline,   \* ticks Shutdown waits: ten seconds
          MaxPages,   \* bound of the page requests in flight
          MaxAlerts   \* bound of the alerts

ASSUME ClientAssumption == Stalled \subseteq Clients
ASSUME LimitAssumption == /\ Buffer \in Nat \ {0} /\ Deadline \in Nat \ {0}
                          /\ MaxPages \in Nat /\ MaxAlerts \in Nat

Alerts == 1 .. MaxAlerts

VARIABLES sent,     \* alerts the chats acknowledged, numbered in that order
          fired,    \* alerts whose onAlert goroutine has not published yet
          conn,     \* "off", "open" (headers flushed) or "on" (subscribed)
          chan,     \* the client's channel
          shown,    \* what was written to the client's connection
          life,     \* "starting", "up", "stopping" or "down"
          waited,   \* ticks since Shutdown was called
          pages     \* page requests in flight

alerts == <<sent, fired>>
streams == <<conn, chan, shown>>
process == <<life, waited, pages>>
streamVars == <<alerts, streams, process>>

Running == life # "down"

\* main starts its routines before it binds the port.
StreamInit == /\ sent = 0 /\ fired = {}
              /\ life = "starting" /\ waited = 0 /\ pages = 0
              /\ conn = [c \in Clients |-> "off"]
              /\ chan = [c \in Clients |-> <<>>]
              /\ shown = [c \in Clients |-> {}]

\* The end of Engine.send: a goroutine of its own for every alert. The refresh
\* that alerts runs before the port is bound and is not stopped by Shutdown.
Fire == /\ Running /\ sent < MaxAlerts
        /\ sent' = sent + 1
        /\ fired' = fired \cup {sent + 1}
        /\ UNCHANGED <<streams, process>>

\* Shutdown closes the listener first: requests arrive only before it.
\* handleEvents answers before it subscribes.
Connect(c) == /\ life = "up" /\ conn[c] = "off"
              /\ conn' = [conn EXCEPT ![c] = "open"]
              /\ UNCHANGED <<alerts, chan, shown, process>>

Subscribe(c) == /\ conn[c] = "open"
                /\ conn' = [conn EXCEPT ![c] = "on"]
                /\ UNCHANGED <<alerts, chan, shown, process>>

\* mutant: the channel holds one message less.
RoomLess(c) == Len(chan[c]) < Buffer - 1

Room(c) == Len(chan[c]) < Buffer

\* mutant: the send waits for room.
PublishBlocking(m) ==
    /\ \A c \in Clients : conn[c] = "on" => Room(c)
    /\ chan' = [c \in Clients |-> IF conn[c] = "on" THEN Append(chan[c], m) ELSE chan[c]]

\* A client without room misses the message and stays subscribed.
PublishToAll(m) ==
    chan' = [c \in Clients |-> IF conn[c] = "on" /\ Room(c)
                               THEN Append(chan[c], m) ELSE chan[c]]

\* mutant: an alert that finds a full channel is published again.
PublishRetrying(m) ==
    /\ m \in fired
    /\ fired' = IF \A c \in Clients : conn[c] = "on" => Room(c) THEN fired \ {m} ELSE fired
    /\ PublishToAll(m)
    /\ UNCHANGED <<sent, conn, shown, process>>

\* The goroutines reach the broadcaster in any order.
Publish(m) == /\ m \in fired /\ fired' = fired \ {m}
              /\ PublishToAll(m)
              /\ UNCHANGED <<sent, conn, shown, process>>

Write(c) == /\ conn[c] = "on" /\ chan[c] # <<>>
            /\ shown' = [shown EXCEPT ![c] = @ \cup {Head(chan[c])}]
            /\ chan' = [chan EXCEPT ![c] = Tail(@)]
            /\ UNCHANGED <<alerts, conn, process>>

\* The request ends: Unsubscribe, and the channel is garbage.
Disconnect(c) == /\ conn[c] # "off"
                 /\ conn' = [conn EXCEPT ![c] = "off"]
                 /\ chan' = [chan EXCEPT ![c] = <<>>]
                 /\ UNCHANGED <<alerts, shown, process>>

PageRequest == /\ life = "up" /\ pages < MaxPages
               /\ pages' = pages + 1
               /\ UNCHANGED <<alerts, streams, life, waited>>

PageAnswer == /\ pages > 0
              /\ pages' = pages - 1
              /\ UNCHANGED <<alerts, streams, life, waited>>

Bind == /\ life = "starting" /\ life' = "up"
        /\ UNCHANGED <<alerts, streams, waited, pages>>

\* SIGINT or SIGTERM, awaited once the port is bound; the streams stay open.
Stop == /\ life = "up" /\ life' = "stopping" /\ waited' = 0
        /\ UNCHANGED <<alerts, streams, pages>>

\* The process takes its goroutines, channels and connections with it.
Exit == /\ life' = "down" /\ waited' = 0 /\ pages' = 0 /\ fired' = {}
        /\ conn' = [c \in Clients |-> "off"]
        /\ chan' = [c \in Clients |-> <<>>]
        /\ UNCHANGED <<sent, shown>>

\* mutant: Shutdown with a context that has no deadline.
TimeNever == FALSE

TimeUp == waited >= Deadline

ShutdownWaits == /\ life = "stopping" /\ waited < Deadline
                 /\ waited' = waited + 1
                 /\ UNCHANGED <<alerts, streams, life, pages>>

\* Shutdown returns when no request is left, or gives up: exit status 0 or 1.
ShutdownDone == /\ life = "stopping"
                /\ pages = 0 /\ \A c \in Clients : conn[c] = "off"
                /\ Exit
ShutdownTimeout == /\ life = "stopping" /\ TimeUp
                   /\ Exit

\* A crash, a kill, a port that cannot be bound or an error of Serve.
Die == Running /\ Exit

Start == /\ ~ Running /\ life' = "starting"
         /\ UNCHANGED <<alerts, streams, waited, pages>>

StreamNext == \/ Fire
              \/ \E m \in Alerts : Publish(m)
              \/ \E c \in Clients : Connect(c) \/ Subscribe(c) \/ Write(c) \/ Disconnect(c)
              \/ PageRequest \/ PageAnswer
              \/ Start \/ Bind \/ Stop \/ ShutdownWaits \/ ShutdownDone \/ ShutdownTimeout \/ Die

StreamSpec == StreamInit /\ [][StreamNext]_streamVars

\* Goroutines run and time passes; connections are written to, except stalled
\* ones. Nothing makes a client leave or a page request end.
StreamFairness == /\ \A m \in Alerts : WF_streamVars(Publish(m))
                  /\ \A c \in Clients : WF_streamVars(Subscribe(c))
                  /\ \A c \in Clients \ Stalled : WF_streamVars(Write(c))
                  /\ WF_streamVars(ShutdownWaits) /\ WF_streamVars(ShutdownDone) /\ WF_streamVars(ShutdownTimeout)

FairStreamSpec == StreamSpec /\ StreamFairness

-----------------------------------------------------------------------------
StreamTypeOK == /\ sent \in 0 .. MaxAlerts /\ fired \in SUBSET Alerts
                /\ conn \in [Clients -> {"off", "open", "on"}]
                /\ chan \in [Clients -> Seq(Alerts)]
                /\ \A c \in Clients : Len(chan[c]) <= Buffer
                /\ shown \in [Clients -> SUBSET Alerts]
                /\ life \in {"starting", "up", "stopping", "down"}
                /\ waited \in 0 .. Deadline /\ pages \in 0 .. MaxPages

\* An alert on its way to a page is on one leg of it only: not published yet, in
\* the channel of the page once, or written to it. So no page is shown an alert
\* twice, whatever order the goroutines publish in and however often the page
\* connects again or the server restarts; every channel belongs to an open
\* stream, and only alerts the chats acknowledged are on their way at all.
EachAlertOnce == \A c \in Clients :
    /\ chan[c] # <<>> => conn[c] = "on"
    /\ shown[c] \cup fired \subseteq 1 .. sent /\ shown[c] \cap fired = {}
    /\ \A i \in DOMAIN chan[c] : /\ chan[c][i] \in (1 .. sent) \ (fired \cup shown[c])
                                 /\ \A j \in DOMAIN chan[c] : chan[c][i] = chan[c][j] => i = j

\* A client that stops reading delays nobody: every alert is published, or
\* dies with the process.
PublishNeverWaits == \A m \in Alerts : m \in fired ~> m \notin fired

\* Of a burst that finds the channel of a reading client empty, the client is
\* shown as many alerts as the channel holds, in whatever order they are
\* published and whatever other clients do, unless it leaves or the process
\* ends; a stopping server keeps showing alerts while Shutdown waits.
BurstIsShown == \A c \in Clients \ Stalled, before \in SUBSET Alerts :
    (/\ conn[c] = "on" /\ chan[c] = <<>> /\ shown[c] = before
     /\ Cardinality(fired) >= Buffer)
        ~> (conn[c] # "on" \/ Cardinality(shown[c] \ before) >= Buffer)

\* Event streams end only when their clients leave, and yet a stop ends the
\* process: Shutdown gives up at its deadline.
StopEnds == life = "stopping" ~> life = "down"

\* broadcaster.go:29, "slow clients are dropped": a client whose channel is
\* full when an alert is published is not subscribed any more.
SlowClientIsDropped == [][\A m \in Alerts, c \in Clients :
    Publish(m) /\ conn[c] = "on" /\ ~ Room(c) => conn'[c] # "on"]_streamVars
=============================================================================
