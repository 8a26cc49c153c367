------------------------------ MODULE PyServer ------------------------------
(***************************************************************************)
(* server.py: the example external server, a process that speaks over MQTT *)
(* with one module gateway.  on_message is one action per way through it.  *)
(*                                                                         *)
(* The gateway and the MQTT broker are external.  Both sides publish with  *)
(* qos 0: a message arrives at most once, in order, or not at all.  The    *)
(* gateway opens a new session for each connect, believes only messages of *)
(* its own session, and gives up on answers that do not come.              *)
(***************************************************************************)
EXTENDS Naturals, FiniteSets, SequencesExt

CONSTANTS Device,        \* the devices of the gateway
          MaxSessions,   \* bound: connects of the gateway
          MaxStatuses,   \* bound: statuses of one session
          MaxRuns        \* bound: starts of server.py

ASSUME PyServerAssumption ==
    {MaxSessions, MaxStatuses, MaxRuns} \subseteq Nat \ {0}

VARIABLES
    up,          \* is server.py running, and the number of its starts
    runs,
    subscribed,  \* does the broker hold its subscription
    connection_status, sessionId, command_message_counter, last_device_status,
    gateway,     \* what the gateway knows of its connection
    toServer, toGateway,    \* messages under way, oldest first
    handled,     \* history: the statuses this run of the server has answered
    disturbed    \* history: has a fault occurred since the server's start

globals == <<connection_status, sessionId, command_message_counter,
             last_device_status, handled>>
process == <<up, runs, subscribed>>
vars == <<process, globals, gateway, toServer, toGateway, disturbed>>

NoSession == 0      \* ""
NoDevice == "none"  \* last_device_status = 0
Session == 1 .. MaxSessions
Json == {"example", "empty"}  \* default_json_command, empty_json_command

\* What the gateway publishes.  "readable": json.loads takes its payloads.
Connect(s) == [kind |-> "connect", session |-> s]
Status(s, n, d, r) == [kind |-> "status", session |-> s, messageCounter |-> n,
                       device |-> d, readable |-> r]

\* What the server publishes.
create_connect_response(s) == [kind |-> "connectResponse", session |-> s]
create_status_response(n) ==
    [kind |-> "statusResponse", session |-> sessionId, messageCounter |-> n]
create_external_command(counter, device, json) ==
    [kind |-> "command", session |-> sessionId, messageCounter |-> counter,
     device |-> device, data |-> json]

Phase == {"idle", "connecting", "reporting", "connected"}

\* The variables have their types.
TypeOK ==
    /\ up \in BOOLEAN /\ subscribed \in BOOLEAN /\ disturbed \in BOOLEAN
    /\ runs \in 0 .. MaxRuns
    /\ connection_status \in 0 .. 2
    /\ sessionId \in Session \cup {NoSession}
    /\ command_message_counter \in 0 .. MaxStatuses
    /\ last_device_status \in Device \cup {NoDevice}
    /\ gateway \in [phase: Phase, session: Session \cup {NoSession},
                    sent: 0 .. MaxStatuses, answered: 0 .. MaxStatuses,
                    commands: 0 .. MaxStatuses]
    /\ \A i \in DOMAIN toGateway :
         toGateway[i].session \in Session \cup {NoSession}

-----------------------------------------------------------------------------
(* The process *)

\* The globals as the module's top level sets them.
FreshGlobals ==
    /\ connection_status' = 0
    /\ sessionId' = NoSession
    /\ command_message_counter' = 0
    /\ last_device_status' = NoDevice
    /\ handled' = <<>>

Init ==
    /\ up = FALSE /\ runs = 0 /\ subscribed = FALSE
    /\ connection_status = 0
    /\ sessionId = NoSession
    /\ command_message_counter = 0
    /\ last_device_status = NoDevice
    /\ handled = <<>>
    /\ gateway = [phase |-> "idle", session |-> NoSession, sent |-> 0,
                  answered |-> 0, commands |-> 0]
    /\ toServer = <<>> /\ toGateway = <<>>
    /\ disturbed = FALSE

\* The top level: connect with a clean start, subscribe once, loop for ever.
Start ==
    /\ ~up /\ runs < MaxRuns
    /\ up' = TRUE /\ runs' = runs + 1 /\ subscribed' = TRUE
    /\ disturbed' = FALSE
    /\ UNCHANGED <<globals, gateway, toServer, toGateway>>

\* The process ends.  Nothing of it is kept, and the broker forgets what it
\* had not delivered yet.
Ends ==
    /\ up' = FALSE /\ subscribed' = FALSE
    /\ FreshGlobals
    /\ toServer' = <<>>
    /\ UNCHANGED <<runs, toGateway>>

\* KeyboardInterrupt, or any other end from outside.
Stop ==
    /\ up /\ runs < MaxRuns
    /\ Ends
    /\ UNCHANGED <<gateway, disturbed>>

\* loop_forever connects again after a broken connection; with a clean start
\* the subscription is gone, and the code does not ask for it again.
Reconnect ==
    /\ up
    /\ subscribed' = FALSE /\ disturbed' = TRUE
    /\ toServer' = <<>>
    /\ UNCHANGED <<up, runs, globals, gateway, toGateway>>

-----------------------------------------------------------------------------
(* on_message *)

\* external_client_message: the next message there is.
message == Head(toServer)

Receives ==
    /\ up /\ toServer # <<>>
    /\ toServer' = Tail(toServer)

publish(ms) == toGateway' = toGateway \o ms

\* Mutant: the return after "Connect message expected" is missing.
ConnectExpectedFallsThrough ==
    /\ Receives
    /\ connection_status = 0
    /\ message.kind # "connect"
    /\ connection_status' = 1
    /\ UNCHANGED <<process, sessionId, command_message_counter,
                   last_device_status, handled, gateway, toGateway, disturbed>>

\* State 0: anything but a connect is ignored ...
ConnectExpected ==
    /\ Receives
    /\ connection_status = 0
    /\ message.kind # "connect"
    /\ UNCHANGED <<process, globals, gateway, toGateway, disturbed>>

\* Mutant: a connect is answered in every state.
handle_connect_always ==
    /\ Receives
    /\ message.kind = "connect"
    /\ sessionId' = message.session
    /\ publish(<<create_connect_response(message.session)>>)
    /\ connection_status' = 1
    /\ UNCHANGED <<process, command_message_counter, last_device_status,
                   handled, gateway, disturbed>>

\* ... and a connect is answered under its session.
handle_connect ==
    /\ Receives
    /\ connection_status = 0
    /\ message.kind = "connect"
    /\ sessionId' = message.session
    /\ publish(<<create_connect_response(message.session)>>)
    /\ connection_status' = 1
    /\ UNCHANGED <<process, command_message_counter, last_device_status,
                   handled, gateway, disturbed>>

\* States 1 and 2: what is no status is ignored.  Of such messages only connects
\* are modelled; the gateway's commandResponse to a command is another, and as
\* it changes nothing here, it is never sent.
ConnectIgnored ==
    /\ Receives
    /\ connection_status # 0
    /\ message.kind # "status"
    /\ UNCHANGED <<process, globals, gateway, toGateway, disturbed>>

\* json.loads throws in print_status, through on_message and loop_forever,
\* which only stops for a KeyboardInterrupt: the process ends.
UnreadableStatus ==
    /\ up /\ toServer # <<>>
    /\ connection_status # 0
    /\ message.kind = "status" /\ ~message.readable
    /\ Ends
    /\ UNCHANGED <<gateway, disturbed>>

\* A status m is kept and counted, and the replies go out.
Handles(m, replies, counted) ==
    /\ last_device_status' = m.device
    /\ publish(replies)
    /\ command_message_counter' = command_message_counter + counted
    /\ handled' = Append(handled, m)
    /\ UNCHANGED <<process, sessionId, gateway, disturbed>>

status_response(m) == create_status_response(m.messageCounter)
command_for(device, json) == create_external_command(command_message_counter, device, json)

\* Mutants: the command is made before the status is kept; the counter stays;
\* the status is not answered; the counter is raised twice; no command follows.
HandleStatusBackwards(m, json) ==
    Handles(m, <<status_response(m), command_for(last_device_status, json)>>, 1)
HandleStatusSameCounter(m, json) ==
    Handles(m, <<status_response(m), command_for(m.device, json)>>, 0)
HandleStatusSilently(m, json) == Handles(m, <<command_for(m.device, json)>>, 1)
HandleStatusTwoSteps(m, json) ==
    Handles(m, <<status_response(m), command_for(m.device, json)>>, 2)
HandleStatusOnly(m, json) == Handles(m, <<status_response(m)>>, 1)

\* handle_status answers, and send_command sends a command for the device of
\* last_device_status: the example after the first status of the run, an empty
\* one afterwards.
HandleStatus(m, json) ==
    Handles(m, <<status_response(m), command_for(m.device, json)>>, 1)

FirstStatus ==
    /\ Receives
    /\ connection_status = 1
    /\ message.kind = "status" /\ message.readable
    /\ HandleStatus(message, "example")
    /\ connection_status' = 2

LaterStatus ==
    /\ Receives
    /\ connection_status = 2
    /\ message.kind = "status" /\ message.readable
    /\ HandleStatus(message, "empty")
    /\ UNCHANGED connection_status

on_message ==
    \/ ConnectExpected \/ handle_connect
    \/ ConnectIgnored \/ UnreadableStatus
    \/ FirstStatus \/ LaterStatus

-----------------------------------------------------------------------------
(* The gateway and the broker *)

\* A message for a server that is not subscribed is dropped by the broker.
Sends(m) ==
    toServer' = IF up /\ subscribed THEN Append(toServer, m) ELSE toServer

GatewayConnects ==
    /\ gateway.phase = "idle" /\ gateway.session < MaxSessions
    /\ gateway' = [phase |-> "connecting", session |-> gateway.session + 1,
                   sent |-> 0, answered |-> 0, commands |-> 0]
    /\ Sends(Connect(gateway.session + 1))
    /\ UNCHANGED <<process, globals, toGateway, disturbed>>

\* One status to complete the connection, any number afterwards.
GatewayReports(d, readable) ==
    /\ \/ gateway.phase = "connected"
       \/ gateway.phase = "reporting" /\ gateway.sent = 0
    /\ gateway.sent < MaxStatuses
    /\ readable \/ runs < MaxRuns
    /\ gateway' = [gateway EXCEPT !.sent = @ + 1]
    /\ Sends(Status(gateway.session, gateway.sent, d, readable))
    /\ UNCHANGED <<process, globals, toGateway, disturbed>>

\* What a message of its own session tells the gateway.
Learns(m) ==
    CASE m.kind = "connectResponse" /\ gateway.phase = "connecting" ->
            [gateway EXCEPT !.phase = "reporting"]
      [] m.kind = "statusResponse" /\ m.messageCounter = gateway.answered ->
            [gateway EXCEPT !.answered = @ + 1]
      [] m.kind = "command" ->
            [gateway EXCEPT !.phase = "connected",
                            !.commands = m.messageCounter + 1]
      [] OTHER -> gateway

GatewayReceives ==
    /\ toGateway # <<>>
    /\ toGateway' = Tail(toGateway)
    /\ gateway' = IF /\ Head(toGateway).session = gateway.session
                     /\ gateway.phase # "idle"
                  THEN Learns(Head(toGateway)) ELSE gateway
    /\ UNCHANGED <<process, globals, toServer, disturbed>>

\* The gateway waits for an answer, and none is under way any more.
Unanswered ==
    /\ up /\ toServer = <<>> /\ toGateway = <<>>
    /\ \/ gateway.phase = "connecting"
       \/ gateway.phase = "reporting" /\ gateway.sent > 0
       \/ gateway.answered < gateway.sent

\* The gateway stops waiting: in time, or too early (it may also be restarted).
GatewayGivesUp ==
    /\ gateway.phase # "idle" /\ gateway.session < MaxSessions
    /\ disturbed' = (disturbed \/ ~Unanswered)
    /\ gateway' = [gateway EXCEPT !.phase = "idle"]
    /\ UNCHANGED <<process, globals, toServer, toGateway>>

\* qos 0: any message may be lost.
Lose ==
    /\ disturbed' = TRUE
    /\ \/ /\ \E i \in DOMAIN toServer : toServer' = RemoveAt(toServer, i)
          /\ UNCHANGED toGateway
       \/ /\ \E i \in DOMAIN toGateway : toGateway' = RemoveAt(toGateway, i)
          /\ UNCHANGED toServer
    /\ UNCHANGED <<process, globals, gateway>>

Next ==
    \/ Start \/ Stop \/ Reconnect
    \/ on_message
    \/ GatewayConnects
    \/ \E d \in Device, readable \in BOOLEAN : GatewayReports(d, readable)
    \/ GatewayReceives \/ GatewayGivesUp \/ Lose

Spec == Init /\ [][Next]_vars

\* loop_forever handles every message, the broker delivers, the gateway goes
\* through its connection and reports, and somebody starts the server again.
Fairness ==
    /\ WF_vars(Start)
    /\ WF_vars(on_message)
    /\ WF_vars(GatewayConnects)
    /\ WF_vars(\E d \in Device : GatewayReports(d, TRUE))
    /\ WF_vars(GatewayReceives)
    /\ WF_vars(Unanswered /\ GatewayGivesUp)

FairSpec == Spec /\ Fairness

-----------------------------------------------------------------------------
(* Properties *)

\* One run of server.py serves one session: whatever it answers was sent in
\* the session it answers under, however often the gateway starts anew.
AnsweredUnderOwnSession ==
    \A i \in DOMAIN handled : handled[i].session = sessionId

\* The numbers of commands tell which status they answer: command k of the
\* session is for the device of the (k+1)th status that was handled, although
\* both travel by way of globals.
CommandAnswersItsStatus ==
    \A i \in DOMAIN toGateway :
      LET c == toGateway[i] IN
      c.kind = "command" /\ up /\ c.session = sessionId =>
        /\ c.messageCounter < Len(handled)
        /\ handled[c.messageCounter + 1].device = c.device

\* The gateway never meets a command number of its session again, although
\* the counter begins at 0 with each run of the server and messages of the
\* run before may still be under way.
CommandNumbersGrow ==
    \A i \in DOMAIN toGateway :
      LET c == toGateway[i] IN
      c.kind = "command" =>
        /\ c.session = gateway.session => gateway.commands <= c.messageCounter
        /\ \A j \in 1 .. i - 1 :
             toGateway[j].kind = "command" /\ toGateway[j].session = c.session
               => toGateway[j].messageCounter < c.messageCounter

\* As long as nothing was lost and the gateway has waited for its answers,
\* the server can hear it: a gateway that waits in vain for its connect
\* meets a server in state 0.  (A server in state 1 or 2 ignores every
\* connect, and one that has connected again gets no messages.)
DeafOnlyAfterFault ==
    Unanswered /\ gateway.phase = "connecting" /\ ~disturbed =>
      connection_status = 0 /\ subscribed

Under(ms, kind, s) ==
    Cardinality({i \in DOMAIN ms : ms[i].kind = kind /\ ms[i].session = s})

\* As long as nothing was lost, each status of the session that is served is
\* on its way, or its answer is, or the answer has arrived.
EveryStatusAccounted ==
    up /\ ~disturbed /\ sessionId = gateway.session /\ sessionId # NoSession =>
      gateway.sent = gateway.answered
                       + Under(toServer, "status", sessionId)
                       + Under(toGateway, "statusResponse", sessionId)

\* A gateway that is patient gets its connection in the end, whenever the
\* server stops and is started again, as long as no message is lost to a
\* server that runs.
HandshakeCompletes ==
    []~disturbed => (gateway.phase # "connected" ~> gateway.phase = "connected")
=============================================================================
