--------------------------- MODULE PyServerProofs ---------------------------
(***************************************************************************)
(* Proofs about PyServer, for any devices and bounds and with any losses:  *)
(* what the server answers, how it numbers its commands, and what becomes  *)
(* of the statuses as long as nothing goes wrong.                          *)
(***************************************************************************)
EXTENDS PyServer, SequenceTheorems, FiniteSetTheorems, TLAPS

Statuses ==
  [kind : {"status"}, session : Nat, messageCounter : Nat, device : Device, readable : BOOLEAN]

ToServer == [kind : {"connect"}, session : Nat] \cup Statuses

Responses ==
  [kind : {"connectResponse"}, session : Nat]
    \cup [kind : {"statusResponse"}, session : Nat, messageCounter : Nat]

Commands ==
  [kind : {"command"}, session : Nat, messageCounter : Nat, device : Device, data : Json]

ToGateway == Responses \cup Commands

Types ==
  /\ up \in BOOLEAN
  /\ connection_status \in 0 .. 2
  /\ sessionId \in Nat
  /\ command_message_counter \in Nat
  /\ handled \in Seq(Statuses)
  /\ gateway \in [phase : Phase, session : Nat, sent : Nat, answered : Nat, commands : Nat]
  /\ toServer \in Seq(ToServer)
  /\ toGateway \in Seq(ToGateway)

\* No message is from a session the gateway has not begun, nor is the server's.
Begun ==
  /\ \A i \in 1 .. Len(toServer) : toServer[i].session \in 1 .. gateway.session
  /\ \A k \in 1 .. Len(toGateway) : toGateway[k].session \in 1 .. gateway.session
  /\ sessionId \in 0 .. gateway.session
  /\ gateway.phase # "idle" => gateway.session >= 1

\* The globals agree with each other; without a process nothing waits for it.
GlobalsAgree ==
  /\ connection_status = 0 <=> sessionId = 0
  /\ connection_status = 0 => command_message_counter = 0
  /\ command_message_counter = Len(handled)
  /\ ~up => connection_status = 0 /\ toServer = <<>>

\* A connect that is under way is the news: its session is newer than whatever
\* the server or the gateway has heard, and only connects come after it.
ConnectIsNews ==
  \A i \in 1 .. Len(toServer) :
    toServer[i].kind = "connect" =>
      /\ gateway.phase \in {"idle", "connecting"}
      /\ sessionId < toServer[i].session
      /\ gateway.session = toServer[i].session => gateway.commands = 0
      /\ \A j \in 1 .. Len(toServer) :
           i < j => toServer[j].kind = "connect" /\ toServer[i].session < toServer[j].session
      /\ \A k \in 1 .. Len(toGateway) : toGateway[k].session < toServer[i].session

\* A server that has answered a connect sees statuses of that session only.
OneSession ==
  connection_status # 0 =>
    /\ \A i \in 1 .. Len(toServer) :
         toServer[i].kind = "status" => toServer[i].session = sessionId
    /\ \A i \in 1 .. Len(handled) : handled[i].session = sessionId
    /\ \A k \in 1 .. Len(toGateway) : toGateway[k].session <= sessionId
    /\ gateway.phase \in {"reporting", "connected"} => gateway.session = sessionId

\* Commands under way are numbered in their order.
CommandsNumbered ==
  \A k \in 1 .. Len(toGateway) :
    toGateway[k].kind = "command" =>
      /\ toGateway[k].session = gateway.session => gateway.commands <= toGateway[k].messageCounter
      /\ \A j \in 1 .. k - 1 :
           toGateway[j].kind = "command" /\ toGateway[j].session = toGateway[k].session
             => toGateway[j].messageCounter < toGateway[k].messageCounter

\* Those of the server's session have the numbers it has given.
CommandsKnown ==
  /\ \A k \in 1 .. Len(toGateway) :
       toGateway[k].kind = "command" /\ toGateway[k].session = sessionId =>
         /\ toGateway[k].messageCounter < Len(handled)
         /\ handled[toGateway[k].messageCounter + 1].device = toGateway[k].device
  /\ sessionId # 0 /\ gateway.session = sessionId => gateway.commands <= command_message_counter

Inv ==
  /\ Types
  /\ Begun
  /\ GlobalsAgree
  /\ ConnectIsNews
  /\ OneSession
  /\ CommandsNumbered
  /\ CommandsKnown

-----------------------------------------------------------------------------
(***************************************************************************)
(* Messages disappear, in whatever place, and the others keep their order. *)
(***************************************************************************)

Thins(s, t) ==
  \E e \in [1 .. Len(s) -> 1 .. Len(t)] :
    /\ \A i \in 1 .. Len(s) : s[i] = t[e[i]]
    /\ \A i, j \in 1 .. Len(s) : i < j => e[i] < e[j]

LEMMA SameThins == ASSUME NEW S, NEW s \in Seq(S) PROVE Thins(s, s)
<1> DEFINE e == [i \in 1 .. Len(s) |-> i]
<1>1. Len(s) \in Nat /\ e \in [1 .. Len(s) -> 1 .. Len(s)]
  BY LenProperties
<1> QED
  BY <1>1 DEF Thins

LEMMA EmptyThins == ASSUME NEW S, NEW t \in Seq(S) PROVE Thins(<<>>, t)
<1> DEFINE e == [i \in {} |-> i]
<1>1. e \in [1 .. Len(<<>>) -> 1 .. Len(t)] /\ 1 .. Len(<<>>) = {}
  OBVIOUS
<1> QED
  BY <1>1 DEF Thins

LEMMA TailThins ==
  ASSUME NEW S, NEW t \in Seq(S), t # <<>>
  PROVE  /\ Tail(t) \in Seq(S) /\ Thins(Tail(t), t) /\ Len(Tail(t)) = Len(t) - 1
         /\ \A i \in 1 .. Len(Tail(t)) : Tail(t)[i] = t[i + 1] /\ i + 1 \in 1 .. Len(t)
         /\ 1 \in 1 .. Len(t) /\ Head(t) = t[1]
<1> DEFINE s == Tail(t)
           e == [i \in 1 .. Len(s) |-> i + 1]
<1>1. /\ s \in Seq(S) /\ Len(s) = Len(t) - 1 /\ Len(t) \in Nat \ {0}
      /\ \A i \in 1 .. Len(s) : s[i] = t[i + 1]
  BY HeadTailProperties, EmptySeq
<1> HIDE DEF s
<1>2. /\ e \in [1 .. Len(s) -> 1 .. Len(t)]
      /\ \A i \in 1 .. Len(s) : s[i] = t[e[i]]
      /\ \A i, j \in 1 .. Len(s) : i < j => e[i] < e[j]
  BY <1>1
<1> HIDE DEF e
<1>3. Thins(s, t)
  BY <1>2 DEF Thins
<1> QED
  BY <1>1, <1>3 DEF s

LEMMA RemoveAtThins ==
  ASSUME NEW S, NEW t \in Seq(S), NEW n \in 1 .. Len(t)
  PROVE  RemoveAt(t, n) \in Seq(S) /\ Thins(RemoveAt(t, n), t)
<1> DEFINE a == SubSeq(t, 1, n - 1)
           b == SubSeq(t, n + 1, Len(t))
           s == RemoveAt(t, n)
           e == [i \in 1 .. Len(s) |-> IF i < n THEN i ELSE i + 1]
<1>1. Len(t) \in Nat /\ n \in Nat /\ n >= 1 /\ n <= Len(t)
  BY LenProperties
<1>2. \A k \in 1 .. Len(t) : t[k] \in S
  BY ElementOfSeq
<1>3. /\ a \in Seq(S) /\ Len(a) = n - 1
      /\ \A j \in 1 .. n - 1 : a[j] = t[j]
  <2>1. \A k \in 1 .. n - 1 : t[k] \in S
    BY <1>1, <1>2
  <2> QED
    BY <1>1, <2>1, SubSeqProperties
<1>4. /\ b \in Seq(S) /\ Len(b) = Len(t) - n
      /\ \A j \in 1 .. Len(t) - n : b[j] = t[j + n]
  <2>1. \A k \in n + 1 .. Len(t) : t[k] \in S
    BY <1>1, <1>2
  <2> QED
    BY <1>1, <2>1, SubSeqProperties
<1>5. s = a \o b
  BY DEF RemoveAt
<1> HIDE DEF a, b, s
<1>6. /\ s \in Seq(S) /\ Len(s) = Len(a) + Len(b)
      /\ \A j \in 1 .. Len(a) + Len(b) : s[j] = IF j <= Len(a) THEN a[j] ELSE b[j - Len(a)]
  BY <1>3, <1>4, <1>5, ConcatProperties
<1>7. Len(s) = Len(t) - 1
  BY <1>1, <1>3, <1>4, <1>6
<1>8. e \in [1 .. Len(s) -> 1 .. Len(t)]
  BY <1>1, <1>7
<1>9. ASSUME NEW j \in 1 .. Len(s) PROVE s[j] = t[e[j]]
  <2>1. CASE j < n
    BY <1>1, <1>3, <1>4, <1>6, <2>1
  <2>2. CASE ~(j < n)
    <3>1. j - (n - 1) \in 1 .. Len(t) - n /\ j - (n - 1) + n = j + 1
      BY <1>1, <1>7, <2>2
    <3>2. s[j] = b[j - (n - 1)]
      BY <1>1, <1>3, <1>4, <1>6, <2>2
    <3> QED
      BY <1>4, <2>2, <3>1, <3>2
  <2> QED
    BY <2>1, <2>2
<1>10. \A i, j \in 1 .. Len(s) : i < j => e[i] < e[j]
  BY <1>1, <1>7
<1> HIDE DEF e
<1>11. Thins(s, t)
  BY <1>8, <1>9, <1>10 DEF Thins
<1> QED
  BY <1>6, <1>11 DEF s

-----------------------------------------------------------------------------
(***************************************************************************)
(* Every step preserves Inv: one lemma per kind of step.                   *)
(***************************************************************************)

\* Steps that only let messages disappear.
Vanishing == Start \/ UNCHANGED vars \/ Reconnect \/ ConnectExpected \/ ConnectIgnored \/ Lose

LEMMA Vanishes ==
  ASSUME Inv, Vanishing
  PROVE  /\ up' \in BOOLEAN /\ (up' \/ up' = up) /\ UNCHANGED <<globals, gateway>>
         /\ toServer' \in Seq(ToServer) /\ Thins(toServer', toServer)
         /\ toGateway' \in Seq(ToGateway) /\ Thins(toGateway', toGateway)
<1>0. toServer \in Seq(ToServer) /\ toGateway \in Seq(ToGateway) /\ up \in BOOLEAN
  BY DEF Inv, Types
<1>1. CASE Start \/ UNCHANGED vars
  <2>1. up' \in BOOLEAN /\ (up' \/ up' = up) /\ UNCHANGED <<globals, gateway, toServer, toGateway>>
    BY <1>0, <1>1 DEF Start, vars, process
  <2> QED
    BY <1>0, <2>1, SameThins
<1>2. CASE Reconnect
  <2>1. up' \in BOOLEAN /\ up' = up /\ toServer' = <<>> /\ UNCHANGED <<globals, gateway, toGateway>>
    BY <1>0, <1>2 DEF Reconnect
  <2>2. toServer' \in Seq(ToServer) /\ Thins(toServer', toServer)
    BY <1>0, <2>1, EmptyThins, EmptySeq
  <2> QED
    BY <1>0, <2>1, <2>2, SameThins
<1>3. CASE ConnectExpected \/ ConnectIgnored
  <2>1. /\ up' \in BOOLEAN /\ up' = up /\ toServer # <<>> /\ toServer' = Tail(toServer)
        /\ UNCHANGED <<globals, gateway, toGateway>>
    BY <1>0, <1>3 DEF ConnectExpected, ConnectIgnored, Receives, process
  <2>2. toServer' \in Seq(ToServer) /\ Thins(toServer', toServer)
    BY <1>0, <2>1, TailThins
  <2> QED
    BY <1>0, <2>1, <2>2, SameThins
<1>4. CASE Lose
  <2>1. up' \in BOOLEAN /\ up' = up /\ UNCHANGED <<globals, gateway>>
    BY <1>0, <1>4 DEF Lose, process
  <2>2. CASE \E i \in DOMAIN toServer : toServer' = RemoveAt(toServer, i) /\ toGateway' = toGateway
    <3>1. PICK i \in 1 .. Len(toServer) : toServer' = RemoveAt(toServer, i) /\ toGateway' = toGateway
      BY <1>0, <2>2, LenProperties
    <3>2. toServer' \in Seq(ToServer) /\ Thins(toServer', toServer)
      BY <1>0, <3>1, RemoveAtThins
    <3> QED
      BY <1>0, <2>1, <3>1, <3>2, SameThins
  <2>3. CASE \E i \in DOMAIN toGateway : toGateway' = RemoveAt(toGateway, i) /\ toServer' = toServer
    <3>1. PICK i \in 1 .. Len(toGateway) : toGateway' = RemoveAt(toGateway, i) /\ toServer' = toServer
      BY <1>0, <2>3, LenProperties
    <3>2. toGateway' \in Seq(ToGateway) /\ Thins(toGateway', toGateway)
      BY <1>0, <3>1, RemoveAtThins
    <3> QED
      BY <1>0, <2>1, <3>1, <3>2, SameThins
  <2> QED
    BY <1>4, <2>2, <2>3 DEF Lose
<1> QED
  BY <1>1, <1>2, <1>3, <1>4 DEF Vanishing

LEMMA ThinInv ==
  ASSUME Inv, up' \in BOOLEAN, up' \/ up' = up, UNCHANGED <<globals, gateway>>,
         toServer' \in Seq(ToServer), Thins(toServer', toServer),
         toGateway' \in Seq(ToGateway), Thins(toGateway', toGateway)
  PROVE  Inv'
<1> PICK e \in [1 .. Len(toServer') -> 1 .. Len(toServer)] :
      /\ \A i \in 1 .. Len(toServer') : toServer'[i] = toServer[e[i]]
      /\ \A i, j \in 1 .. Len(toServer') : i < j => e[i] < e[j]
  BY DEF Thins
<1> PICK f \in [1 .. Len(toGateway') -> 1 .. Len(toGateway)] :
      /\ \A i \in 1 .. Len(toGateway') : toGateway'[i] = toGateway[f[i]]
      /\ \A i, j \in 1 .. Len(toGateway') : i < j => f[i] < f[j]
  BY DEF Thins
<1>0. Len(toGateway') \in Nat /\ Len(toGateway) \in Nat
  BY LenProperties DEF Inv, Types
<1>e. /\ \A i \in 1 .. Len(toServer') : e[i] \in 1 .. Len(toServer) /\ toServer'[i] = toServer[e[i]]
      /\ \A k \in 1 .. Len(toGateway') : f[k] \in 1 .. Len(toGateway) /\ toGateway'[k] = toGateway[f[k]]
  OBVIOUS
<1>1. Types' /\ Begun'
  BY DEF Inv, Types, Begun, globals
<1>2. GlobalsAgree'
  <2>1. ~up' => toServer' = <<>>
    <3>1. SUFFICES ASSUME ~up', toServer' # <<>> PROVE FALSE
      OBVIOUS
    <3>2. toServer = <<>>
      BY <3>1 DEF Inv, GlobalsAgree
    <3>3. 1 \in 1 .. Len(toServer') /\ 1 .. Len(toServer) = {}
      BY <3>1, <3>2, EmptySeq
    <3> QED
      BY <3>3
  <2> QED
    BY <2>1 DEF Inv, GlobalsAgree, globals
<1>3. ConnectIsNews'
  <2> SUFFICES ASSUME NEW i \in 1 .. Len(toServer'), toServer'[i].kind = "connect"
      PROVE  /\ gateway.phase \in {"idle", "connecting"}
             /\ sessionId < toServer'[i].session
             /\ gateway.session = toServer'[i].session => gateway.commands = 0
             /\ \A j \in 1 .. Len(toServer') :
                  i < j => toServer'[j].kind = "connect" /\ toServer'[i].session < toServer'[j].session
             /\ \A k \in 1 .. Len(toGateway') : toGateway'[k].session < toServer'[i].session
    BY DEF ConnectIsNews, globals
  <2> DEFINE a == e[i]
  <2>1. a \in 1 .. Len(toServer) /\ toServer'[i] = toServer[a] /\ toServer[a].kind = "connect"
    BY <1>e
  <2>2. /\ gateway.phase \in {"idle", "connecting"}
        /\ sessionId < toServer[a].session
        /\ gateway.session = toServer[a].session => gateway.commands = 0
        /\ \A j \in 1 .. Len(toServer) :
             a < j => toServer[j].kind = "connect" /\ toServer[a].session < toServer[j].session
        /\ \A k \in 1 .. Len(toGateway) : toGateway[k].session < toServer[a].session
    BY <2>1 DEF Inv, ConnectIsNews
  <2>3. \A j \in 1 .. Len(toServer') : i < j => a < e[j]
    OBVIOUS
  <2> HIDE DEF a
  <2>4. \A j \in 1 .. Len(toServer') :
          i < j => toServer'[j].kind = "connect" /\ toServer'[i].session < toServer'[j].session
    BY <1>e, <2>1, <2>2, <2>3
  <2>5. \A k \in 1 .. Len(toGateway') : toGateway'[k].session < toServer'[i].session
    BY <1>e, <2>1, <2>2
  <2> QED
    BY <2>1, <2>2, <2>4, <2>5
<1>4. OneSession'
  <2> SUFFICES ASSUME connection_status # 0
      PROVE  /\ \A i \in 1 .. Len(toServer') :
                  toServer'[i].kind = "status" => toServer'[i].session = sessionId
             /\ \A i \in 1 .. Len(handled) : handled[i].session = sessionId
             /\ \A k \in 1 .. Len(toGateway') : toGateway'[k].session <= sessionId
             /\ gateway.phase \in {"reporting", "connected"} => gateway.session = sessionId
    BY DEF OneSession, globals
  <2>1. /\ \A i \in 1 .. Len(toServer) :
             toServer[i].kind = "status" => toServer[i].session = sessionId
        /\ \A i \in 1 .. Len(handled) : handled[i].session = sessionId
        /\ \A k \in 1 .. Len(toGateway) : toGateway[k].session <= sessionId
        /\ gateway.phase \in {"reporting", "connected"} => gateway.session = sessionId
    BY DEF Inv, OneSession
  <2>2. \A i \in 1 .. Len(toServer') :
          toServer'[i].kind = "status" => toServer'[i].session = sessionId
    BY <1>e, <2>1
  <2>3. ASSUME NEW k \in 1 .. Len(toGateway') PROVE toGateway'[k].session <= sessionId
    <3>1. f[k] \in 1 .. Len(toGateway) /\ toGateway'[k] = toGateway[f[k]]
      BY <1>e
    <3>2. toGateway[f[k]].session <= sessionId
      BY <2>1, <3>1
    <3> QED
      BY <3>1, <3>2, Zenon
  <2> QED
    BY <2>1, <2>2, <2>3
<1>5. CommandsNumbered'
  <2> SUFFICES ASSUME NEW k \in 1 .. Len(toGateway'), toGateway'[k].kind = "command"
      PROVE  /\ toGateway'[k].session = gateway.session => gateway.commands <= toGateway'[k].messageCounter
             /\ \A j \in 1 .. k - 1 :
                  toGateway'[j].kind = "command" /\ toGateway'[j].session = toGateway'[k].session
                    => toGateway'[j].messageCounter < toGateway'[k].messageCounter
    BY DEF CommandsNumbered, globals
  <2> DEFINE b == f[k]
  <2>1. b \in 1 .. Len(toGateway) /\ toGateway'[k] = toGateway[b]
    BY <1>e
  <2>2. /\ toGateway[b].session = gateway.session => gateway.commands <= toGateway[b].messageCounter
        /\ \A j \in 1 .. b - 1 :
             toGateway[j].kind = "command" /\ toGateway[j].session = toGateway[b].session
               => toGateway[j].messageCounter < toGateway[b].messageCounter
    BY <2>1 DEF Inv, CommandsNumbered
  <2>3. \A j \in 1 .. k - 1 : j \in 1 .. Len(toGateway') /\ f[j] \in 1 .. b - 1
    <3> SUFFICES ASSUME NEW j \in 1 .. k - 1 PROVE j \in 1 .. Len(toGateway') /\ f[j] \in 1 .. b - 1
      OBVIOUS
    <3>1. j \in 1 .. Len(toGateway') /\ j < k
      BY <1>0
    <3>2. f[j] < b
      BY <3>1
    <3>3. f[j] \in 1 .. Len(toGateway)
      BY <1>e, <3>1
    <3> HIDE DEF b
    <3> QED
      BY <1>0, <2>1, <3>1, <3>2, <3>3
  <2> HIDE DEF b
  <2>4. ASSUME NEW j \in 1 .. k - 1
        PROVE  toGateway'[j].kind = "command" /\ toGateway'[j].session = toGateway'[k].session
                 => toGateway'[j].messageCounter < toGateway'[k].messageCounter
    <3> DEFINE g == f[j]
    <3>1. g \in 1 .. b - 1 /\ toGateway'[j] = toGateway[g]
      BY <1>e, <2>3
    <3> HIDE DEF g
    <3> QED
      BY <2>1, <2>2, <3>1, Zenon
  <2>5. toGateway'[k].session = gateway.session => gateway.commands <= toGateway'[k].messageCounter
    BY <2>1, <2>2, Zenon
  <2> QED
    BY <2>4, <2>5
<1>6. CommandsKnown'
  BY DEF Inv, CommandsKnown, globals
<1> QED
  BY <1>1, <1>2, <1>3, <1>4, <1>5, <1>6 DEF Inv

LEMMA EndsInv == ASSUME Inv, Ends, UNCHANGED gateway PROVE Inv'
<1>1. /\ up' = FALSE /\ connection_status' = 0 /\ sessionId' = 0 /\ command_message_counter' = 0
      /\ handled' = <<>> /\ toServer' = <<>> /\ toGateway' = toGateway
  BY DEF Ends, FreshGlobals, NoSession
<1>2. Len(toServer') = 0 /\ 1 .. Len(toServer') = {} /\ Len(handled') = 0 /\ 1 .. Len(handled') = {}
      /\ toServer' \in Seq(ToServer) /\ handled' \in Seq(Statuses)
  BY <1>1, EmptySeq
<1>3. Types'
  <2>0. up' \in BOOLEAN
    BY <1>1, Zenon
  <2>1. connection_status' \in 0 .. 2 /\ sessionId' \in Nat /\ command_message_counter' \in Nat
    BY <1>1
  <2>2. /\ gateway' \in [phase : Phase, session : Nat, sent : Nat, answered : Nat, commands : Nat]
        /\ toGateway' \in Seq(ToGateway)
    BY <1>1, Zenon DEF Inv, Types
  <2> QED
    BY <1>2, <2>0, <2>1, <2>2, Zenon DEF Types
<1>7. Begun'
  <2>1. gateway.session \in Nat
    BY DEF Inv, Types
  <2> QED
    BY <1>1, <1>2, <2>1 DEF Inv, Begun
<1>4. GlobalsAgree' /\ ConnectIsNews' /\ OneSession'
  BY <1>1, <1>2 DEF GlobalsAgree, ConnectIsNews, OneSession
<1>5. CommandsNumbered'
  BY <1>1 DEF Inv, CommandsNumbered
<1>6. CommandsKnown'
  <2>1. \A k \in 1 .. Len(toGateway) : toGateway[k].session # 0
    BY DEF Inv, Begun, Types
  <2> QED
    BY <1>1, <2>1 DEF CommandsKnown
<1> QED
  BY <1>3, <1>4, <1>5, <1>6, <1>7 DEF Inv

\* What handle_connect does: the first message is a connect, and the only
\* messages behind it are newer ones.
LEMMA ConnectEffect ==
  ASSUME Inv, handle_connect
  PROVE  LET s == message.session
             r == create_connect_response(s)
             n == Len(toGateway)
         IN  /\ /\ up /\ toServer # <<>> /\ toServer' = Tail(toServer) /\ connection_status = 0
                /\ message.kind = "connect" /\ sessionId' = s /\ connection_status' = 1
                /\ toGateway' = toGateway \o <<r>>
                /\ UNCHANGED <<up, command_message_counter, handled, gateway>>
             /\ /\ toServer' \in Seq(ToServer)
                /\ \A i \in 1 .. Len(toServer') : toServer'[i] = toServer[i + 1] /\ i + 1 \in 1 .. Len(toServer)
                /\ 1 \in 1 .. Len(toServer) /\ message = toServer[1]
             /\ /\ s \in Nat /\ s >= 1 /\ s <= gateway.session /\ gateway.session \in Nat
                /\ gateway.phase \in {"idle", "connecting"}
                /\ gateway.session = s => gateway.commands = 0
                /\ \A i \in 1 .. Len(toServer') : toServer'[i].kind = "connect" /\ s < toServer'[i].session
                /\ \A k \in 1 .. n : toGateway[k].session < s
             /\ r = [kind |-> "connectResponse", session |-> s] /\ r \in ToGateway
             /\ /\ n \in Nat /\ toGateway' \in Seq(ToGateway) /\ Len(toGateway') = n + 1
                /\ \A k \in 1 .. n : toGateway'[k] = toGateway[k]
                /\ toGateway'[n + 1] = r
                /\ \A k \in 1 .. n + 1 : k \in 1 .. n \/ k = n + 1
             /\ handled = <<>> /\ Len(handled) = 0 /\ 1 .. Len(handled) = {} /\ command_message_counter = 0
<1> DEFINE s == message.session
           r == create_connect_response(s)
           n == Len(toGateway)
<1>1. /\ up /\ toServer # <<>> /\ toServer' = Tail(toServer) /\ connection_status = 0
      /\ message.kind = "connect" /\ sessionId' = s /\ connection_status' = 1
      /\ toGateway' = toGateway \o <<r>>
      /\ UNCHANGED <<up, command_message_counter, handled, gateway>>
  BY DEF handle_connect, Receives, publish, process
<1>2. /\ toServer' \in Seq(ToServer)
      /\ \A i \in 1 .. Len(toServer') : toServer'[i] = toServer[i + 1] /\ i + 1 \in 1 .. Len(toServer)
      /\ 1 \in 1 .. Len(toServer) /\ message = toServer[1]
  BY <1>1, TailThins DEF Inv, Types, message
<1>3. /\ s \in Nat /\ s >= 1 /\ s <= gateway.session /\ gateway.session \in Nat
      /\ gateway.phase \in {"idle", "connecting"}
      /\ gateway.session = s => gateway.commands = 0
      /\ \A i \in 1 .. Len(toServer') : toServer'[i].kind = "connect" /\ s < toServer'[i].session
      /\ \A k \in 1 .. n : toGateway[k].session < s
  BY <1>1, <1>2 DEF Inv, ConnectIsNews, Begun, Types
<1>4. r = [kind |-> "connectResponse", session |-> s] /\ r \in ToGateway
  BY <1>3 DEF create_connect_response, ToGateway, Responses
<1> HIDE DEF r, s
<1>5. /\ n \in Nat /\ toGateway' \in Seq(ToGateway) /\ Len(toGateway') = n + 1
      /\ \A k \in 1 .. n : toGateway'[k] = toGateway[k]
      /\ toGateway'[n + 1] = r
  <2>1. toGateway \in Seq(ToGateway) /\ <<r>> \in Seq(ToGateway) /\ Len(<<r>>) = 1 /\ <<r>>[1] = r
    BY <1>4 DEF Inv, Types
  <2>2. n \in Nat
    BY <2>1, LenProperties
  <2> QED
    BY <1>1, <2>1, <2>2, ConcatProperties
<1>6. \A k \in 1 .. n + 1 : k \in 1 .. n \/ k = n + 1
  BY <1>5
<1> HIDE DEF n
<1>7. handled = <<>> /\ Len(handled) = 0 /\ 1 .. Len(handled) = {} /\ command_message_counter = 0
  <2>1. Len(handled) = 0
    BY <1>1 DEF Inv, GlobalsAgree
  <2> QED
    BY <2>1, EmptySeq DEF Inv, Types, GlobalsAgree
<1> USE DEF r, s, n
<1> QED
  BY <1>1, <1>2, <1>3, <1>4, <1>5, <1>6, <1>7

LEMMA ConnectInv == ASSUME Inv, handle_connect PROVE Inv'
<1> DEFINE s == message.session
           r == create_connect_response(s)
           n == Len(toGateway)
<1>1. /\ up /\ toServer # <<>> /\ toServer' = Tail(toServer) /\ connection_status = 0
      /\ message.kind = "connect" /\ sessionId' = s /\ connection_status' = 1
      /\ UNCHANGED <<up, command_message_counter, handled, gateway>>
  BY ConnectEffect
<1>2. /\ toServer' \in Seq(ToServer)
      /\ \A i \in 1 .. Len(toServer') : toServer'[i] = toServer[i + 1] /\ i + 1 \in 1 .. Len(toServer)
      /\ 1 \in 1 .. Len(toServer) /\ message = toServer[1]
  BY ConnectEffect
<1>3. /\ s \in Nat /\ s >= 1 /\ s <= gateway.session /\ gateway.session \in Nat
      /\ gateway.phase \in {"idle", "connecting"}
      /\ gateway.session = s => gateway.commands = 0
      /\ \A i \in 1 .. Len(toServer') : toServer'[i].kind = "connect" /\ s < toServer'[i].session
      /\ \A k \in 1 .. n : toGateway[k].session < s
  BY ConnectEffect
<1>4. r = [kind |-> "connectResponse", session |-> s] /\ r \in ToGateway
  BY ConnectEffect
<1>5. /\ n \in Nat /\ toGateway' \in Seq(ToGateway) /\ Len(toGateway') = n + 1
      /\ \A k \in 1 .. n : toGateway'[k] = toGateway[k]
      /\ toGateway'[n + 1] = r
  BY ConnectEffect
<1>6. \A k \in 1 .. n + 1 : k \in 1 .. n \/ k = n + 1
  BY ConnectEffect
<1>7. handled = <<>> /\ Len(handled) = 0 /\ 1 .. Len(handled) = {} /\ command_message_counter = 0
  BY ConnectEffect
<1> HIDE DEF r, s, n
<1>8. Types'
  BY <1>1, <1>2, <1>3, <1>5 DEF Inv, Types
<1>9. Begun'
  <2>1. \A k \in 1 .. Len(toGateway') : toGateway'[k].session \in 1 .. gateway.session
    BY <1>3, <1>4, <1>5, <1>6 DEF Inv, Begun, n
  <2>2. \A i \in 1 .. Len(toServer') : toServer'[i].session \in 1 .. gateway.session
    BY <1>2 DEF Inv, Begun
  <2> QED
    BY <1>1, <1>3, <2>1, <2>2 DEF Inv, Begun
<1>10. GlobalsAgree'
  BY <1>1, <1>3, <1>7 DEF GlobalsAgree
<1>11. ConnectIsNews'
  <2> SUFFICES ASSUME NEW i \in 1 .. Len(toServer')
      PROVE  /\ gateway.phase \in {"idle", "connecting"}
             /\ s < toServer'[i].session
             /\ gateway.session = toServer'[i].session => gateway.commands = 0
             /\ \A j \in 1 .. Len(toServer') :
                  i < j => toServer'[j].kind = "connect" /\ toServer'[i].session < toServer'[j].session
             /\ \A k \in 1 .. Len(toGateway') : toGateway'[k].session < toServer'[i].session
    BY <1>1 DEF ConnectIsNews
  <2>1. /\ gateway.session = toServer'[i].session => gateway.commands = 0
        /\ \A j \in 1 .. Len(toServer') :
             i < j => toServer'[j].kind = "connect" /\ toServer'[i].session < toServer'[j].session
        /\ \A k \in 1 .. n : toGateway[k].session < toServer'[i].session
    <3>1. i + 1 \in 1 .. Len(toServer) /\ toServer[i + 1].kind = "connect"
          /\ toServer'[i] = toServer[i + 1]
      BY <1>2, <1>3
    <3>2. \A j \in 1 .. Len(toServer') : i < j => i + 1 < j + 1
      OBVIOUS
    <3> QED
      BY <1>2, <3>1, <3>2 DEF Inv, ConnectIsNews, n
  <2>2. \A k \in 1 .. Len(toGateway') : toGateway'[k].session < toServer'[i].session
    BY <1>3, <1>4, <1>5, <1>6, <2>1
  <2> QED
    BY <1>3, <2>1, <2>2
<1>12. OneSession'
  <2>1. \A k \in 1 .. Len(toGateway') : toGateway'[k].session <= s
    <3>1. \A k \in 1 .. n : toGateway[k].session \in Nat
      BY DEF Inv, Begun, Types, n
    <3> QED
      BY <1>3, <1>4, <1>5, <1>6, <3>1
  <2> QED
    BY <1>1, <1>3, <1>7, <2>1 DEF OneSession
<1>13. CommandsNumbered'
  <2>1. \A k \in 1 .. Len(toGateway') : toGateway'[k].kind = "command" =>
          k \in 1 .. n /\ toGateway'[k] = toGateway[k]
            /\ \A j \in 1 .. k - 1 : toGateway'[j] = toGateway[j]
    BY <1>4, <1>5, <1>6
  <2> QED
    BY <1>1, <2>1 DEF Inv, CommandsNumbered, n
<1>14. CommandsKnown'
  <2>1. \A k \in 1 .. Len(toGateway') :
          ~(toGateway'[k].kind = "command" /\ toGateway'[k].session = s)
    BY <1>3, <1>4, <1>5, <1>6
  <2>2. gateway.session = s => gateway.commands <= command_message_counter
    BY <1>3, <1>7
  <2> QED
    BY <1>1, <2>1, <2>2 DEF CommandsKnown
<1> QED
  BY <1>8, <1>9, <1>10, <1>11, <1>12, <1>13, <1>14 DEF Inv

\* What handle_status and send_command do.
LEMMA StatusEffect ==
  ASSUME Inv, Receives, connection_status # 0, message.kind = "status",
         NEW json \in Json, HandleStatus(message, json)
  PROVE  LET r == status_response(message)
             c == command_for(message.device, json)
             n == Len(toGateway)
             h == Len(handled)
         IN  /\ /\ up /\ UNCHANGED <<up, sessionId, gateway>>
                /\ command_message_counter' = command_message_counter + 1
             /\ /\ toServer' \in Seq(ToServer) /\ Len(toServer') = Len(toServer) - 1
                /\ \A i \in 1 .. Len(toServer') : toServer'[i] = toServer[i + 1] /\ i + 1 \in 1 .. Len(toServer)
                /\ 1 \in 1 .. Len(toServer) /\ message = toServer[1]
             /\ /\ message \in Statuses /\ message.session = sessionId /\ message.device \in Device
                /\ message.messageCounter \in Nat
             /\ /\ sessionId \in Nat /\ sessionId >= 1 /\ sessionId <= gateway.session
                /\ command_message_counter = h /\ h \in Nat /\ gateway.session \in Nat
             /\ /\ r = [kind |-> "statusResponse", session |-> sessionId,
                        messageCounter |-> message.messageCounter]
                /\ c = [kind |-> "command", session |-> sessionId, messageCounter |-> h,
                        device |-> message.device, data |-> json]
                /\ r \in ToGateway /\ c \in ToGateway
             /\ /\ n \in Nat /\ toGateway' \in Seq(ToGateway) /\ Len(toGateway') = n + 2
                /\ \A k \in 1 .. n : toGateway'[k] = toGateway[k]
                /\ toGateway'[n + 1] = r /\ toGateway'[n + 2] = c
                /\ \A k \in 1 .. n + 2 : k \in 1 .. n \/ k = n + 1 \/ k = n + 2
             /\ /\ handled' \in Seq(Statuses) /\ Len(handled') = h + 1
                /\ \A i \in 1 .. h : handled'[i] = handled[i]
                /\ handled'[h + 1] = message
<1> DEFINE m == message
           r == status_response(m)
           c == command_for(m.device, json)
           n == Len(toGateway)
           h == Len(handled)
<1>1. /\ up /\ toServer # <<>> /\ toServer' = Tail(toServer)
      /\ toGateway' = toGateway \o <<r, c>>
      /\ command_message_counter' = command_message_counter + 1
      /\ handled' = Append(handled, m)
      /\ UNCHANGED <<up, sessionId, gateway>>
  BY DEF Receives, HandleStatus, Handles, publish, process
<1>2. /\ toServer' \in Seq(ToServer)
      /\ Len(toServer') = Len(toServer) - 1
      /\ \A i \in 1 .. Len(toServer') : toServer'[i] = toServer[i + 1] /\ i + 1 \in 1 .. Len(toServer)
      /\ 1 \in 1 .. Len(toServer) /\ m = toServer[1]
  BY <1>1, TailThins DEF Inv, Types, message
<1>3. m \in Statuses /\ m.session = sessionId /\ m.device \in Device /\ m.messageCounter \in Nat
  <2>1. m \in ToServer
    BY <1>2, ElementOfSeq DEF Inv, Types
  <2>2. m \in Statuses
    BY <2>1 DEF ToServer
  <2> QED
    BY <1>2, <2>2 DEF Inv, OneSession, Statuses
<1>4. /\ sessionId \in Nat /\ sessionId >= 1 /\ sessionId <= gateway.session
      /\ command_message_counter = h /\ h \in Nat /\ gateway.session \in Nat
  <2>1. h \in Nat
    BY LenProperties DEF Inv, Types
  <2> QED
    BY <2>1 DEF Inv, Types, GlobalsAgree, Begun
<1>5. /\ r = [kind |-> "statusResponse", session |-> sessionId, messageCounter |-> m.messageCounter]
      /\ c = [kind |-> "command", session |-> sessionId, messageCounter |-> h,
              device |-> m.device, data |-> json]
      /\ r \in ToGateway /\ c \in ToGateway
  BY <1>3, <1>4 DEF status_response, create_status_response, command_for, create_external_command,
                    ToGateway, Responses, Commands
<1> HIDE DEF m, r, c
<1>6. /\ n \in Nat /\ toGateway' \in Seq(ToGateway) /\ Len(toGateway') = n + 2
      /\ \A k \in 1 .. n : toGateway'[k] = toGateway[k]
      /\ toGateway'[n + 1] = r /\ toGateway'[n + 2] = c
  <2>1. /\ toGateway \in Seq(ToGateway) /\ <<r, c>> \in Seq(ToGateway)
        /\ Len(<<r, c>>) = 2 /\ <<r, c>>[1] = r /\ <<r, c>>[2] = c
    BY <1>5 DEF Inv, Types
  <2>2. n \in Nat
    BY <2>1, LenProperties
  <2> QED
    BY <1>1, <2>1, <2>2, ConcatProperties
<1>7. \A k \in 1 .. n + 2 : k \in 1 .. n \/ k = n + 1 \/ k = n + 2
  BY <1>6
<1>8. /\ handled' \in Seq(Statuses) /\ Len(handled') = h + 1
      /\ \A i \in 1 .. h : handled'[i] = handled[i]
      /\ handled'[h + 1] = m
  BY <1>1, <1>3, AppendProperties DEF Inv, Types
<1> USE DEF m, r, c
<1> QED
  BY <1>1, <1>2, <1>3, <1>4, <1>5, <1>6, <1>7, <1>8

LEMMA StatusInv ==
  ASSUME Inv, Receives, connection_status # 0, connection_status' \in 1 .. 2,
         message.kind = "status", NEW json \in Json, HandleStatus(message, json)
  PROVE  Inv'
<1> DEFINE m == message
           r == status_response(m)
           c == command_for(m.device, json)
           n == Len(toGateway)
           h == Len(handled)
<1>1. up /\ command_message_counter' = command_message_counter + 1 /\ UNCHANGED <<up, sessionId, gateway>>
  BY StatusEffect
<1>2. /\ toServer' \in Seq(ToServer)
      /\ \A i \in 1 .. Len(toServer') : toServer'[i] = toServer[i + 1] /\ i + 1 \in 1 .. Len(toServer)
      /\ 1 \in 1 .. Len(toServer) /\ m = toServer[1]
  BY StatusEffect
<1>3. m \in Statuses /\ m.session = sessionId /\ m.device \in Device /\ m.messageCounter \in Nat
  BY StatusEffect
<1>4. /\ sessionId \in Nat /\ sessionId >= 1 /\ sessionId <= gateway.session
      /\ command_message_counter = h /\ h \in Nat /\ gateway.session \in Nat
  BY StatusEffect
<1>5. /\ r = [kind |-> "statusResponse", session |-> sessionId, messageCounter |-> m.messageCounter]
      /\ c = [kind |-> "command", session |-> sessionId, messageCounter |-> h,
              device |-> m.device, data |-> json]
      /\ r \in ToGateway /\ c \in ToGateway
  BY StatusEffect
<1>6. /\ n \in Nat /\ toGateway' \in Seq(ToGateway) /\ Len(toGateway') = n + 2
      /\ \A k \in 1 .. n : toGateway'[k] = toGateway[k]
      /\ toGateway'[n + 1] = r /\ toGateway'[n + 2] = c
  BY StatusEffect
<1>7. \A k \in 1 .. n + 2 : k \in 1 .. n \/ k = n + 1 \/ k = n + 2
  BY StatusEffect
<1>8. /\ handled' \in Seq(Statuses) /\ Len(handled') = h + 1
      /\ \A i \in 1 .. h : handled'[i] = handled[i]
      /\ handled'[h + 1] = m
  BY StatusEffect
<1> HIDE DEF m, r, c
<1> HIDE DEF n, h
<1>9. \A k \in 1 .. n : toGateway[k].session \in Nat /\ toGateway[k].session <= sessionId
                        /\ toGateway[k].session >= 1 /\ toGateway[k].session <= gateway.session
  BY <1>4 DEF Inv, Begun, OneSession, n
<1>10. Types'
  BY <1>1, <1>2, <1>4, <1>6, <1>8 DEF Inv, Types
<1>11. Begun'
  <2>1. \A k \in 1 .. n : toGateway'[k].session \in 1 .. gateway.session
    BY <1>4, <1>6, <1>9
  <2>2. r.session \in 1 .. gateway.session /\ c.session \in 1 .. gateway.session
    BY <1>4, <1>5
  <2>3. \A k \in 1 .. n + 2 : toGateway'[k].session \in 1 .. gateway.session
    BY <1>6, <1>7, <2>1, <2>2
  <2> QED
    BY <1>1, <1>2, <1>6, <2>3 DEF Inv, Begun
<1>12. GlobalsAgree'
  BY <1>1, <1>4, <1>8 DEF GlobalsAgree
<1>13. ConnectIsNews'
  <2> SUFFICES ASSUME NEW i \in 1 .. Len(toServer'), toServer'[i].kind = "connect"
      PROVE  /\ gateway.phase \in {"idle", "connecting"}
             /\ sessionId < toServer'[i].session
             /\ gateway.session = toServer'[i].session => gateway.commands = 0
             /\ \A j \in 1 .. Len(toServer') :
                  i < j => toServer'[j].kind = "connect" /\ toServer'[i].session < toServer'[j].session
             /\ \A k \in 1 .. Len(toGateway') : toGateway'[k].session < toServer'[i].session
    BY <1>1 DEF ConnectIsNews
  <2>1. /\ gateway.phase \in {"idle", "connecting"}
        /\ sessionId < toServer'[i].session
        /\ gateway.session = toServer'[i].session => gateway.commands = 0
        /\ \A j \in 1 .. Len(toServer') :
             i < j => toServer'[j].kind = "connect" /\ toServer'[i].session < toServer'[j].session
        /\ \A k \in 1 .. n : toGateway[k].session < toServer'[i].session
    <3>1. i + 1 \in 1 .. Len(toServer) /\ toServer[i + 1].kind = "connect"
          /\ toServer'[i] = toServer[i + 1]
      BY <1>2
    <3>2. \A j \in 1 .. Len(toServer') : i < j => i + 1 < j + 1
      OBVIOUS
    <3> QED
      <4>1. /\ gateway.phase \in {"idle", "connecting"}
            /\ sessionId < toServer[i + 1].session
            /\ gateway.session = toServer[i + 1].session => gateway.commands = 0
            /\ \A j \in 1 .. Len(toServer) :
                 i + 1 < j => toServer[j].kind = "connect" /\ toServer[i + 1].session < toServer[j].session
            /\ \A k \in 1 .. n : toGateway[k].session < toServer[i + 1].session
        BY <3>1 DEF Inv, ConnectIsNews, n
      <4>2. \A j \in 1 .. Len(toServer') :
              i < j => toServer'[j].kind = "connect" /\ toServer'[i].session < toServer'[j].session
        BY <1>2, <3>1, <3>2, <4>1
      <4> QED
        BY <3>1, <4>1, <4>2
  <2>2. \A k \in 1 .. Len(toGateway') : toGateway'[k].session < toServer'[i].session
    BY <1>5, <1>6, <1>7, <2>1
  <2> QED
    BY <2>1, <2>2
<1>14. OneSession'
  <2>1. \A k \in 1 .. Len(toGateway') : toGateway'[k].session <= sessionId
    <3>1. r.session = sessionId /\ c.session = sessionId
      BY <1>5
    <3> QED
      BY <1>4, <1>6, <1>7, <1>9, <3>1
  <2>2. \A i \in 1 .. h + 1 : handled'[i].session = sessionId
    <3>1. \A i \in 1 .. h + 1 : i \in 1 .. h \/ i = h + 1
      BY <1>4
    <3> QED
      BY <1>3, <1>8, <3>1 DEF Inv, OneSession, h
  <2> QED
    BY <1>1, <1>2, <1>8, <2>1, <2>2 DEF Inv, OneSession
<1>15. \A k \in 1 .. n : toGateway[k].kind = "command" /\ toGateway[k].session = sessionId =>
         /\ toGateway[k].messageCounter \in Nat /\ toGateway[k].messageCounter < h
         /\ handled[toGateway[k].messageCounter + 1].device = toGateway[k].device
  <2> TAKE k \in 1 .. n
  <2>1. toGateway[k] \in ToGateway
    BY ElementOfSeq DEF Inv, Types, n
  <2>2. toGateway[k].kind = "command" => toGateway[k].messageCounter \in Nat
    BY <2>1 DEF ToGateway, Responses, Commands
  <2> QED
    BY <2>2 DEF Inv, CommandsKnown, n, h
<1>16. CommandsNumbered'
  <2> SUFFICES ASSUME NEW k \in 1 .. n + 2, toGateway'[k].kind = "command"
      PROVE  /\ toGateway'[k].session = gateway.session => gateway.commands <= toGateway'[k].messageCounter
             /\ \A j \in 1 .. k - 1 :
                  toGateway'[j].kind = "command" /\ toGateway'[j].session = toGateway'[k].session
                    => toGateway'[j].messageCounter < toGateway'[k].messageCounter
    BY <1>1, <1>6 DEF CommandsNumbered
  <2>1. CASE k \in 1 .. n
    <3>1. \A j \in 1 .. k - 1 : j \in 1 .. n
      BY <1>6, <2>1
    <3> QED
      BY <1>6, <2>1, <3>1 DEF Inv, CommandsNumbered, n
  <2>2. CASE k = n + 2
    <3>1. toGateway'[k].messageCounter = h /\ toGateway'[k].session = sessionId
      BY <1>5, <1>6, <2>2
    <3>2. \A j \in 1 .. k - 1 : j \in 1 .. n \/ j = n + 1
      BY <1>6, <2>2
    <3>3. toGateway'[n + 1].kind # "command"
      BY <1>5, <1>6
    <3>4. gateway.session = sessionId => gateway.commands <= h
      BY <1>4 DEF Inv, CommandsKnown
    <3> QED
      BY <1>6, <1>15, <3>1, <3>2, <3>3, <3>4
  <2>3. k # n + 1
    BY <1>5, <1>6
  <2> QED
    BY <1>7, <2>1, <2>2, <2>3
<1>17. CommandsKnown'
  <2>1. ASSUME NEW k \in 1 .. n + 2, toGateway'[k].kind = "command", toGateway'[k].session = sessionId
        PROVE  /\ toGateway'[k].messageCounter < h + 1
               /\ handled'[toGateway'[k].messageCounter + 1].device = toGateway'[k].device
    <3>1. CASE k \in 1 .. n
      <4>1. toGateway[k].messageCounter \in Nat /\ toGateway[k].messageCounter < h
        BY <1>6, <1>15, <2>1, <3>1
      <4>2. toGateway[k].messageCounter + 1 \in 1 .. h
        BY <1>4, <4>1
      <4> QED
        BY <1>4, <1>6, <1>8, <1>15, <2>1, <3>1, <4>1, <4>2
    <3>2. CASE k = n + 2
      BY <1>4, <1>5, <1>6, <1>8, <3>2
    <3>3. k # n + 1
      BY <1>5, <1>6, <2>1
    <3> QED
      BY <1>7, <3>1, <3>2, <3>3
  <2>2. gateway.session = sessionId => gateway.commands <= h + 1
    <3>1. gateway.commands \in Nat
      BY DEF Inv, Types
    <3> QED
      BY <1>4, <3>1 DEF Inv, CommandsKnown
  <2> QED
    BY <1>1, <1>4, <1>6, <1>8, <2>1, <2>2 DEF CommandsKnown
<1> QED
  BY <1>10, <1>11, <1>12, <1>13, <1>14, <1>16, <1>17 DEF Inv

\* What Sends does to toServer.
LEMMA SendsAppends ==
  ASSUME toServer \in Seq(ToServer), NEW m \in ToServer, Sends(m)
  PROVE  \/ toServer' = toServer
         \/ /\ up /\ toServer' \in Seq(ToServer) /\ Len(toServer) \in Nat
            /\ Len(toServer') = Len(toServer) + 1
            /\ \A i \in 1 .. Len(toServer) : toServer'[i] = toServer[i]
            /\ toServer'[Len(toServer) + 1] = m
            /\ \A i \in 1 .. Len(toServer') : i \in 1 .. Len(toServer) \/ i = Len(toServer) + 1
<1>1. Len(toServer) \in Nat
  BY LenProperties
<1> QED
  BY <1>1, AppendProperties DEF Sends

LEMMA GatewayConnectsInv == ASSUME Inv, GatewayConnects PROVE Inv'
<1> DEFINE s == gateway.session + 1
           n == Len(toServer)
<1>1. /\ gateway' = [phase |-> "connecting", session |-> s, sent |-> 0, answered |-> 0, commands |-> 0]
      /\ Sends(Connect(s)) /\ gateway.phase = "idle"
      /\ UNCHANGED <<up, globals, toGateway>>
  BY DEF GatewayConnects, process
<1>2. Connect(s) = [kind |-> "connect", session |-> s] /\ Connect(s) \in ToServer /\ s \in Nat
      /\ gateway.session \in Nat
  BY DEF Inv, Types, Connect, ToServer
<1>3. \/ toServer' = toServer
      \/ /\ up /\ toServer' \in Seq(ToServer) /\ n \in Nat
         /\ Len(toServer') = n + 1
         /\ \A i \in 1 .. n : toServer'[i] = toServer[i]
         /\ toServer'[n + 1] = Connect(s)
         /\ \A i \in 1 .. Len(toServer') : i \in 1 .. n \/ i = n + 1
  BY <1>1, <1>2, SendsAppends DEF Inv, Types
<1>4. \A i \in 1 .. Len(toServer') : toServer'[i].session \in 1 .. s
        /\ ((i \in 1 .. n /\ toServer'[i] = toServer[i] /\ toServer'[i].session < s)
            \/ (i = n + 1 /\ n \in Nat /\ toServer'[i] = Connect(s)))
  BY <1>2, <1>3 DEF Inv, Begun
<1>5. \A k \in 1 .. Len(toGateway) : toGateway[k].session \in 1 .. s /\ toGateway[k].session < s
  BY <1>2 DEF Inv, Begun
<1>6. gateway'.session = s /\ gateway'.phase = "connecting" /\ gateway'.commands = 0
  BY <1>1
<1>7. Types'
  BY <1>1, <1>2, <1>3 DEF Inv, Types, globals, Phase
<1>8. Begun'
  BY <1>1, <1>2, <1>4, <1>5, <1>6 DEF Inv, Begun, globals
<1>9. GlobalsAgree'
  BY <1>1, <1>3 DEF Inv, GlobalsAgree, globals
<1> HIDE DEF s, n
<1>10. sessionId < s /\ sessionId \in Nat
  BY <1>2 DEF Inv, Begun, Types, s
<1>11. ConnectIsNews'
  <2> SUFFICES ASSUME NEW i \in 1 .. Len(toServer'), toServer'[i].kind = "connect"
      PROVE  /\ sessionId < toServer'[i].session
             /\ \A j \in 1 .. Len(toServer') :
                  i < j => toServer'[j].kind = "connect" /\ toServer'[i].session < toServer'[j].session
             /\ \A k \in 1 .. Len(toGateway) : toGateway[k].session < toServer'[i].session
    BY <1>1, <1>6 DEF ConnectIsNews, globals
  <2>1. CASE i \in 1 .. n /\ toServer'[i] = toServer[i] /\ toServer'[i].session < s
    BY <1>2, <1>4, <2>1 DEF Inv, ConnectIsNews, n
  <2>2. CASE i = n + 1 /\ n \in Nat /\ toServer'[i] = Connect(s)
    <3>1. \A j \in 1 .. Len(toServer') : ~(i < j)
      BY <1>4, <2>2
    <3> QED
      BY <1>2, <1>5, <1>10, <2>2, <3>1
  <2> QED
    BY <1>4, <2>1, <2>2
<1>12. OneSession'
  <2>1. \A i \in 1 .. Len(toServer') : toServer'[i].kind = "status" =>
          i \in 1 .. n /\ toServer'[i] = toServer[i]
    BY <1>2, <1>4
  <2> QED
    BY <1>1, <1>6, <2>1 DEF Inv, OneSession, globals, n
<1>13. CommandsNumbered'
  BY <1>1, <1>5, <1>6 DEF Inv, CommandsNumbered
<1>14. CommandsKnown'
  BY <1>1, <1>6, <1>10 DEF Inv, CommandsKnown, globals
<1> QED
  BY <1>7, <1>8, <1>9, <1>11, <1>12, <1>13, <1>14 DEF Inv

LEMMA GatewayReportsInv ==
  ASSUME Inv, NEW d \in Device, NEW readable \in BOOLEAN, GatewayReports(d, readable)
  PROVE  Inv'
<1> DEFINE m == Status(gateway.session, gateway.sent, d, readable)
           n == Len(toServer)
<1>1. /\ gateway.phase \in {"reporting", "connected"}
      /\ gateway' = [gateway EXCEPT !.sent = @ + 1] /\ Sends(m)
      /\ UNCHANGED <<up, globals, toGateway>>
  BY DEF GatewayReports, process
<1>2. /\ m.kind = "status" /\ m.session = gateway.session /\ m \in ToServer
      /\ gateway.session \in Nat /\ gateway.session >= 1
  BY <1>1 DEF Inv, Types, Begun, Status, ToServer, Statuses
<1> HIDE DEF m
<1>3. \/ toServer' = toServer
      \/ /\ up /\ toServer' \in Seq(ToServer) /\ n \in Nat
         /\ Len(toServer') = n + 1
         /\ \A i \in 1 .. n : toServer'[i] = toServer[i]
         /\ toServer'[n + 1] = m
         /\ \A i \in 1 .. Len(toServer') : i \in 1 .. n \/ i = n + 1
  BY <1>1, <1>2, SendsAppends DEF Inv, Types
<1>4. \A i \in 1 .. Len(toServer') : (i \in 1 .. n /\ toServer'[i] = toServer[i]) \/ toServer'[i] = m
  BY <1>3
<1>5. /\ gateway'.session = gateway.session /\ gateway'.phase = gateway.phase
      /\ gateway'.commands = gateway.commands
      /\ gateway' \in [phase : Phase, session : Nat, sent : Nat, answered : Nat, commands : Nat]
  BY <1>1 DEF Inv, Types
<1>6. \A i \in 1 .. Len(toServer') : toServer'[i].kind # "connect"
  BY <1>1, <1>2, <1>4 DEF Inv, ConnectIsNews
<1> HIDE DEF n
<1>7. Types'
  BY <1>1, <1>3, <1>5 DEF Inv, Types, globals
<1>8. Begun'
  BY <1>1, <1>2, <1>4, <1>5 DEF Inv, Begun, globals, n
<1>9. GlobalsAgree'
  BY <1>1, <1>3 DEF Inv, GlobalsAgree, globals
<1>10. ConnectIsNews'
  BY <1>6 DEF ConnectIsNews
<1>11. OneSession'
  BY <1>1, <1>2, <1>4, <1>5 DEF Inv, OneSession, globals, n
<1>12. CommandsNumbered' /\ CommandsKnown'
  BY <1>1, <1>5 DEF Inv, CommandsNumbered, CommandsKnown, globals
<1> QED
  BY <1>7, <1>8, <1>9, <1>10, <1>11, <1>12 DEF Inv

LEMMA GatewayReceivesInv == ASSUME Inv, GatewayReceives PROVE Inv'
<1> DEFINE m == Head(toGateway)
<1>1. /\ toGateway # <<>> /\ toGateway' = Tail(toGateway)
      /\ UNCHANGED <<up, globals, toServer>>
      /\ gateway' = gateway \/ (m.session = gateway.session /\ gateway.phase # "idle" /\ gateway' = Learns(m))
  BY DEF GatewayReceives, process
<1>2. /\ toGateway' \in Seq(ToGateway) /\ Thins(toGateway', toGateway)
      /\ \A k \in 1 .. Len(toGateway') : toGateway'[k] = toGateway[k + 1] /\ k + 1 \in 1 .. Len(toGateway)
      /\ 1 \in 1 .. Len(toGateway) /\ m = toGateway[1]
  BY <1>1, TailThins DEF Inv, Types
<1>3. CASE gateway' = gateway
  BY <1>1, <1>2, <1>3, ThinInv, SameThins DEF Inv, Types
<1>4. CASE m.session = gateway.session /\ gateway.phase # "idle" /\ gateway' = Learns(m)
  <2>1. m \in ToGateway
    BY <1>2, ElementOfSeq DEF Inv, Types
  <2>2. /\ m.kind = "command" => m.messageCounter \in Nat
        /\ m.kind \in {"connectResponse", "statusResponse", "command"}
    BY <2>1 DEF ToGateway, Responses, Commands
  <2> HIDE DEF m
  <2>3. /\ gateway' \in [phase : Phase, session : Nat, sent : Nat, answered : Nat, commands : Nat]
        /\ gateway'.session = gateway.session /\ gateway'.phase # "idle"
        /\ IF m.kind = "command" THEN gateway'.commands = m.messageCounter + 1
                                 ELSE gateway'.commands = gateway.commands
    <3>0. gateway \in [phase : Phase, session : Nat, sent : Nat, answered : Nat, commands : Nat]
      BY DEF Inv, Types
    <3>1. CASE m.kind = "connectResponse" /\ gateway.phase = "connecting"
      BY <1>4, <3>0, <3>1 DEF Learns, Phase
    <3>2. CASE m.kind = "statusResponse" /\ m.messageCounter = gateway.answered
      BY <1>4, <3>0, <3>2 DEF Learns, Phase
    <3>3. CASE m.kind = "command"
      <4>1. gateway' = [gateway EXCEPT !.phase = "connected", !.commands = m.messageCounter + 1]
        BY <1>4, <3>3 DEF Learns
      <4>2. m.messageCounter + 1 \in Nat /\ "connected" \in Phase
        BY <2>2, <3>3 DEF Phase
      <4> QED
        BY <3>0, <3>3, <4>1, <4>2
    <3>4. CASE /\ ~(m.kind = "connectResponse" /\ gateway.phase = "connecting")
               /\ ~(m.kind = "statusResponse" /\ m.messageCounter = gateway.answered)
               /\ m.kind # "command"
      BY <1>4, <3>0, <3>4 DEF Learns, Phase
    <3> QED
      BY <3>1, <3>2, <3>3, <3>4
  <2>4. \A i \in 1 .. Len(toServer) : toServer[i].kind # "connect"
    <3>1. SUFFICES ASSUME NEW i \in 1 .. Len(toServer), toServer[i].kind = "connect" PROVE FALSE
      OBVIOUS
    <3>2. toGateway[1].session < toServer[i].session /\ toServer[i].session \in 1 .. gateway.session
      BY <1>2, <3>1 DEF Inv, ConnectIsNews, Begun
    <3> QED
      BY <1>2, <1>4, <3>2 DEF Inv, Types
  <2>5. Types'
    BY <1>1, <1>2, <2>3 DEF Inv, Types, globals
  <2>6. Begun'
    BY <1>1, <1>2, <1>4, <2>3 DEF Inv, Begun, globals
  <2>7. GlobalsAgree' /\ ConnectIsNews'
    BY <1>1, <2>4 DEF Inv, GlobalsAgree, ConnectIsNews, globals
  <2>8. connection_status # 0 => gateway.session = sessionId
    BY <1>2, <1>4 DEF Inv, OneSession, Begun, Types
  <2>9. OneSession'
    BY <1>1, <1>2, <2>3, <2>8 DEF Inv, OneSession, globals
  <2>10. CommandsNumbered'
    <3> SUFFICES ASSUME NEW k \in 1 .. Len(toGateway'), toGateway'[k].kind = "command"
        PROVE  /\ toGateway'[k].session = gateway'.session => gateway'.commands <= toGateway'[k].messageCounter
               /\ \A j \in 1 .. k - 1 :
                    toGateway'[j].kind = "command" /\ toGateway'[j].session = toGateway'[k].session
                      => toGateway'[j].messageCounter < toGateway'[k].messageCounter
      BY DEF CommandsNumbered
    <3>1. /\ toGateway'[k] = toGateway[k + 1] /\ k + 1 \in 1 .. Len(toGateway) /\ 1 \in 1 .. (k + 1) - 1
          /\ \A j \in 1 .. k - 1 : j + 1 \in 1 .. (k + 1) - 1 /\ toGateway'[j] = toGateway[j + 1]
      <4>1. Len(toGateway') \in Nat
        BY <1>2, LenProperties
      <4> QED
        BY <1>2, <4>1
    <3>2. /\ toGateway[k + 1].session = gateway.session => gateway.commands <= toGateway[k + 1].messageCounter
          /\ \A j \in 1 .. (k + 1) - 1 :
               toGateway[j].kind = "command" /\ toGateway[j].session = toGateway[k + 1].session
                 => toGateway[j].messageCounter < toGateway[k + 1].messageCounter
      BY <3>1 DEF Inv, CommandsNumbered
    <3>3. toGateway[k + 1].messageCounter \in Nat
      <4>1. toGateway[k + 1] \in ToGateway
        BY <3>1, ElementOfSeq DEF Inv, Types
      <4> QED
        BY <3>1, <4>1 DEF ToGateway, Responses, Commands
    <3>4. toGateway'[k].session = gateway'.session => gateway'.commands <= toGateway'[k].messageCounter
      BY <1>2, <1>4, <2>2, <2>3, <3>1, <3>2, <3>3
    <3> QED
      BY <3>1, <3>2, <3>4
  <2>11. CommandsKnown'
    <3>1. gateway.session = sessionId /\ sessionId # 0 => gateway'.commands <= command_message_counter
      <4>1. m.kind = "command" /\ gateway.session = sessionId => m.messageCounter < Len(handled)
        BY <1>2, <1>4 DEF Inv, CommandsKnown
      <4>2. command_message_counter = Len(handled) /\ Len(handled) \in Nat
        BY LenProperties DEF Inv, GlobalsAgree, Types
      <4> QED
        BY <2>2, <2>3, <4>1, <4>2 DEF Inv, CommandsKnown
    <3> QED
      BY <1>1, <1>2, <2>3, <3>1 DEF Inv, CommandsKnown, globals
  <2> QED
    BY <2>5, <2>6, <2>7, <2>9, <2>10, <2>11 DEF Inv
<1> QED
  BY <1>1, <1>3, <1>4

LEMMA GivesUpInv == ASSUME Inv, GatewayGivesUp PROVE Inv'
<1>1. gateway' = [gateway EXCEPT !.phase = "idle"] /\ UNCHANGED <<up, globals, toServer, toGateway>>
  BY DEF GatewayGivesUp, process
<1>2. /\ gateway' \in [phase : Phase, session : Nat, sent : Nat, answered : Nat, commands : Nat]
      /\ gateway'.phase = "idle" /\ gateway'.session = gateway.session
      /\ gateway'.commands = gateway.commands
  BY <1>1 DEF Inv, Types, Phase
<1>3. Types' /\ Begun'
  BY <1>1, <1>2 DEF Inv, Types, Begun, globals
<1>4. GlobalsAgree' /\ ConnectIsNews' /\ OneSession'
  BY <1>1, <1>2 DEF Inv, GlobalsAgree, ConnectIsNews, OneSession, globals
<1>5. CommandsNumbered' /\ CommandsKnown'
  BY <1>1, <1>2 DEF Inv, CommandsNumbered, CommandsKnown, globals
<1> QED
  BY <1>3, <1>4, <1>5 DEF Inv

-----------------------------------------------------------------------------

\* The inductive invariant.
THEOREM InvHolds == Spec => []Inv
<1>1. Init => Inv
  <2> SUFFICES ASSUME Init PROVE Inv
    OBVIOUS
  <2>1. /\ toServer = <<>> /\ toGateway = <<>> /\ handled = <<>>
        /\ connection_status = 0 /\ sessionId = 0 /\ command_message_counter = 0 /\ up = FALSE
        /\ gateway = [phase |-> "idle", session |-> 0, sent |-> 0, answered |-> 0, commands |-> 0]
    BY DEF Init, NoSession
  <2>2. /\ toServer \in Seq(ToServer) /\ Len(toServer) = 0 /\ 1 .. Len(toServer) = {}
        /\ toGateway \in Seq(ToGateway) /\ Len(toGateway) = 0 /\ 1 .. Len(toGateway) = {}
        /\ handled \in Seq(Statuses) /\ Len(handled) = 0
    BY <2>1, EmptySeq
  <2>3. Types
    <3>1. /\ gateway \in [phase : Phase, session : Nat, sent : Nat, answered : Nat, commands : Nat]
          /\ connection_status \in 0 .. 2 /\ sessionId \in Nat
          /\ command_message_counter \in Nat
      BY <2>1 DEF Phase
    <3>2. up \in BOOLEAN
      BY <2>1, Zenon
    <3> QED
      BY <2>2, <3>1, <3>2, Zenon DEF Types
  <2>4. Begun /\ GlobalsAgree
    BY <2>1, <2>2 DEF Begun, GlobalsAgree
  <2>5. ConnectIsNews /\ OneSession /\ CommandsNumbered /\ CommandsKnown
    BY <2>1, <2>2 DEF ConnectIsNews, OneSession, CommandsNumbered, CommandsKnown
  <2> QED
    BY <2>3, <2>4, <2>5 DEF Inv
<1>2. ASSUME Inv, [Next]_vars PROVE Inv'
  <2>1. CASE Vanishing
    BY <1>2, <2>1, Vanishes, ThinInv
  <2>2. CASE Stop
    BY <1>2, <2>2, EndsInv DEF Stop
  <2>3. CASE handle_connect
    BY <1>2, <2>3, ConnectInv
  <2>4. CASE UnreadableStatus
    BY <1>2, <2>4, EndsInv DEF UnreadableStatus
  <2>5. CASE FirstStatus
    <3>1. /\ Receives /\ connection_status # 0 /\ connection_status' \in 1 .. 2
          /\ message.kind = "status" /\ HandleStatus(message, "example")
      BY <2>5 DEF FirstStatus
    <3>2. "example" \in Json
      BY DEF Json
    <3> QED
      BY <1>2, <3>1, <3>2, StatusInv
  <2>6. CASE LaterStatus
    <3>1. /\ Receives /\ connection_status # 0 /\ connection_status' \in 1 .. 2
          /\ message.kind = "status" /\ HandleStatus(message, "empty")
      BY <2>6 DEF LaterStatus
    <3>2. "empty" \in Json
      BY DEF Json
    <3> QED
      BY <1>2, <3>1, <3>2, StatusInv
  <2>7. CASE GatewayConnects
    BY <1>2, <2>7, GatewayConnectsInv
  <2>8. CASE \E d \in Device, readable \in BOOLEAN : GatewayReports(d, readable)
    BY <1>2, <2>8, GatewayReportsInv
  <2>9. CASE GatewayReceives
    BY <1>2, <2>9, GatewayReceivesInv
  <2>10. CASE GatewayGivesUp
    BY <1>2, <2>10, GivesUpInv
  <2> QED
    BY <1>2, <2>1, <2>2, <2>3, <2>4, <2>5, <2>6, <2>7, <2>8, <2>9, <2>10
    DEF Next, on_message, Vanishing
<1> QED
  BY <1>1, <1>2, PTL DEF Spec

\* server.py answers each status under the session it came from, with any
\* losses and restarts.
THEOREM OwnSession == Spec => []AnsweredUnderOwnSession
<1>1. Inv => AnsweredUnderOwnSession
  <2> SUFFICES ASSUME Inv, NEW i \in DOMAIN handled PROVE handled[i].session = sessionId
    BY DEF AnsweredUnderOwnSession
  <2>1. i \in 1 .. Len(handled) /\ Len(handled) \in Nat
    BY LenProperties DEF Inv, Types
  <2>2. connection_status # 0
    BY <2>1 DEF Inv, GlobalsAgree
  <2> QED
    BY <2>1, <2>2 DEF Inv, OneSession
<1> QED
  BY <1>1, InvHolds, PTL

\* The number of a command tells which status it answers.
THEOREM CommandIsForStatus == Spec => []CommandAnswersItsStatus
<1>1. Inv => CommandAnswersItsStatus
  <2>1. Inv => DOMAIN toGateway = 1 .. Len(toGateway)
    BY LenProperties DEF Inv, Types
  <2> QED
    BY <2>1 DEF Inv, CommandsKnown, CommandAnswersItsStatus
<1> QED
  BY <1>1, InvHolds, PTL

\* No number is used twice in a session.
THEOREM NumbersGrow == Spec => []CommandNumbersGrow
<1>1. Inv => CommandNumbersGrow
  <2>1. Inv => DOMAIN toGateway = 1 .. Len(toGateway)
    BY LenProperties DEF Inv, Types
  <2> QED
    BY <2>1 DEF Inv, CommandsNumbered, CommandNumbersGrow
<1> QED
  BY <1>1, InvHolds, PTL

-----------------------------------------------------------------------------
(***************************************************************************)
(* The bounds on the numbers, with any losses: a second invariant.         *)
(***************************************************************************)

Simple ==
  /\ subscribed \in BOOLEAN /\ disturbed \in BOOLEAN
  /\ runs \in 0 .. MaxRuns
  /\ last_device_status \in Device \cup {NoDevice}

\* What the gateway counts of its session.
GatewayCounts ==
  /\ gateway.session <= MaxSessions
  /\ gateway.sent <= MaxStatuses
  /\ gateway.answered <= gateway.sent
  /\ gateway.commands <= MaxStatuses
  /\ gateway.phase = "connecting" => gateway.sent = 0

IsStatus(i) == toServer[i].kind = "status"

\* The statuses under way are numbered in their order: below what was sent,
\* and not below what the server has handled.
StatusesNumbered ==
  \A i \in 1 .. Len(toServer) :
    IsStatus(i) =>
      /\ toServer[i].messageCounter < MaxStatuses
      /\ toServer[i].session = gateway.session => toServer[i].messageCounter < gateway.sent
      /\ connection_status # 0 => Len(handled) <= toServer[i].messageCounter
      /\ \A j \in 1 .. Len(toServer) :
           i < j /\ IsStatus(j) /\ toServer[j].session = toServer[i].session
             => toServer[i].messageCounter < toServer[j].messageCounter

RepliesBounded ==
  \A k \in 1 .. Len(toGateway) :
    /\ toGateway[k].kind = "command" => toGateway[k].messageCounter < MaxStatuses
    /\ toGateway[k].kind = "statusResponse" /\ toGateway[k].session = gateway.session
         => toGateway[k].messageCounter < gateway.sent

HandledBounded ==
  /\ Len(handled) <= MaxStatuses
  /\ connection_status # 0 /\ sessionId = gateway.session => Len(handled) <= gateway.sent

NumbersInv == Simple /\ GatewayCounts /\ StatusesNumbered /\ RepliesBounded /\ HandledBounded

\* The types of what is under way and of what is counted.
LEMMA MessageTypes ==
  ASSUME Inv
  PROVE  /\ Len(toServer) \in Nat /\ Len(toGateway) \in Nat /\ Len(handled) \in Nat
         /\ \A i \in 1 .. Len(toServer) :
              /\ toServer[i].kind \in {"connect", "status"} /\ toServer[i].session \in Nat
              /\ toServer[i].session <= gateway.session
              /\ IsStatus(i) => toServer[i].messageCounter \in Nat
         /\ \A k \in 1 .. Len(toGateway) :
              /\ toGateway[k].kind \in {"connectResponse", "statusResponse", "command"}
              /\ toGateway[k].session \in Nat /\ toGateway[k].session <= gateway.session
              /\ toGateway[k].kind # "connectResponse" => toGateway[k].messageCounter \in Nat
         /\ /\ gateway.session \in Nat /\ gateway.sent \in Nat /\ gateway.answered \in Nat
            /\ gateway.commands \in Nat /\ gateway.phase \in Phase
         /\ {MaxSessions, MaxStatuses, MaxRuns} \subseteq Nat \ {0}
<1>1. Len(toServer) \in Nat /\ Len(toGateway) \in Nat /\ Len(handled) \in Nat
  BY LenProperties DEF Inv, Types
<1>2. /\ gateway.session \in Nat /\ gateway.sent \in Nat /\ gateway.answered \in Nat
      /\ gateway.commands \in Nat /\ gateway.phase \in Phase
  BY DEF Inv, Types
<1>3. ASSUME NEW i \in 1 .. Len(toServer)
      PROVE  /\ toServer[i].kind \in {"connect", "status"} /\ toServer[i].session \in Nat
             /\ toServer[i].session <= gateway.session
             /\ IsStatus(i) => toServer[i].messageCounter \in Nat
  <2>1. toServer[i] \in ToServer
    BY ElementOfSeq DEF Inv, Types
  <2>2. toServer[i].session \in 1 .. gateway.session
    BY DEF Inv, Begun
  <2> QED
    BY <1>2, <2>1, <2>2 DEF ToServer, Statuses, IsStatus
<1>4. ASSUME NEW k \in 1 .. Len(toGateway)
      PROVE  /\ toGateway[k].kind \in {"connectResponse", "statusResponse", "command"}
             /\ toGateway[k].session \in Nat /\ toGateway[k].session <= gateway.session
             /\ toGateway[k].kind # "connectResponse" => toGateway[k].messageCounter \in Nat
  <2>1. toGateway[k] \in ToGateway
    BY ElementOfSeq DEF Inv, Types
  <2>2. toGateway[k].session \in 1 .. gateway.session
    BY DEF Inv, Begun
  <2> QED
    BY <1>2, <2>1, <2>2 DEF ToGateway, Responses, Commands
<1> QED
  BY <1>1, <1>2, <1>3, <1>4, PyServerAssumption

LEMMA SimpleInv == ASSUME Inv, NumbersInv, [Next]_vars PROVE Simple'
<1>0. Simple /\ MaxRuns \in Nat
  BY PyServerAssumption DEF NumbersInv
<1>1. CASE Vanishing \/ Stop \/ UnreadableStatus \/ handle_connect \/ GatewayConnects
             \/ (\E d \in Device, readable \in BOOLEAN : GatewayReports(d, readable)) \/ GatewayReceives
  <2>1. /\ runs' = runs \/ (runs < MaxRuns /\ runs' = runs + 1)
        /\ subscribed' = subscribed \/ subscribed' = TRUE \/ subscribed' = FALSE
        /\ disturbed' = disturbed \/ disturbed' = TRUE \/ disturbed' = FALSE
        /\ last_device_status' \in {last_device_status, NoDevice}
    BY <1>1 DEF Vanishing, Start, vars, process, globals, Reconnect, ConnectExpected,
      ConnectIgnored, Lose, Stop, UnreadableStatus, Ends, FreshGlobals, handle_connect,
      GatewayConnects, GatewayReports, GatewayReceives
  <2>2. runs' \in 0 .. MaxRuns /\ last_device_status' \in Device \cup {NoDevice}
    BY <1>0, <2>1 DEF Simple
  <2>3. subscribed' \in BOOLEAN /\ disturbed' \in BOOLEAN
    BY <1>0, <2>1, Zenon DEF Simple
  <2> QED
    BY <2>2, <2>3, Zenon DEF Simple
<1>2. CASE GatewayGivesUp
  <2>1. UNCHANGED <<subscribed, runs, last_device_status>>
    BY <1>2 DEF GatewayGivesUp, process, globals
  <2>2. disturbed' \in BOOLEAN
    BY <1>0, <1>2, Zenon DEF Simple, GatewayGivesUp
  <2> QED
    BY <1>0, <2>1, <2>2, Zenon DEF Simple
<1>3. CASE FirstStatus \/ LaterStatus
  <2>1. PICK json \in Json : HandleStatus(message, json)
    BY <1>3 DEF FirstStatus, LaterStatus, Json
  <2>2. /\ UNCHANGED <<subscribed, runs, disturbed>>
        /\ last_device_status' = message.device
    BY <2>1 DEF HandleStatus, Handles, process
  <2>3. Receives /\ connection_status # 0 /\ message.kind = "status"
    BY <1>3 DEF FirstStatus, LaterStatus
  <2>4. message.device \in Device
    BY <2>1, <2>3, StatusEffect
  <2> QED
    BY <1>0, <2>2, <2>4 DEF Simple
<1> QED
  BY <1>1, <1>2, <1>3 DEF Next, on_message, Vanishing

\* Each kind of step preserves the other parts.
Numbers == GatewayCounts /\ StatusesNumbered /\ RepliesBounded /\ HandledBounded

LEMMA ThinNumbers ==
  ASSUME Inv, Numbers, UNCHANGED <<globals, gateway>>,
         toServer' \in Seq(ToServer), Thins(toServer', toServer),
         toGateway' \in Seq(ToGateway), Thins(toGateway', toGateway)
  PROVE  Numbers'
<1> PICK e \in [1 .. Len(toServer') -> 1 .. Len(toServer)] :
      /\ \A i \in 1 .. Len(toServer') : toServer'[i] = toServer[e[i]]
      /\ \A i, j \in 1 .. Len(toServer') : i < j => e[i] < e[j]
  BY DEF Thins
<1> PICK f \in [1 .. Len(toGateway') -> 1 .. Len(toGateway)] :
      /\ \A i \in 1 .. Len(toGateway') : toGateway'[i] = toGateway[f[i]]
      /\ \A i, j \in 1 .. Len(toGateway') : i < j => f[i] < f[j]
  BY DEF Thins
<1>1. /\ \A i \in 1 .. Len(toServer') : e[i] \in 1 .. Len(toServer) /\ toServer'[i] = toServer[e[i]]
      /\ \A k \in 1 .. Len(toGateway') : f[k] \in 1 .. Len(toGateway) /\ toGateway'[k] = toGateway[f[k]]
  OBVIOUS
<1>2. GatewayCounts' /\ HandledBounded'
  BY DEF Numbers, GatewayCounts, HandledBounded, globals
<1>3. StatusesNumbered'
  <2> SUFFICES ASSUME NEW i \in 1 .. Len(toServer'), toServer'[i].kind = "status"
      PROVE  /\ toServer'[i].messageCounter < MaxStatuses
             /\ toServer'[i].session = gateway.session => toServer'[i].messageCounter < gateway.sent
             /\ connection_status # 0 => Len(handled) <= toServer'[i].messageCounter
             /\ \A j \in 1 .. Len(toServer') :
                  i < j /\ toServer'[j].kind = "status" /\ toServer'[j].session = toServer'[i].session
                    => toServer'[i].messageCounter < toServer'[j].messageCounter
    BY DEF StatusesNumbered, IsStatus, globals
  <2> DEFINE a == e[i]
  <2>1. a \in 1 .. Len(toServer) /\ toServer'[i] = toServer[a]
    BY <1>1
  <2>2. \A j \in 1 .. Len(toServer') : i < j => a < e[j]
    OBVIOUS
  <2> HIDE DEF a
  <2>3. /\ toServer[a].messageCounter < MaxStatuses
        /\ toServer[a].session = gateway.session => toServer[a].messageCounter < gateway.sent
        /\ connection_status # 0 => Len(handled) <= toServer[a].messageCounter
        /\ \A j \in 1 .. Len(toServer) :
             a < j /\ toServer[j].kind = "status" /\ toServer[j].session = toServer[a].session
               => toServer[a].messageCounter < toServer[j].messageCounter
    BY <2>1 DEF Numbers, StatusesNumbered, IsStatus
  <2>4. ASSUME NEW j \in 1 .. Len(toServer'), i < j,
               toServer'[j].kind = "status", toServer'[j].session = toServer'[i].session
        PROVE  toServer'[i].messageCounter < toServer'[j].messageCounter
    <3> DEFINE b == e[j]
    <3>1. b \in 1 .. Len(toServer) /\ toServer'[j] = toServer[b] /\ a < b
      BY <1>1, <2>2, <2>4
    <3> HIDE DEF b
    <3>2. toServer[b].kind = "status" /\ toServer[b].session = toServer[a].session
      BY <2>1, <2>4, <3>1, Zenon
    <3>3. toServer[a].messageCounter < toServer[b].messageCounter
      BY <2>3, <3>1, <3>2
    <3> QED
      BY <2>1, <3>1, <3>3, Zenon
  <2> QED
    BY <2>1, <2>3, <2>4
<1>4. RepliesBounded'
  <2> SUFFICES ASSUME NEW k \in 1 .. Len(toGateway')
      PROVE  /\ toGateway'[k].kind = "command" => toGateway'[k].messageCounter < MaxStatuses
             /\ toGateway'[k].kind = "statusResponse" /\ toGateway'[k].session = gateway.session
                  => toGateway'[k].messageCounter < gateway.sent
    BY DEF RepliesBounded
  <2>1. f[k] \in 1 .. Len(toGateway) /\ toGateway'[k] = toGateway[f[k]]
    BY <1>1
  <2> QED
    BY <2>1 DEF Numbers, RepliesBounded
<1> QED
  BY <1>2, <1>3, <1>4 DEF Numbers

LEMMA EndsNumbers == ASSUME Inv, Numbers, Ends, UNCHANGED gateway PROVE Numbers'
<1>1. /\ connection_status' = 0 /\ handled' = <<>> /\ toServer' = <<>> /\ toGateway' = toGateway
  BY DEF Ends, FreshGlobals
<1>2. Len(handled') = 0 /\ 1 .. Len(toServer') = {} /\ MaxStatuses \in Nat
  BY <1>1, EmptySeq, MessageTypes
<1> QED
  BY <1>1, <1>2 DEF Numbers, GatewayCounts, StatusesNumbered, RepliesBounded, HandledBounded

LEMMA ConnectNumbers == ASSUME Inv, Numbers, handle_connect PROVE Numbers'
<1> DEFINE s == message.session
           r == create_connect_response(s)
           n == Len(toGateway)
<1>1. connection_status' = 1 /\ sessionId' = s /\ UNCHANGED <<handled, gateway>> /\ Len(handled) = 0
  BY ConnectEffect
<1>2. \A i \in 1 .. Len(toServer') : toServer'[i].kind = "connect"
  BY ConnectEffect
<1>3. /\ n \in Nat /\ Len(toGateway') = n + 1
      /\ \A k \in 1 .. n : toGateway'[k] = toGateway[k]
      /\ toGateway'[n + 1] = r /\ r.kind = "connectResponse"
      /\ \A k \in 1 .. n + 1 : k \in 1 .. n \/ k = n + 1
  <2>1. r = [kind |-> "connectResponse", session |-> s]
    BY ConnectEffect
  <2> QED
    BY <2>1, ConnectEffect
<1>4. GatewayCounts' /\ StatusesNumbered'
  BY <1>1, <1>2 DEF Numbers, GatewayCounts, StatusesNumbered, IsStatus
<1>5. RepliesBounded'
  <2> HIDE DEF r, s
  <2> QED
    BY <1>1, <1>3 DEF Numbers, RepliesBounded
<1>6. HandledBounded'
  <2>1. gateway.sent \in Nat
    BY MessageTypes
  <2> QED
    BY <1>1, <2>1 DEF Numbers, HandledBounded
<1> QED
  BY <1>4, <1>5, <1>6 DEF Numbers

LEMMA StatusNumbers ==
  ASSUME Inv, Numbers, Receives, connection_status # 0, message.kind = "status",
         NEW json \in Json, HandleStatus(message, json)
  PROVE  Numbers'
<1> DEFINE m == message
           r == status_response(m)
           c == command_for(m.device, json)
           n == Len(toGateway)
           h == Len(handled)
<1>1. UNCHANGED <<sessionId, gateway>>
  BY StatusEffect
<1>2. /\ \A i \in 1 .. Len(toServer') : toServer'[i] = toServer[i + 1] /\ i + 1 \in 1 .. Len(toServer)
      /\ 1 \in 1 .. Len(toServer) /\ m = toServer[1]
  BY StatusEffect
<1>3. m.session = sessionId /\ m.messageCounter \in Nat /\ h \in Nat
  BY StatusEffect
<1>4. /\ r.kind = "statusResponse" /\ r.session = sessionId /\ r.messageCounter = m.messageCounter
      /\ c.kind = "command" /\ c.session = sessionId /\ c.messageCounter = h
  <2>1. /\ r = [kind |-> "statusResponse", session |-> sessionId, messageCounter |-> m.messageCounter]
        /\ c = [kind |-> "command", session |-> sessionId, messageCounter |-> h,
                device |-> m.device, data |-> json]
    BY StatusEffect
  <2> HIDE DEF r, c
  <2> QED
    BY <2>1
<1>5. /\ n \in Nat /\ Len(toGateway') = n + 2
      /\ \A k \in 1 .. n : toGateway'[k] = toGateway[k]
      /\ toGateway'[n + 1] = r /\ toGateway'[n + 2] = c
      /\ \A k \in 1 .. n + 2 : k \in 1 .. n \/ k = n + 1 \/ k = n + 2
  BY StatusEffect
<1>6. Len(handled') = h + 1
  BY StatusEffect
<1> HIDE DEF m, r, c
<1>7. /\ MaxStatuses \in Nat /\ gateway.sent \in Nat
      /\ \A i \in 1 .. Len(toServer) : IsStatus(i) => toServer[i].messageCounter \in Nat
  BY MessageTypes
<1>8. IsStatus(1)
  BY <1>2 DEF IsStatus, m
<1>9. m.messageCounter < MaxStatuses /\ h <= m.messageCounter
      /\ (sessionId = gateway.session => m.messageCounter < gateway.sent)
  BY <1>2, <1>3, <1>8 DEF Numbers, StatusesNumbered
<1>10. GatewayCounts'
  BY <1>1 DEF Numbers, GatewayCounts
<1>11. StatusesNumbered'
  <2> SUFFICES ASSUME NEW i \in 1 .. Len(toServer'), toServer'[i].kind = "status"
      PROVE  /\ toServer'[i].messageCounter < MaxStatuses
             /\ toServer'[i].session = gateway.session => toServer'[i].messageCounter < gateway.sent
             /\ h + 1 <= toServer'[i].messageCounter
             /\ \A j \in 1 .. Len(toServer') :
                  i < j /\ toServer'[j].kind = "status" /\ toServer'[j].session = toServer'[i].session
                    => toServer'[i].messageCounter < toServer'[j].messageCounter
    BY <1>1, <1>6 DEF StatusesNumbered, IsStatus
  <2>1. /\ i + 1 \in 1 .. Len(toServer) /\ toServer'[i] = toServer[i + 1]
        /\ IsStatus(i + 1) /\ 1 < i + 1 /\ toServer[i + 1].messageCounter \in Nat
    BY <1>2, <1>7 DEF IsStatus
  <2>2. /\ toServer[i + 1].messageCounter < MaxStatuses
        /\ toServer[i + 1].session = gateway.session => toServer[i + 1].messageCounter < gateway.sent
        /\ \A j \in 1 .. Len(toServer) :
             i + 1 < j /\ IsStatus(j) /\ toServer[j].session = toServer[i + 1].session
               => toServer[i + 1].messageCounter < toServer[j].messageCounter
    BY <2>1 DEF Numbers, StatusesNumbered
  <2>3. m.messageCounter < toServer[i + 1].messageCounter
    <3>1. toServer[i + 1].session = toServer[1].session
      BY <1>2, <1>3, <1>8, <2>1 DEF Inv, OneSession, IsStatus
    <3> QED
      BY <1>2, <1>8, <2>1, <3>1 DEF Numbers, StatusesNumbered
  <2>4. ASSUME NEW j \in 1 .. Len(toServer'), i < j,
               toServer'[j].kind = "status", toServer'[j].session = toServer'[i].session
        PROVE  toServer'[i].messageCounter < toServer'[j].messageCounter
    <3>1. j + 1 \in 1 .. Len(toServer) /\ toServer'[j] = toServer[j + 1] /\ i + 1 < j + 1
      BY <1>2, <2>4
    <3>2. IsStatus(j + 1) /\ toServer[j + 1].session = toServer[i + 1].session
      BY <2>1, <2>4, <3>1, Zenon DEF IsStatus
    <3> QED
      BY <2>1, <2>2, <3>1, <3>2
  <2>5. h + 1 <= toServer[i + 1].messageCounter
    BY <1>3, <1>9, <2>1, <2>3
  <2> QED
    BY <2>1, <2>2, <2>4, <2>5
<1>12. RepliesBounded'
  <2> SUFFICES ASSUME NEW k \in 1 .. n + 2
      PROVE  /\ toGateway'[k].kind = "command" => toGateway'[k].messageCounter < MaxStatuses
             /\ toGateway'[k].kind = "statusResponse" /\ toGateway'[k].session = gateway.session
                  => toGateway'[k].messageCounter < gateway.sent
    BY <1>1, <1>5 DEF RepliesBounded
  <2>1. CASE k \in 1 .. n
    BY <1>5, <2>1 DEF Numbers, RepliesBounded, n
  <2>2. CASE k = n + 1
    BY <1>4, <1>5, <1>9, <2>2
  <2>3. CASE k = n + 2
    BY <1>3, <1>4, <1>5, <1>7, <1>9, <2>3
  <2> QED
    BY <1>5, <2>1, <2>2, <2>3
<1>13. HandledBounded'
  BY <1>1, <1>3, <1>6, <1>7, <1>9 DEF HandledBounded
<1> QED
  BY <1>10, <1>11, <1>12, <1>13 DEF Numbers

LEMMA GatewayConnectsNumbers == ASSUME Inv, Numbers, GatewayConnects PROVE Numbers'
<1> DEFINE s == gateway.session + 1
           n == Len(toServer)
<1>0. gateway.session \in Nat /\ MaxSessions \in Nat /\ MaxStatuses \in Nat
  BY MessageTypes
<1>1. /\ gateway' = [phase |-> "connecting", session |-> s, sent |-> 0, answered |-> 0, commands |-> 0]
      /\ gateway.session < MaxSessions /\ Sends(Connect(s))
      /\ UNCHANGED <<globals, toGateway>>
  BY DEF GatewayConnects
<1>2. Connect(s).kind = "connect" /\ Connect(s) \in ToServer
  BY <1>0 DEF Connect, ToServer
<1>3. \A i \in 1 .. Len(toServer') : toServer'[i].kind = "status" =>
        i \in 1 .. n /\ toServer'[i] = toServer[i]
  BY <1>1, <1>2, SendsAppends DEF Inv, Types
<1>4. /\ gateway'.session = s /\ gateway'.sent = 0 /\ gateway'.answered = 0
      /\ gateway'.commands = 0 /\ gateway'.phase = "connecting"
  BY <1>1
<1>5. GatewayCounts'
  BY <1>0, <1>1, <1>4 DEF GatewayCounts
<1>6. StatusesNumbered'
  <2>1. \A i \in 1 .. n : toServer[i].session # s
    BY <1>0, MessageTypes
  <2> QED
    BY <1>1, <1>3, <1>4, <2>1 DEF Numbers, StatusesNumbered, IsStatus, globals, n
<1>7. RepliesBounded'
  <2>1. \A k \in 1 .. Len(toGateway) : toGateway[k].session # s
    BY <1>0, MessageTypes
  <2> QED
    BY <1>1, <1>4, <2>1 DEF Numbers, RepliesBounded
<1>8. HandledBounded'
  <2>1. sessionId # s
    BY <1>0 DEF Inv, Begun
  <2> QED
    BY <1>1, <1>4, <2>1 DEF Numbers, HandledBounded, globals
<1> QED
  BY <1>5, <1>6, <1>7, <1>8 DEF Numbers

LEMMA GatewayReportsNumbers ==
  ASSUME Inv, Numbers, NEW d \in Device, NEW readable \in BOOLEAN, GatewayReports(d, readable)
  PROVE  Numbers'
<1> DEFINE m == Status(gateway.session, gateway.sent, d, readable)
           n == Len(toServer)
<1>0. /\ gateway.sent \in Nat /\ gateway.answered \in Nat /\ gateway.session \in Nat
      /\ MaxStatuses \in Nat /\ n \in Nat
      /\ \A i \in 1 .. n : IsStatus(i) => toServer[i].messageCounter \in Nat
      /\ \A k \in 1 .. Len(toGateway) :
           toGateway[k].kind = "statusResponse" => toGateway[k].messageCounter \in Nat
  BY MessageTypes
<1>1. /\ gateway.phase \in {"reporting", "connected"} /\ gateway.sent < MaxStatuses
      /\ gateway' = [gateway EXCEPT !.sent = @ + 1] /\ Sends(m)
      /\ UNCHANGED <<globals, toGateway>>
  BY DEF GatewayReports
<1>2. /\ m.kind = "status" /\ m.session = gateway.session /\ m.messageCounter = gateway.sent
      /\ m \in ToServer
  BY <1>0 DEF Status, ToServer, Statuses
<1>4. /\ gateway'.session = gateway.session /\ gateway'.sent = gateway.sent + 1
      /\ gateway'.answered = gateway.answered /\ gateway'.commands = gateway.commands
      /\ gateway'.phase = gateway.phase
  BY <1>1 DEF Inv, Types
<1> HIDE DEF m
<1>3. \/ toServer' = toServer
      \/ /\ Len(toServer') = n + 1
         /\ \A i \in 1 .. n : toServer'[i] = toServer[i]
         /\ toServer'[n + 1] = m
         /\ \A i \in 1 .. Len(toServer') : i \in 1 .. n \/ i = n + 1
  BY <1>1, <1>2, SendsAppends DEF Inv, Types
<1>5. GatewayCounts'
  BY <1>0, <1>1, <1>4 DEF Numbers, GatewayCounts
<1>6. RepliesBounded' /\ HandledBounded'
  <2>1. Len(handled) \in Nat
    BY MessageTypes
  <2>2. RepliesBounded'
    BY <1>0, <1>1, <1>4 DEF Numbers, RepliesBounded
  <2>3. HandledBounded'
    BY <1>0, <1>1, <1>4, <2>1 DEF Numbers, HandledBounded, globals
  <2> QED
    BY <2>2, <2>3
<1> HIDE DEF n
<1>7. StatusesNumbered'
  <2>1. ASSUME NEW i \in 1 .. n, IsStatus(i)
        PROVE  /\ toServer[i].messageCounter < MaxStatuses
               /\ toServer[i].session = gateway.session => toServer[i].messageCounter < gateway.sent + 1
               /\ connection_status # 0 => Len(handled) <= toServer[i].messageCounter
               /\ \A j \in 1 .. n :
                    i < j /\ IsStatus(j) /\ toServer[j].session = toServer[i].session
                      => toServer[i].messageCounter < toServer[j].messageCounter
               /\ m.session = toServer[i].session => toServer[i].messageCounter < m.messageCounter
    BY <1>0, <1>2, <2>1 DEF Numbers, StatusesNumbered, n
  <2>2. /\ m.messageCounter < MaxStatuses /\ m.messageCounter < gateway.sent + 1
        /\ connection_status # 0 => Len(handled) <= m.messageCounter
    BY <1>0, <1>1, <1>2 DEF Numbers, HandledBounded, Inv, OneSession
  <2>3. CASE toServer' = toServer
    BY <1>1, <1>4, <2>1, <2>3 DEF StatusesNumbered, IsStatus, globals, n
  <2>4. CASE /\ Len(toServer') = n + 1
             /\ \A i \in 1 .. n : toServer'[i] = toServer[i]
             /\ toServer'[n + 1] = m
             /\ \A i \in 1 .. Len(toServer') : i \in 1 .. n \/ i = n + 1
    <3> SUFFICES ASSUME NEW i \in 1 .. n + 1, toServer'[i].kind = "status"
        PROVE  /\ toServer'[i].messageCounter < MaxStatuses
               /\ toServer'[i].session = gateway.session => toServer'[i].messageCounter < gateway.sent + 1
               /\ connection_status # 0 => Len(handled) <= toServer'[i].messageCounter
               /\ \A j \in 1 .. n + 1 :
                    i < j /\ toServer'[j].kind = "status" /\ toServer'[j].session = toServer'[i].session
                      => toServer'[i].messageCounter < toServer'[j].messageCounter
      BY <1>1, <1>4, <2>4 DEF StatusesNumbered, IsStatus, globals
    <3>1. CASE i \in 1 .. n
      BY <2>1, <2>4, <3>1 DEF IsStatus
    <3>2. CASE i = n + 1
      <4>1. \A j \in 1 .. n + 1 : ~(i < j)
        BY <1>0, <3>2
      <4> QED
        BY <2>2, <2>4, <3>2, <4>1
    <3> QED
      BY <2>4, <3>1, <3>2
  <2> QED
    BY <1>3, <2>3, <2>4
<1> QED
  BY <1>5, <1>6, <1>7 DEF Numbers

LEMMA GivesUpNumbers == ASSUME Inv, Numbers, GatewayGivesUp PROVE Numbers'
<1>1. gateway' = [gateway EXCEPT !.phase = "idle"] /\ UNCHANGED <<globals, toServer, toGateway>>
  BY DEF GatewayGivesUp
<1>2. /\ gateway'.phase = "idle" /\ gateway'.session = gateway.session
      /\ gateway'.commands = gateway.commands /\ gateway'.sent = gateway.sent
      /\ gateway'.answered = gateway.answered
  BY <1>1 DEF Inv, Types
<1>3. GatewayCounts'
  BY <1>2 DEF Numbers, GatewayCounts
<1>4. StatusesNumbered'
  BY <1>1, <1>2 DEF Numbers, StatusesNumbered, IsStatus, globals
<1>5. RepliesBounded' /\ HandledBounded'
  BY <1>1, <1>2 DEF Numbers, RepliesBounded, HandledBounded, globals
<1> QED
  BY <1>3, <1>4, <1>5 DEF Numbers

\* What a message tells the gateway.
LEMMA LearnsEffect ==
  ASSUME Inv, NEW m, gateway' = Learns(m)
  PROVE  /\ gateway'.session = gateway.session /\ gateway'.sent = gateway.sent
         /\ \/ /\ m.kind = "connectResponse" /\ gateway.phase = "connecting"
               /\ gateway'.phase = "reporting" /\ gateway'.answered = gateway.answered
               /\ gateway'.commands = gateway.commands
            \/ /\ m.kind = "statusResponse" /\ m.messageCounter = gateway.answered
               /\ gateway'.phase = gateway.phase /\ gateway'.answered = gateway.answered + 1
               /\ gateway'.commands = gateway.commands
            \/ /\ m.kind = "command"
               /\ gateway'.phase = "connected" /\ gateway'.answered = gateway.answered
               /\ gateway'.commands = m.messageCounter + 1
            \/ /\ ~(m.kind = "connectResponse" /\ gateway.phase = "connecting")
               /\ ~(m.kind = "statusResponse" /\ m.messageCounter = gateway.answered)
               /\ m.kind # "command"
               /\ gateway' = gateway
<1>0. gateway \in [phase : Phase, session : Nat, sent : Nat, answered : Nat, commands : Nat]
  BY DEF Inv, Types
<1>1. CASE m.kind = "connectResponse" /\ gateway.phase = "connecting"
  <2>1. gateway' = [gateway EXCEPT !.phase = "reporting"]
    BY <1>1 DEF Learns
  <2> QED
    BY <1>0, <1>1, <2>1
<1>2. CASE m.kind = "statusResponse" /\ m.messageCounter = gateway.answered
  <2>1. gateway' = [gateway EXCEPT !.answered = @ + 1]
    BY <1>2 DEF Learns
  <2> QED
    BY <1>0, <1>2, <2>1
<1>3. CASE m.kind = "command"
  <2>1. gateway' = [gateway EXCEPT !.phase = "connected", !.commands = m.messageCounter + 1]
    BY <1>3 DEF Learns
  <2> QED
    BY <1>0, <1>3, <2>1
<1>4. CASE /\ ~(m.kind = "connectResponse" /\ gateway.phase = "connecting")
           /\ ~(m.kind = "statusResponse" /\ m.messageCounter = gateway.answered)
           /\ m.kind # "command"
  BY <1>0, <1>4 DEF Learns
<1> QED
  BY <1>1, <1>2, <1>3, <1>4

LEMMA GatewayReceivesNumbers == ASSUME Inv, Numbers, GatewayReceives PROVE Numbers'
<1> DEFINE m == Head(toGateway)
<1>1. /\ toGateway # <<>> /\ toGateway' = Tail(toGateway)
      /\ UNCHANGED <<globals, toServer>>
      /\ gateway' = gateway \/ (m.session = gateway.session /\ gateway' = Learns(m))
  BY DEF GatewayReceives
<1>2. /\ \A k \in 1 .. Len(toGateway') : toGateway'[k] = toGateway[k + 1] /\ k + 1 \in 1 .. Len(toGateway)
      /\ 1 \in 1 .. Len(toGateway) /\ m = toGateway[1]
  BY <1>1, TailThins DEF Inv, Types
<1>3. /\ m.kind = "command" => m.messageCounter \in Nat /\ m.messageCounter < MaxStatuses
      /\ m.kind = "statusResponse" => m.messageCounter \in Nat
      /\ m.kind = "statusResponse" /\ m.session = gateway.session => m.messageCounter < gateway.sent
  BY <1>2, MessageTypes DEF Numbers, RepliesBounded
<1>4. MaxStatuses \in Nat /\ gateway.sent \in Nat
  BY MessageTypes
<1> HIDE DEF m
<1>5. /\ gateway'.session = gateway.session /\ gateway'.sent = gateway.sent
      /\ GatewayCounts'
  <2>1. CASE gateway' = gateway
    BY <2>1 DEF Numbers, GatewayCounts
  <2>2. CASE m.session = gateway.session /\ gateway' = Learns(m)
    <3>1. /\ gateway'.session = gateway.session /\ gateway'.sent = gateway.sent
          /\ gateway'.answered = gateway.answered
             \/ (m.kind = "statusResponse" /\ m.messageCounter = gateway.answered
                   /\ gateway'.answered = gateway.answered + 1)
          /\ gateway'.commands = gateway.commands
             \/ (m.kind = "command" /\ gateway'.commands = m.messageCounter + 1)
          /\ gateway'.phase = "connecting" => gateway.phase = "connecting"
      BY <2>2, LearnsEffect
    <3> QED
      BY <1>3, <1>4, <2>2, <3>1 DEF Numbers, GatewayCounts
  <2> QED
    BY <1>1, <2>1, <2>2
<1>6. StatusesNumbered' /\ HandledBounded'
  BY <1>1, <1>5 DEF Numbers, StatusesNumbered, HandledBounded, IsStatus, globals
<1>7. RepliesBounded'
  BY <1>2, <1>5 DEF Numbers, RepliesBounded
<1> QED
  BY <1>5, <1>6, <1>7 DEF Numbers

\* The numbers stay within their bounds.
THEOREM NumbersHold == Spec => []NumbersInv
<1>1. Init => NumbersInv
  <2> SUFFICES ASSUME Init PROVE NumbersInv
    OBVIOUS
  <2>1. /\ toServer = <<>> /\ toGateway = <<>> /\ handled = <<>>
        /\ connection_status = 0 /\ runs = 0 /\ last_device_status = NoDevice
        /\ subscribed = FALSE /\ disturbed = FALSE
        /\ gateway.session = 0 /\ gateway.sent = 0 /\ gateway.answered = 0
        /\ gateway.commands = 0 /\ gateway.phase = "idle"
    BY DEF Init, NoSession
  <2>2. /\ Len(toServer) = 0 /\ 1 .. Len(toServer) = {} /\ Len(toGateway) = 0
        /\ 1 .. Len(toGateway) = {} /\ Len(handled) = 0
        /\ {MaxSessions, MaxStatuses, MaxRuns} \subseteq Nat
    BY <2>1, EmptySeq, PyServerAssumption
  <2>3. GatewayCounts /\ StatusesNumbered /\ RepliesBounded /\ HandledBounded
    BY <2>1, <2>2 DEF GatewayCounts, StatusesNumbered, RepliesBounded, HandledBounded
  <2>4. runs \in 0 .. MaxRuns /\ last_device_status \in Device \cup {NoDevice}
    BY <2>1, <2>2
  <2>5. subscribed \in BOOLEAN /\ disturbed \in BOOLEAN
    BY <2>1, Zenon
  <2> QED
    BY <2>3, <2>4, <2>5, Zenon DEF NumbersInv, Simple
<1>2. ASSUME Inv, NumbersInv, [Next]_vars PROVE NumbersInv'
  <2>0. Numbers /\ Simple'
    BY <1>2, SimpleInv DEF NumbersInv, Numbers
  <2> SUFFICES Numbers'
    BY <2>0 DEF NumbersInv, Numbers
  <2>1. CASE Vanishing
    BY <1>2, <2>0, <2>1, Vanishes, ThinNumbers
  <2>2. CASE Stop \/ UnreadableStatus
    BY <1>2, <2>0, <2>2, EndsNumbers DEF Stop, UnreadableStatus
  <2>3. CASE handle_connect
    BY <1>2, <2>0, <2>3, ConnectNumbers
  <2>4. CASE FirstStatus \/ LaterStatus
    <3>1. PICK json \in Json : HandleStatus(message, json)
      BY <2>4 DEF FirstStatus, LaterStatus, Json
    <3>2. Receives /\ connection_status # 0 /\ message.kind = "status"
      BY <2>4 DEF FirstStatus, LaterStatus
    <3>3. connection_status' # 0
      BY <2>4 DEF FirstStatus, LaterStatus
    <3> QED
      BY <1>2, <2>0, <3>1, <3>2, <3>3, StatusNumbers
  <2>5. CASE GatewayConnects
    BY <1>2, <2>0, <2>5, GatewayConnectsNumbers
  <2>6. CASE \E d \in Device, readable \in BOOLEAN : GatewayReports(d, readable)
    BY <1>2, <2>0, <2>6, GatewayReportsNumbers
  <2>7. CASE GatewayReceives
    BY <1>2, <2>0, <2>7, GatewayReceivesNumbers
  <2>8. CASE GatewayGivesUp
    BY <1>2, <2>0, <2>8, GivesUpNumbers
  <2> QED
    BY <1>2, <2>1, <2>2, <2>3, <2>4, <2>5, <2>6, <2>7, <2>8 DEF Next, on_message, Vanishing
<1> QED
  BY <1>1, <1>2, InvHolds, PTL DEF Spec

\* Every variable keeps its type, and no number leaves its bound.
THEOREM TypeCorrect == Spec => []TypeOK
<1>1. Inv /\ NumbersInv => TypeOK
  <2> SUFFICES ASSUME Inv, NumbersInv PROVE TypeOK
    OBVIOUS
  <2>1. /\ runs \in 0 .. MaxRuns /\ connection_status \in 0 .. 2
        /\ last_device_status \in Device \cup {NoDevice}
    BY DEF NumbersInv, Simple, Inv, Types
  <2>2. up \in BOOLEAN /\ subscribed \in BOOLEAN /\ disturbed \in BOOLEAN
    BY Zenon DEF NumbersInv, Simple, Inv, Types
  <2>3. {MaxSessions, MaxStatuses} \subseteq Nat /\ gateway.session <= MaxSessions
        /\ Len(handled) \in Nat /\ Len(handled) <= MaxStatuses
    BY MessageTypes DEF NumbersInv, GatewayCounts, HandledBounded
  <2>4. sessionId \in Session \cup {NoSession} /\ command_message_counter \in 0 .. MaxStatuses
    BY <2>3 DEF Inv, Begun, GlobalsAgree, Types, Session, NoSession
  <2>5. gateway \in [phase: Phase, session: Session \cup {NoSession},
                     sent: 0 .. MaxStatuses, answered: 0 .. MaxStatuses,
                     commands: 0 .. MaxStatuses]
    BY <2>3 DEF Inv, Types, NumbersInv, GatewayCounts, Session, NoSession
  <2>6. \A i \in DOMAIN toGateway : toGateway[i].session \in Session \cup {NoSession}
    <3>1. DOMAIN toGateway = 1 .. Len(toGateway)
      BY LenProperties DEF Inv, Types
    <3> QED
      BY <2>3, <3>1 DEF Inv, Begun, Types, Session
  <2> QED
    BY <2>1, <2>2, <2>4, <2>5, <2>6, Zenon DEF TypeOK
<1> QED
  BY <1>1, InvHolds, NumbersHold, PTL

-----------------------------------------------------------------------------
(***************************************************************************)
(* A server that runs, as long as no fault occurs: a third invariant.      *)
(***************************************************************************)

Quiet == up /\ ~disturbed

\* A connect on its way is the one the gateway waits for.
ConnectAwaited ==
  \A i \in 1 .. Len(toServer) :
    toServer[i].kind = "connect" => gateway.phase = "connecting" /\ toServer[i].session = gateway.session

Coming(kind) ==
  \E k \in 1 .. Len(toGateway) : toGateway[k].kind = kind /\ toGateway[k].session = sessionId

\* The gateway the server serves gets what it waits for.
Patient ==
  /\ gateway.session = sessionId
  /\ gateway.phase # "idle"
  /\ gateway.phase = "connecting" => Coming("connectResponse")
  /\ gateway.phase = "reporting" /\ gateway.sent > 0 => toServer # <<>> \/ Coming("command")

Read == gateway.sent - Len(toServer)

\* The messages on their way to the server are the last of the statuses that
\* the gateway has sent ...
StatusesInFlow ==
  /\ Read >= gateway.answered
  /\ \A i \in 1 .. Len(toServer) :
       IsStatus(i) /\ toServer[i].messageCounter = Read + i - 1

\* The server's response to a status of the session it serves.
IsResponse(k) == toGateway[k].kind = "statusResponse" /\ toGateway[k].session = sessionId

\* ... and the responses on their way answer the ones before those, in order.
ResponsesInOrder ==
  \A k \in 1 .. Len(toGateway) :
    IsResponse(k) =>
      /\ gateway.answered <= toGateway[k].messageCounter /\ toGateway[k].messageCounter < Read
      /\ \A l \in 1 .. Len(toGateway) :
           k < l /\ IsResponse(l) => toGateway[k].messageCounter < toGateway[l].messageCounter

ResponsesComplete ==
  \A c \in gateway.answered .. Read - 1 :
    \E k \in 1 .. Len(toGateway) : IsResponse(k) /\ toGateway[k].messageCounter = c

Flow == Patient /\ StatusesInFlow /\ ResponsesInOrder /\ ResponsesComplete

QuietInv ==
  Quiet => subscribed /\ ConnectAwaited /\ (connection_status # 0 => Flow)

LEMMA StartQuiet == ASSUME Inv, Start PROVE QuietInv'
<1>1. subscribed' = TRUE /\ connection_status' = 0 /\ toServer' = <<>>
  BY DEF Start, Inv, GlobalsAgree, globals
<1>2. 1 .. Len(toServer') = {}
  BY <1>1, EmptySeq
<1> QED
  BY <1>1, <1>2 DEF QuietInv, ConnectAwaited

LEMMA SameQuiet == ASSUME QuietInv, UNCHANGED vars PROVE QuietInv'
  BY DEF QuietInv, Quiet, ConnectAwaited, Flow, Patient, Coming, StatusesInFlow, Read, IsStatus,
         ResponsesInOrder, ResponsesComplete, IsResponse, vars, process, globals

\* A connect is only ignored in the wrong order after a fault.
LEMMA IgnoredQuiet == ASSUME Inv, QuietInv, ConnectExpected \/ ConnectIgnored PROVE QuietInv'
<1> SUFFICES ASSUME Quiet' PROVE subscribed' /\ ConnectAwaited' /\ connection_status' = 0
  BY DEF QuietInv
<1>1. /\ toServer # <<>> /\ toServer' = Tail(toServer)
      /\ connection_status = 0 \/ message.kind # "status"
      /\ UNCHANGED <<up, subscribed, disturbed, connection_status, gateway>>
  BY DEF ConnectExpected, ConnectIgnored, Receives, process, globals
<1>2. Quiet /\ subscribed /\ ConnectAwaited /\ (connection_status # 0 => Flow)
  BY <1>1 DEF Quiet, QuietInv
<1>3. /\ \A i \in 1 .. Len(toServer') : toServer'[i] = toServer[i + 1] /\ i + 1 \in 1 .. Len(toServer)
      /\ 1 \in 1 .. Len(toServer) /\ message = toServer[1]
  BY <1>1, TailThins DEF Inv, Types, message
<1>4. connection_status = 0
  BY <1>1, <1>2, <1>3 DEF Flow, StatusesInFlow, IsStatus
<1>5. ConnectAwaited'
  BY <1>1, <1>2, <1>3 DEF ConnectAwaited
<1> QED
  BY <1>1, <1>2, <1>4, <1>5

LEMMA ConnectQuiet == ASSUME Inv, NumbersInv, QuietInv, handle_connect PROVE QuietInv'
<1> SUFFICES ASSUME Quiet' PROVE subscribed' /\ ConnectAwaited' /\ Flow'
  BY DEF QuietInv
<1> DEFINE s == message.session
           r == create_connect_response(s)
           n == Len(toGateway)
<1>1. UNCHANGED <<up, subscribed, disturbed, gateway>> /\ sessionId' = s
  BY DEF handle_connect, process
<1>2. Quiet /\ subscribed /\ ConnectAwaited
  BY <1>1 DEF Quiet, QuietInv
<1>3. /\ message.kind = "connect" /\ 1 \in 1 .. Len(toServer) /\ message = toServer[1]
      /\ toServer' \in Seq(ToServer)
      /\ \A i \in 1 .. Len(toServer') :
           /\ s < toServer'[i].session
           /\ toServer'[i] = toServer[i + 1] /\ i + 1 \in 1 .. Len(toServer)
  BY ConnectEffect
<1>4. gateway.phase = "connecting" /\ gateway.session = s
  BY <1>2, <1>3 DEF ConnectAwaited
<1>5. gateway.sent = 0 /\ gateway.answered = 0
  BY <1>4, MessageTypes DEF NumbersInv, GatewayCounts
<1>6. /\ n \in Nat /\ Len(toGateway') = n + 1
      /\ \A k \in 1 .. n : toGateway'[k] = toGateway[k] /\ toGateway[k].session < s
      /\ toGateway'[n + 1] = r /\ r = [kind |-> "connectResponse", session |-> s]
      /\ \A k \in 1 .. n + 1 : k \in 1 .. n \/ k = n + 1
      /\ s \in Nat
  BY ConnectEffect
<1> HIDE DEF s, r, n
<1>7. Len(toServer') = 0 /\ 1 .. Len(toServer') = {}
  <2>1. Len(toServer') \in Nat
    BY <1>3, LenProperties
  <2>2. \A i \in 1 .. Len(toServer') : FALSE
    <3> SUFFICES ASSUME NEW i \in 1 .. Len(toServer') PROVE FALSE
      OBVIOUS
    <3>1. i + 1 \in 1 .. Len(toServer) /\ s < toServer[i + 1].session
      BY <1>3
    <3>2. toServer[i + 1].session <= s /\ toServer[i + 1].session \in Nat
      BY <1>4, <3>1, MessageTypes
    <3> QED
      BY <1>6, <3>1, <3>2
  <2> QED
    BY <2>1, <2>2
<1>8. ConnectAwaited'
  BY <1>7 DEF ConnectAwaited
<1>9. Patient'
  <2>1. Coming("connectResponse")'
    <3>1. n + 1 \in 1 .. Len(toGateway') /\ toGateway'[n + 1].kind = "connectResponse"
          /\ toGateway'[n + 1].session = s
      BY <1>6
    <3> QED
      BY <1>1, <3>1 DEF Coming
  <2> QED
    BY <1>1, <1>4, <2>1 DEF Patient
<1>10. StatusesInFlow' /\ ResponsesComplete'
  BY <1>1, <1>5, <1>7 DEF StatusesInFlow, ResponsesComplete, Read
<1>11. ResponsesInOrder'
  <2>1. \A k \in 1 .. Len(toGateway') :
          ~(toGateway'[k].kind = "statusResponse" /\ toGateway'[k].session = s)
    BY <1>6
  <2> QED
    BY <1>1, <2>1 DEF ResponsesInOrder, IsResponse
<1> QED
  BY <1>1, <1>2, <1>8, <1>9, <1>10, <1>11 DEF Flow

LEMMA StatusQuiet ==
  ASSUME Inv, NumbersInv, QuietInv, Receives, connection_status # 0, message.kind = "status",
         NEW json \in Json, HandleStatus(message, json)
  PROVE  QuietInv'
<1> SUFFICES ASSUME Quiet' PROVE subscribed' /\ ConnectAwaited' /\ Flow'
  BY DEF QuietInv
<1> DEFINE m == message
           r == status_response(m)
           c == command_for(m.device, json)
           n == Len(toGateway)
<1>1. UNCHANGED <<up, subscribed, disturbed, gateway, sessionId>>
  BY DEF HandleStatus, Handles, process
<1>2. subscribed /\ ConnectAwaited /\ Flow
  BY <1>1 DEF Quiet, QuietInv
<1>3. /\ Len(toServer') = Len(toServer) - 1
      /\ \A i \in 1 .. Len(toServer') : toServer'[i] = toServer[i + 1] /\ i + 1 \in 1 .. Len(toServer)
      /\ 1 \in 1 .. Len(toServer) /\ m = toServer[1]
  BY StatusEffect
<1>4. /\ r.kind = "statusResponse" /\ r.session = sessionId /\ r.messageCounter = m.messageCounter
      /\ c.kind = "command" /\ c.session = sessionId
  <2>1. /\ r = [kind |-> "statusResponse", session |-> sessionId, messageCounter |-> m.messageCounter]
        /\ c = [kind |-> "command", session |-> sessionId, messageCounter |-> Len(handled),
                device |-> m.device, data |-> json]
    BY StatusEffect
  <2> HIDE DEF r, c
  <2> QED
    BY <2>1
<1>5. /\ n \in Nat /\ Len(toGateway') = n + 2
      /\ \A k \in 1 .. n : toGateway'[k] = toGateway[k]
      /\ toGateway'[n + 1] = r /\ toGateway'[n + 2] = c
      /\ \A k \in 1 .. n + 2 : k \in 1 .. n \/ k = n + 1 \/ k = n + 2
  BY StatusEffect
<1>6. Len(toServer) \in Nat /\ gateway.sent \in Nat /\ gateway.answered \in Nat
  BY MessageTypes
<1> HIDE DEF m, r, c, n
<1>7. /\ Read \in Int /\ Read' = Read + 1 /\ gateway.answered <= Read
      /\ m.messageCounter = Read
  BY <1>1, <1>2, <1>3, <1>6 DEF Read, Flow, StatusesInFlow
<1>8. ConnectAwaited'
  BY <1>1, <1>2, <1>3 DEF ConnectAwaited
<1>9. Patient'
  <2>1. Coming("connectResponse") => Coming("connectResponse")'
    BY <1>1, <1>5 DEF Coming, n
  <2>2. Coming("command")'
    <3>1. n + 2 \in 1 .. Len(toGateway') /\ toGateway'[n + 2].kind = "command"
          /\ toGateway'[n + 2].session = sessionId
      BY <1>4, <1>5
    <3> QED
      BY <1>1, <3>1 DEF Coming
  <2> QED
    BY <1>1, <1>2, <2>1, <2>2 DEF Flow, Patient
<1>10. StatusesInFlow'
  <2>1. ASSUME NEW i \in 1 .. Len(toServer')
        PROVE  toServer'[i].kind = "status" /\ toServer'[i].messageCounter = Read + 1 + i - 1
    <3>1. toServer'[i] = toServer[i + 1] /\ i + 1 \in 1 .. Len(toServer)
      BY <1>3
    <3>2. IsStatus(i + 1) /\ toServer[i + 1].messageCounter = Read + (i + 1) - 1
      BY <1>2, <3>1 DEF Flow, StatusesInFlow
    <3> QED
      BY <1>7, <3>1, <3>2 DEF IsStatus
  <2>2. Read' >= gateway'.answered
    BY <1>1, <1>6, <1>7
  <2>3. \A i \in 1 .. Len(toServer') :
          toServer'[i].kind = "status" /\ toServer'[i].messageCounter = Read' + i - 1
    BY <1>7, <2>1
  <2> QED
    BY <2>2, <2>3 DEF StatusesInFlow, IsStatus
<1>11. ResponsesInOrder'
  <2>1. ASSUME NEW k \in 1 .. n, IsResponse(k)
        PROVE  /\ gateway.answered <= toGateway[k].messageCounter /\ toGateway[k].messageCounter < Read
               /\ toGateway[k].messageCounter \in Nat
               /\ \A l \in 1 .. n :
                    k < l /\ IsResponse(l) => toGateway[k].messageCounter < toGateway[l].messageCounter
    BY <1>2, <2>1, MessageTypes DEF Flow, ResponsesInOrder, IsResponse, n
  <2> SUFFICES ASSUME NEW k \in 1 .. n + 2,
                      toGateway'[k].kind = "statusResponse", toGateway'[k].session = sessionId
      PROVE  /\ gateway.answered <= toGateway'[k].messageCounter /\ toGateway'[k].messageCounter < Read + 1
             /\ \A l \in 1 .. n + 2 :
                  k < l /\ toGateway'[l].kind = "statusResponse" /\ toGateway'[l].session = sessionId
                    => toGateway'[k].messageCounter < toGateway'[l].messageCounter
    BY <1>1, <1>5, <1>7 DEF ResponsesInOrder, IsResponse
  <2>2. CASE k \in 1 .. n
    <3>1. toGateway'[k] = toGateway[k] /\ IsResponse(k)
      BY <1>5, <2>2 DEF IsResponse
    <3>2. ASSUME NEW l \in 1 .. n + 2, k < l,
                 toGateway'[l].kind = "statusResponse", toGateway'[l].session = sessionId
          PROVE  toGateway'[k].messageCounter < toGateway'[l].messageCounter
      <4>1. CASE l \in 1 .. n
        BY <1>5, <2>1, <2>2, <3>1, <3>2, <4>1 DEF IsResponse
      <4>2. CASE l = n + 1
        BY <1>4, <1>5, <1>7, <2>1, <2>2, <3>1, <4>2
      <4>3. l # n + 2
        BY <1>4, <1>5, <3>2
      <4> QED
        BY <1>5, <4>1, <4>2, <4>3
    <3> QED
      BY <1>6, <1>7, <2>1, <2>2, <3>1, <3>2
  <2>3. CASE k = n + 1
    <3>1. \A l \in 1 .. n + 2 : k < l => l = n + 2
      BY <1>5, <2>3
    <3> QED
      BY <1>4, <1>5, <1>7, <2>3, <3>1
  <2>4. k # n + 2
    BY <1>4, <1>5
  <2> QED
    BY <1>5, <2>2, <2>3, <2>4
<1>12. ResponsesComplete'
  <2> SUFFICES ASSUME NEW x \in gateway.answered .. Read
      PROVE  \E k \in 1 .. n + 2 :
               /\ toGateway'[k].kind = "statusResponse" /\ toGateway'[k].session = sessionId
               /\ toGateway'[k].messageCounter = x
    <3>1. gateway'.answered .. Read' - 1 = gateway.answered .. Read
      BY <1>1, <1>6, <1>7
    <3> QED
      BY <1>1, <1>5, <3>1 DEF ResponsesComplete, IsResponse
  <2>1. CASE x = Read
    BY <1>4, <1>5, <1>7, <2>1
  <2>2. CASE x # Read
    <3>1. x \in gateway.answered .. Read - 1
      BY <1>6, <1>7, <2>2
    <3>2. PICK k \in 1 .. n : IsResponse(k) /\ toGateway[k].messageCounter = x
      BY <1>2, <3>1 DEF Flow, ResponsesComplete, n
    <3>3. k \in 1 .. n + 2 /\ toGateway'[k] = toGateway[k]
      BY <1>5
    <3> QED
      BY <3>2, <3>3 DEF IsResponse
  <2> QED
    BY <2>1, <2>2
<1> QED
  BY <1>1, <1>2, <1>8, <1>9, <1>10, <1>11, <1>12 DEF Flow

\* A gateway that is served does not connect anew as long as it is patient.
LEMMA GatewayConnectsQuiet == ASSUME Inv, QuietInv, GatewayConnects PROVE QuietInv'
<1> SUFFICES ASSUME Quiet' PROVE subscribed' /\ ConnectAwaited' /\ connection_status' = 0
  BY DEF QuietInv
<1> DEFINE s == gateway.session + 1
           n == Len(toServer)
<1>1. /\ gateway.phase = "idle"
      /\ gateway' = [phase |-> "connecting", session |-> s, sent |-> 0, answered |-> 0, commands |-> 0]
      /\ Sends(Connect(s))
      /\ UNCHANGED <<up, subscribed, disturbed, connection_status>>
  BY DEF GatewayConnects, process, globals
<1>2. Quiet /\ subscribed /\ ConnectAwaited /\ (connection_status # 0 => Flow)
  BY <1>1 DEF Quiet, QuietInv
<1>3. connection_status = 0
  BY <1>1, <1>2 DEF Flow, Patient
<1>4. /\ Connect(s) = [kind |-> "connect", session |-> s] /\ Connect(s) \in ToServer
  BY MessageTypes DEF Connect, ToServer
<1>5. \A i \in 1 .. Len(toServer') : toServer'[i] = Connect(s) \/ (i \in 1 .. n /\ toServer'[i] = toServer[i])
  BY <1>1, <1>4, SendsAppends DEF Inv, Types
<1>6. \A i \in 1 .. n : toServer[i].kind # "connect"
  BY <1>1, <1>2 DEF ConnectAwaited, n
<1>7. gateway'.phase = "connecting" /\ gateway'.session = s
  BY <1>1
<1> HIDE DEF s, n
<1>8. ConnectAwaited'
  BY <1>4, <1>5, <1>6, <1>7 DEF ConnectAwaited
<1> QED
  BY <1>1, <1>2, <1>3, <1>8

LEMMA GatewayReportsQuiet ==
  ASSUME Inv, QuietInv, NEW d \in Device, NEW readable \in BOOLEAN, GatewayReports(d, readable)
  PROVE  QuietInv'
<1> SUFFICES ASSUME Quiet' PROVE subscribed' /\ ConnectAwaited' /\ (connection_status' # 0 => Flow')
  BY DEF QuietInv
<1> DEFINE m == Status(gateway.session, gateway.sent, d, readable)
           n == Len(toServer)
<1>0. gateway.sent \in Nat /\ gateway.answered \in Nat /\ gateway.session \in Nat /\ n \in Nat
  BY MessageTypes
<1>1. /\ gateway.phase \in {"reporting", "connected"}
      /\ gateway' = [gateway EXCEPT !.sent = @ + 1] /\ Sends(m)
      /\ UNCHANGED <<up, subscribed, disturbed, connection_status, sessionId, toGateway>>
  BY DEF GatewayReports, process, globals
<1>2. Quiet /\ up /\ subscribed /\ ConnectAwaited /\ (connection_status # 0 => Flow)
  BY <1>1 DEF Quiet, QuietInv
<1>3. m.kind = "status" /\ m.messageCounter = gateway.sent /\ m \in ToServer
  BY <1>0 DEF Status, ToServer, Statuses
<1> HIDE DEF m
<1>4. /\ Len(toServer') = n + 1
      /\ \A i \in 1 .. n : toServer'[i] = toServer[i]
      /\ toServer'[n + 1] = m
      /\ \A i \in 1 .. n + 1 : i \in 1 .. n \/ i = n + 1
  BY <1>0, <1>1, <1>2, <1>3, AppendProperties DEF Sends, Inv, Types
<1>5. /\ gateway'.session = gateway.session /\ gateway'.sent = gateway.sent + 1
      /\ gateway'.answered = gateway.answered /\ gateway'.phase = gateway.phase
  BY <1>1 DEF Inv, Types
<1>6. ConnectAwaited'
  <2>1. \A i \in 1 .. n : toServer[i].kind # "connect"
    BY <1>1, <1>2 DEF ConnectAwaited, n
  <2>2. \A i \in 1 .. n + 1 : toServer'[i].kind # "connect"
    BY <1>3, <1>4, <2>1
  <2> QED
    BY <1>4, <2>2 DEF ConnectAwaited
<1>7. ASSUME connection_status # 0 PROVE Flow'
  <2>0. Patient /\ StatusesInFlow /\ ResponsesInOrder /\ ResponsesComplete
    BY <1>2, <1>7 DEF Flow
  <2>1. Read' = Read /\ Read = gateway.sent - n
    BY <1>0, <1>4, <1>5 DEF Read
  <2> HIDE DEF n
  <2>2. Patient'
    <3>1. toServer' # <<>>
      <4>1. Len(toServer') # 0
        BY <1>0, <1>4
      <4> QED
        BY <4>1, EmptySeq
    <3> QED
      BY <1>1, <1>5, <2>0, <3>1 DEF Patient
  <2>3. StatusesInFlow'
    <3>1. ASSUME NEW i \in 1 .. n + 1
          PROVE  toServer'[i].kind = "status" /\ toServer'[i].messageCounter = Read + i - 1
      <4>1. CASE i \in 1 .. n
        <5>1. IsStatus(i) /\ toServer[i].messageCounter = Read + i - 1
          BY <2>0, <4>1 DEF StatusesInFlow, n
        <5> QED
          BY <1>4, <4>1, <5>1 DEF IsStatus
      <4>2. CASE i = n + 1
        BY <1>0, <1>3, <1>4, <2>1, <4>2
      <4> QED
        BY <1>4, <4>1, <4>2
    <3>2. Read' >= gateway'.answered
      BY <1>5, <2>0, <2>1 DEF StatusesInFlow
    <3>3. \A i \in 1 .. Len(toServer') :
            toServer'[i].kind = "status" /\ toServer'[i].messageCounter = Read' + i - 1
      BY <1>4, <2>1, <3>1
    <3> QED
      BY <3>2, <3>3 DEF StatusesInFlow, IsStatus
  <2>4. ResponsesInOrder' /\ ResponsesComplete'
    BY <1>1, <1>5, <2>0, <2>1 DEF ResponsesInOrder, ResponsesComplete, IsResponse
  <2> QED
    BY <2>2, <2>3, <2>4 DEF Flow
<1> QED
  BY <1>1, <1>2, <1>6, <1>7

LEMMA GatewayReceivesQuiet == ASSUME Inv, NumbersInv, QuietInv, GatewayReceives PROVE QuietInv'
<1> SUFFICES ASSUME Quiet' PROVE subscribed' /\ ConnectAwaited' /\ (connection_status' # 0 => Flow')
  BY DEF QuietInv
<1> DEFINE m == Head(toGateway)
           n == Len(toGateway)
           own == m.session = gateway.session /\ gateway.phase # "idle"
<1>1. /\ toGateway # <<>> /\ toGateway' = Tail(toGateway)
      /\ UNCHANGED <<up, subscribed, disturbed, connection_status, sessionId, toServer>>
      /\ gateway' = IF own THEN Learns(m) ELSE gateway
  BY DEF GatewayReceives, process, globals
<1>2. /\ Len(toGateway') = n - 1
      /\ \A k \in 1 .. n - 1 : toGateway'[k] = toGateway[k + 1] /\ k + 1 \in 1 .. n
      /\ 1 \in 1 .. n /\ m = toGateway[1] /\ n \in Nat
  BY <1>1, TailThins, MessageTypes DEF Inv, Types
<1>3. Quiet /\ subscribed /\ ConnectAwaited /\ (connection_status # 0 => Flow)
  BY <1>1 DEF Quiet, QuietInv
<1> HIDE DEF m, n
<1>4. ConnectAwaited'
  <2> SUFFICES ASSUME NEW i \in 1 .. Len(toServer), toServer[i].kind = "connect"
      PROVE  gateway' = gateway
    BY <1>1, <1>3 DEF ConnectAwaited
  <2>1. toServer[i].session = gateway.session /\ m.session < toServer[i].session
    BY <1>2, <1>3 DEF ConnectAwaited, Inv, ConnectIsNews, n
  <2>2. gateway.session \in Nat
    BY MessageTypes
  <2> QED
    BY <1>1, <2>1, <2>2
<1>5. ASSUME connection_status # 0 PROVE Flow'
  <2>0. Patient /\ StatusesInFlow /\ ResponsesInOrder /\ ResponsesComplete
    BY <1>3, <1>5 DEF Flow
  <2>1. gateway.session = sessionId /\ gateway.phase # "idle"
    BY <2>0 DEF Patient
  <2>2. /\ gateway.sent \in Nat /\ gateway.answered \in Nat /\ Len(toServer) \in Nat
        /\ \A k \in 1 .. n : IsResponse(k) => toGateway[k].messageCounter \in Nat
    BY MessageTypes DEF IsResponse, n
  <2>3. Read \in Int /\ gateway.answered <= Read
    BY <2>0, <2>2 DEF StatusesInFlow, Read
  <2>4. \A k \in 1 .. n :
          IsResponse(k) =>
            /\ gateway.answered <= toGateway[k].messageCounter /\ toGateway[k].messageCounter < Read
            /\ \A l \in 1 .. n :
                 k < l /\ IsResponse(l) => toGateway[k].messageCounter < toGateway[l].messageCounter
    BY <2>0 DEF ResponsesInOrder, n
  <2>5. \A x \in gateway.answered .. Read - 1 :
          \E k \in 1 .. n : IsResponse(k) /\ toGateway[k].messageCounter = x
    BY <2>0 DEF ResponsesComplete, n
  \* The first message, if it is a response, is the one the gateway waits for.
  <2>6. IsResponse(1) => toGateway[1].messageCounter = gateway.answered
    <3> SUFFICES ASSUME IsResponse(1) PROVE toGateway[1].messageCounter = gateway.answered
      OBVIOUS
    <3>1. gateway.answered \in gateway.answered .. Read - 1
      BY <1>2, <2>2, <2>3, <2>4
    <3>2. PICK k \in 1 .. n : IsResponse(k) /\ toGateway[k].messageCounter = gateway.answered
      BY <2>5, <3>1
    <3>3. k = 1
      <4>1. 1 < k => toGateway[1].messageCounter < toGateway[k].messageCounter
        BY <1>2, <2>4, <3>2
      <4>2. gateway.answered <= toGateway[1].messageCounter /\ toGateway[1].messageCounter \in Nat
        BY <1>2, <2>2, <2>4
      <4> QED
        BY <1>2, <2>2, <3>2, <4>1, <4>2
    <3> QED
      BY <3>2, <3>3
  <2>7. /\ gateway'.session = gateway.session /\ gateway'.sent = gateway.sent
        /\ gateway'.phase # "idle"
        /\ gateway'.answered = IF IsResponse(1) THEN gateway.answered + 1 ELSE gateway.answered
        /\ gateway'.phase = "connecting" =>
             gateway.phase = "connecting" /\ ~(m.kind = "connectResponse" /\ m.session = sessionId)
        /\ gateway'.phase = "reporting" /\ gateway.sent > 0 =>
             gateway.phase = "reporting" /\ ~(m.kind = "command" /\ m.session = sessionId)
    <3>0. gateway.phase = "connecting" => gateway.sent = 0
      BY DEF NumbersInv, GatewayCounts
    <3>1. CASE m.session = sessionId
      <4>0. gateway' = Learns(m)
        BY <1>1, <2>1, <3>1
      <4>1. /\ gateway'.session = gateway.session /\ gateway'.sent = gateway.sent
            /\ \/ /\ m.kind = "connectResponse" /\ gateway.phase = "connecting"
                  /\ gateway'.phase = "reporting" /\ gateway'.answered = gateway.answered
                  /\ gateway'.commands = gateway.commands
               \/ /\ m.kind = "statusResponse" /\ m.messageCounter = gateway.answered
                  /\ gateway'.phase = gateway.phase /\ gateway'.answered = gateway.answered + 1
                  /\ gateway'.commands = gateway.commands
               \/ /\ m.kind = "command"
                  /\ gateway'.phase = "connected" /\ gateway'.answered = gateway.answered
                  /\ gateway'.commands = m.messageCounter + 1
               \/ /\ ~(m.kind = "connectResponse" /\ gateway.phase = "connecting")
                  /\ ~(m.kind = "statusResponse" /\ m.messageCounter = gateway.answered)
                  /\ m.kind # "command"
                  /\ gateway' = gateway
        BY <4>0, LearnsEffect
      <4>2. IsResponse(1) <=> m.kind = "statusResponse"
        BY <1>2, <3>1 DEF IsResponse
      <4>3. m.kind = "statusResponse" => m.messageCounter = gateway.answered
        BY <1>2, <2>6, <4>2
      <4> QED
        BY <2>1, <2>2, <3>0, <4>1, <4>2, <4>3
    <3>2. CASE m.session # sessionId
      <4>1. gateway' = gateway /\ ~IsResponse(1)
        BY <1>1, <1>2, <2>1, <3>2 DEF IsResponse
      <4> QED
        BY <2>1, <2>2, <3>0, <3>2, <4>1
    <3> QED
      BY <3>1, <3>2
  <2>8. Read' = Read
    BY <1>1, <2>7 DEF Read
  <2>9. \A k \in 2 .. n : k - 1 \in 1 .. n - 1 /\ toGateway'[k - 1] = toGateway[k]
    <3> SUFFICES ASSUME NEW k \in 2 .. n PROVE k - 1 \in 1 .. n - 1 /\ toGateway'[k - 1] = toGateway[k]
      OBVIOUS
    <3>1. k - 1 \in 1 .. n - 1 /\ (k - 1) + 1 = k
      BY <1>2
    <3> QED
      BY <1>2, <3>1
  <2>10. Patient'
    <3>1. ASSUME NEW kind, Coming(kind), ~(m.kind = kind /\ m.session = sessionId)
          PROVE  Coming(kind)'
      <4>1. PICK k \in 1 .. n : toGateway[k].kind = kind /\ toGateway[k].session = sessionId
        BY <3>1 DEF Coming, n
      <4>2. k \in 2 .. n
        BY <1>2, <3>1, <4>1
      <4>3. k - 1 \in 1 .. n - 1 /\ toGateway'[k - 1] = toGateway[k]
        BY <2>9, <4>2
      <4> QED
        BY <1>1, <1>2, <4>1, <4>3 DEF Coming
    <3>2. gateway'.phase = "connecting" => Coming("connectResponse")'
      BY <2>0, <2>7, <3>1 DEF Patient
    <3>3. gateway'.phase = "reporting" /\ gateway.sent > 0 => toServer # <<>> \/ Coming("command")'
      BY <2>0, <2>7, <3>1 DEF Patient
    <3> QED
      BY <1>1, <2>1, <2>7, <3>2, <3>3 DEF Patient
  <2>11. StatusesInFlow'
    <3>1. gateway'.answered <= Read
      BY <1>2, <2>2, <2>3, <2>4, <2>6, <2>7
    <3> QED
      BY <1>1, <2>0, <2>2, <2>3, <2>7, <2>8, <3>1 DEF StatusesInFlow, IsStatus
  <2>12. ResponsesInOrder'
    <3> SUFFICES ASSUME NEW k \in 1 .. n - 1,
                        toGateway'[k].kind = "statusResponse", toGateway'[k].session = sessionId
        PROVE  /\ gateway'.answered <= toGateway'[k].messageCounter /\ toGateway'[k].messageCounter < Read
               /\ \A l \in 1 .. n - 1 :
                    k < l /\ toGateway'[l].kind = "statusResponse" /\ toGateway'[l].session = sessionId
                      => toGateway'[k].messageCounter < toGateway'[l].messageCounter
      BY <1>1, <1>2, <2>8 DEF ResponsesInOrder, IsResponse
    <3>1. /\ k + 1 \in 1 .. n /\ toGateway'[k] = toGateway[k + 1] /\ IsResponse(k + 1) /\ 1 < k + 1
      BY <1>2 DEF IsResponse
    <3>2. /\ gateway.answered <= toGateway[k + 1].messageCounter /\ toGateway[k + 1].messageCounter < Read
          /\ toGateway[k + 1].messageCounter \in Nat
          /\ \A l \in 1 .. n :
               k + 1 < l /\ IsResponse(l) => toGateway[k + 1].messageCounter < toGateway[l].messageCounter
      BY <2>2, <2>4, <3>1
    <3>3. IsResponse(1) => gateway.answered < toGateway[k + 1].messageCounter
      BY <1>2, <2>4, <2>6, <3>1
    <3>4. gateway'.answered <= toGateway[k + 1].messageCounter
      BY <2>2, <2>7, <3>2, <3>3
    <3>5. ASSUME NEW l \in 1 .. n - 1, k < l,
                 toGateway'[l].kind = "statusResponse", toGateway'[l].session = sessionId
          PROVE  toGateway'[k].messageCounter < toGateway'[l].messageCounter
      <4>1. l + 1 \in 1 .. n /\ toGateway'[l] = toGateway[l + 1] /\ k + 1 < l + 1 /\ IsResponse(l + 1)
        BY <1>2, <3>5 DEF IsResponse
      <4> QED
        BY <3>1, <3>2, <4>1
    <3> QED
      BY <3>1, <3>2, <3>4, <3>5
  <2>13. ResponsesComplete'
    <3> SUFFICES ASSUME NEW x \in gateway'.answered .. Read - 1
        PROVE  \E k \in 1 .. n - 1 :
                 /\ toGateway'[k].kind = "statusResponse" /\ toGateway'[k].session = sessionId
                 /\ toGateway'[k].messageCounter = x
      BY <1>1, <1>2, <2>8 DEF ResponsesComplete, IsResponse
    <3>1. x \in gateway.answered .. Read - 1
      BY <2>2, <2>3, <2>7
    <3>2. PICK k \in 1 .. n : IsResponse(k) /\ toGateway[k].messageCounter = x
      BY <2>5, <3>1
    <3>3. k # 1
      BY <2>2, <2>6, <2>7, <3>2
    <3>4. k - 1 \in 1 .. n - 1 /\ toGateway'[k - 1] = toGateway[k]
      BY <1>2, <2>9, <3>3
    <3> QED
      BY <3>2, <3>4 DEF IsResponse
  <2> QED
    BY <2>10, <2>11, <2>12, <2>13 DEF Flow
<1> QED
  BY <1>1, <1>3, <1>4, <1>5

\* A gateway that the server hears never waits in vain.
LEMMA Heard == ASSUME Inv, Flow, toServer = <<>>, toGateway = <<>> PROVE ~Unanswered
<1>1. Len(toServer) = 0 /\ 1 .. Len(toGateway) = {}
  BY EmptySeq
<1>2. gateway.sent \in Nat /\ gateway.answered \in Nat
  BY MessageTypes
<1>3. ~(gateway.answered < gateway.sent)
  <2> SUFFICES ASSUME gateway.answered < gateway.sent PROVE FALSE
    OBVIOUS
  <2>1. gateway.answered \in gateway.answered .. Read - 1
    BY <1>1, <1>2 DEF Read
  <2> QED
    BY <1>1, <2>1 DEF Flow, ResponsesComplete
<1> QED
  BY <1>1, <1>3 DEF Unanswered, Flow, Patient, Coming

LEMMA GivesUpQuiet == ASSUME Inv, QuietInv, GatewayGivesUp PROVE QuietInv'
<1> SUFFICES ASSUME Quiet' PROVE subscribed' /\ ConnectAwaited' /\ connection_status' = 0
  BY DEF QuietInv
<1>1. /\ disturbed' = (disturbed \/ ~Unanswered)
      /\ UNCHANGED <<up, subscribed, connection_status, toServer>>
  BY DEF GatewayGivesUp, process, globals
<1>2. Unanswered /\ Quiet
  BY <1>1 DEF Quiet
<1>3. subscribed /\ connection_status = 0
  BY <1>2, Heard DEF QuietInv, Unanswered
<1>4. 1 .. Len(toServer) = {}
  BY <1>2, EmptySeq DEF Unanswered
<1> QED
  BY <1>1, <1>3, <1>4 DEF ConnectAwaited

\* As long as no fault occurs, a running server and the gateway agree on what
\* has been sent, read and answered.
THEOREM QuietHolds == Spec => []QuietInv
<1>1. Init => QuietInv
  BY DEF Init, QuietInv, Quiet
<1>2. ASSUME Inv, NumbersInv, QuietInv, [Next]_vars PROVE QuietInv'
  <2>1. CASE Start
    BY <1>2, <2>1, StartQuiet
  <2>2. CASE UNCHANGED vars
    BY <1>2, <2>2, SameQuiet
  <2>3. CASE Reconnect \/ Lose
    BY <2>3 DEF Reconnect, Lose, QuietInv, Quiet
  <2>4. CASE Stop \/ UnreadableStatus
    BY <2>4 DEF Stop, UnreadableStatus, Ends, QuietInv, Quiet
  <2>5. CASE ConnectExpected \/ ConnectIgnored
    BY <1>2, <2>5, IgnoredQuiet
  <2>6. CASE handle_connect
    BY <1>2, <2>6, ConnectQuiet
  <2>7. CASE FirstStatus \/ LaterStatus
    <3>1. PICK json \in Json : HandleStatus(message, json)
      BY <2>7 DEF FirstStatus, LaterStatus, Json
    <3>2. Receives /\ connection_status # 0 /\ message.kind = "status"
      BY <2>7 DEF FirstStatus, LaterStatus
    <3> QED
      BY <1>2, <3>1, <3>2, StatusQuiet
  <2>8. CASE GatewayConnects
    BY <1>2, <2>8, GatewayConnectsQuiet
  <2>9. CASE \E d \in Device, readable \in BOOLEAN : GatewayReports(d, readable)
    BY <1>2, <2>9, GatewayReportsQuiet
  <2>10. CASE GatewayReceives
    BY <1>2, <2>10, GatewayReceivesQuiet
  <2>11. CASE GatewayGivesUp
    BY <1>2, <2>11, GivesUpQuiet
  <2> QED
    BY <1>2, <2>1, <2>2, <2>3, <2>4, <2>5, <2>6, <2>7, <2>8, <2>9, <2>10, <2>11 DEF Next, on_message
<1> QED
  BY <1>1, <1>2, InvHolds, NumbersHold, PTL DEF Spec

\* A gateway that waits in vain for its connect meets a server in state 0 that
\* can hear it, unless a fault occurred since the server's start.
THEOREM DeafAfterFault == Spec => []DeafOnlyAfterFault
<1>1. Inv /\ QuietInv => DeafOnlyAfterFault
  BY Heard DEF QuietInv, Quiet, DeafOnlyAfterFault, Unanswered
<1> QED
  BY <1>1, InvHolds, QuietHolds, PTL

\* Without faults each status of the session that is served is on its way, or
\* its answer is, or the answer has arrived.
THEOREM StatusesAccounted == Spec => []EveryStatusAccounted
<1>1. Inv /\ QuietInv => EveryStatusAccounted
  <2> SUFFICES ASSUME Inv, QuietInv, up, ~disturbed, sessionId = gateway.session, sessionId # 0
      PROVE  gateway.sent = gateway.answered
                              + Under(toServer, "status", sessionId)
                              + Under(toGateway, "statusResponse", sessionId)
    BY DEF EveryStatusAccounted, NoSession
  <2>1. connection_status # 0 /\ Flow
    BY DEF Inv, GlobalsAgree, QuietInv, Quiet
  <2>2. /\ Len(toServer) \in Nat /\ Len(toGateway) \in Nat
        /\ gateway.sent \in Nat /\ gateway.answered \in Nat
        /\ \A k \in 1 .. Len(toGateway) : IsResponse(k) => toGateway[k].messageCounter \in Nat
        /\ DOMAIN toServer = 1 .. Len(toServer) /\ DOMAIN toGateway = 1 .. Len(toGateway)
    BY MessageTypes, LenProperties DEF IsResponse, Inv, Types
  <2>3. Read \in Int /\ gateway.answered <= Read /\ Read = gateway.sent - Len(toServer)
    BY <2>1, <2>2 DEF Flow, StatusesInFlow, Read
  <2>4. Under(toServer, "status", sessionId) = Len(toServer)
    <3>1. {i \in DOMAIN toServer : toServer[i].kind = "status" /\ toServer[i].session = sessionId}
            = 1 .. Len(toServer)
      BY <2>1, <2>2 DEF Flow, StatusesInFlow, IsStatus, Inv, OneSession
    <3>2. Cardinality(1 .. Len(toServer)) = Len(toServer)
      <4> DEFINE l == Len(toServer)
      <4>1. l \in Nat /\ l \in Int /\ 1 \in Int
        BY <2>2
      <4> HIDE DEF l
      <4>2. Cardinality(1 .. l) = IF 1 > l THEN 0 ELSE l - 1 + 1
        BY <4>1, FS_Interval
      <4> QED
        BY <4>1, <4>2 DEF l
    <3> QED
      BY <3>1, <3>2 DEF Under
  <2>5. Under(toGateway, "statusResponse", sessionId) = Read - gateway.answered
    <3> DEFINE K == {k \in 1 .. Len(toGateway) : IsResponse(k)}
               R == gateway.answered .. Read - 1
               f == [k \in K |-> toGateway[k].messageCounter]
    <3>1. IsFiniteSet(R) /\ Cardinality(R) = Read - gateway.answered
      <4> DEFINE a == gateway.answered
                 b == Read - 1
      <4>1. a \in Int /\ b \in Int /\ a <= b + 1 /\ b - a + 1 = Read - gateway.answered
        BY <2>2, <2>3
      <4> HIDE DEF a, b
      <4>2. IsFiniteSet(a .. b) /\ Cardinality(a .. b) = IF a > b THEN 0 ELSE b - a + 1
        BY <4>1, FS_Interval
      <4>3. Cardinality(a .. b) = b - a + 1
        BY <4>1, <4>2
      <4> QED
        BY <4>1, <4>2, <4>3 DEF a, b
    <3>2. IsFiniteSet(K)
      <4> DEFINE l == Len(toGateway)
      <4>1. l \in Int /\ 1 \in Int
        BY <2>2
      <4> HIDE DEF l
      <4>2. IsFiniteSet(1 .. l)
        BY <4>1, FS_Interval
      <4>3. K \subseteq 1 .. l
        BY DEF l
      <4> QED
        BY <4>2, <4>3, FS_Subset
    <3>3. f \in [K -> R]
      BY <2>1, <2>2, <2>3 DEF Flow, ResponsesInOrder
    <3>4. ASSUME NEW a \in K, NEW b \in K, f[a] = f[b] PROVE a = b
      <4>1. f[a] \in Nat /\ f[b] \in Nat /\ a \in Nat /\ b \in Nat
        BY <2>2
      <4>2. (a < b => f[a] < f[b]) /\ (b < a => f[b] < f[a])
        BY <2>1 DEF Flow, ResponsesInOrder
      <4> HIDE DEF f, K
      <4> QED
        BY <3>4, <4>1, <4>2
    <3>5. \A c \in R : \E k \in K : f[k] = c
      BY <2>1 DEF Flow, ResponsesComplete
    <3>6. DOMAIN f = K
      OBVIOUS
    <3> HIDE DEF f, R
    <3>7. f \in Bijection(K, R)
      BY <3>3, <3>4, <3>5, <3>6 DEF Bijection, Injection, Surjection, IsInjective
    <3>8. Cardinality(K) = Cardinality(R)
      BY <3>1, <3>2, <3>7, FS_Bijection DEF ExistsBijection
    <3>9. {k \in DOMAIN toGateway : toGateway[k].kind = "statusResponse" /\ toGateway[k].session = sessionId} = K
      BY <2>2 DEF IsResponse
    <3> QED
      BY <3>1, <3>8, <3>9 DEF Under
  <2> QED
    BY <2>2, <2>3, <2>4, <2>5
<1> QED
  BY <1>1, InvHolds, QuietHolds, PTL
=============================================================================
