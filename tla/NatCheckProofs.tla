--------------------------- MODULE NatCheckProofs ---------------------------
(***************************************************************************)
(* What NatCheck says, for any ports, any number of receives and of copies.*)
(***************************************************************************)
EXTENDS NatCheck, TLAPS

\* A server named another port than the first one saw.
OtherNamed == mapped1 # mapped2 \/ pushed \notin {NoPort, mapped1}

\* A mapping stands for what the first server saw, and claims a symmetric NAT
\* only if a server named another port.
Genuine(port, type) ==
    port \in {NoPort, mapped1} /\ (type = 5 => OtherNamed)

\* What register knows where: rounds are left until the loop is over, and who
\* has left it without raising has a mapping.
Known ==
    /\ pc \in {"getsrv", "ask", "loop"} => rounds # 0
    /\ pc \in {"decide", "info", "put", "done"} => wanPort1 = mapped1
    /\ pc = "done" =>
           confirmed /\ published = [port |-> wanPort1, nattype |-> nattype]

\* Of the datagrams on their way none exceeds the one that was asked for and
\* the copies: an answer takes the place of its question.
Sent ==
    /\ pc \in {"getsrv", "ask"} =>
           net["askOne"] + net["NatOne"] + net["NatCheckData"] = 0
    /\ pc \in {"getsrv", "ask", "loop", "decide"} =>
           net["askInfo"] + net["NatGetInfo"] = 0
    /\ net["askOne"] + net["NatOne"] <= 1 + copies
    /\ net["askOne"] + net["NatCheckData"] <= 1 + copies
    /\ net["askInfo"] + net["NatGetInfo"] <= 1 + copies

\* The types, but for the bound on the datagrams that Sent adds.
Types ==
    /\ pc \in {"getsrv", "ask", "loop", "decide", "info", "put", "done",
               "failed"}
    /\ rounds \in 0..Receives
    /\ wanPort1 \in Ports \cup {NoPort}
    /\ nattype \in {0, 5}
    /\ published \in [port : Ports \cup {NoPort}, nattype : {0, 5}]
    /\ confirmed \in BOOLEAN
    /\ mapped1 \in Ports /\ mapped2 \in Ports
    /\ pushed \in Ports \cup {NoPort}
    /\ net \in [Datagrams -> Nat]
    /\ copies \in 0..MaxCopies
    /\ answered \in BOOLEAN

Inv ==
    /\ Types
    /\ Genuine(wanPort1, nattype)
    /\ Genuine(published.port, published.nattype)
    /\ Known
    /\ Sent

-----------------------------------------------------------------------------
(***************************************************************************)
(* The datagrams.                                                          *)
(***************************************************************************)

LEMMA NoneOfThree ==
    ASSUME NEW a \in Nat, NEW b \in Nat, NEW c \in Nat, a + b + c = 0
    PROVE  a = 0 /\ b = 0 /\ c = 0
OBVIOUS

\* While nothing is sent or copied, and register does not go back, Sent stays.
LEMMA FewerSent ==
    ASSUME Types, Sent, net' \in [Datagrams -> Nat],
           \A d \in Datagrams : net'[d] <= net[d],
           copies' = copies,
           pc' \in {"getsrv", "ask"} => pc \in {"getsrv", "ask"},
           pc' \in {"getsrv", "ask", "loop", "decide"} =>
               pc \in {"getsrv", "ask", "loop", "decide"}
    PROVE  Sent'
<1>1. \A d \in Datagrams : net[d] \in Nat /\ net'[d] \in Nat
    BY DEF Types
<1>2. copies \in Nat
    BY MaxCopiesAssumption DEF Types
<1> DEFINE Fewer(d) ==
        net[d] \in Nat /\ net'[d] \in Nat /\ net'[d] <= net[d]
<1>3. /\ Fewer("askOne") /\ Fewer("NatOne") /\ Fewer("NatCheckData")
      /\ Fewer("askInfo") /\ Fewer("NatGetInfo")
    BY <1>1 DEF Datagrams
<1>4. net'["askOne"] + net'["NatOne"] <= 1 + copies'
    BY <1>2, <1>3 DEF Sent
<1>5. net'["askOne"] + net'["NatCheckData"] <= 1 + copies'
    BY <1>2, <1>3 DEF Sent
<1>6. net'["askInfo"] + net'["NatGetInfo"] <= 1 + copies'
    BY <1>2, <1>3 DEF Sent
<1>7. pc' \in {"getsrv", "ask"} =>
          net'["askOne"] + net'["NatOne"] + net'["NatCheckData"] = 0
  <2> SUFFICES ASSUME pc \in {"getsrv", "ask"}
               PROVE  net'["askOne"] + net'["NatOne"] + net'["NatCheckData"]
                          = 0
      BY Zenon
  <2>1. net["askOne"] + net["NatOne"] + net["NatCheckData"] = 0
      BY DEF Sent
  <2>2. /\ net["askOne"] = 0 /\ net["NatOne"] = 0
        /\ net["NatCheckData"] = 0
    <3>1. /\ net["askOne"] \in Nat /\ net["NatOne"] \in Nat
          /\ net["NatCheckData"] \in Nat
        BY <1>3
    <3> QED
        BY <2>1, <3>1, NoneOfThree
  <2> QED
      BY <2>2, <1>3
<1>8. pc' \in {"getsrv", "ask", "loop", "decide"} =>
          net'["askInfo"] + net'["NatGetInfo"] = 0
    BY <1>3 DEF Sent
<1> QED
    BY <1>4, <1>5, <1>6, <1>7, <1>8 DEF Sent

\* Receiving or losing a datagram.
LEMMA TakeFewer ==
    ASSUME Types, NEW d \in Datagrams, Take(d)
    PROVE  /\ net' \in [Datagrams -> Nat]
           /\ \A e \in Datagrams : net'[e] <= net[e]
<1>1. net[d] - 1 \in Nat
    BY DEF Types, Take
<1>2. net' = [net EXCEPT ![d] = net[d] - 1]
    BY DEF Take
<1>3. net' \in [Datagrams -> Nat]
    BY <1>1, <1>2 DEF Types
<1>4. \A e \in Datagrams : net'[e] = IF e = d THEN net[d] - 1 ELSE net[e]
    BY <1>2 DEF Types
<1>5. \A e \in Datagrams : net[e] \in Nat
    BY DEF Types
<1> QED
    BY <1>3, <1>4, <1>5

\* A step that leaves the datagrams alone.
LEMMA SameFewer ==
    ASSUME Types, net' = net
    PROVE  /\ net' \in [Datagrams -> Nat]
           /\ \A e \in Datagrams : net'[e] <= net[e]
<1>1. \A e \in Datagrams : net[e] \in Nat
    BY DEF Types
<1> QED
    BY <1>1 DEF Types

\* Sending or copying a datagram.
LEMMA PutMore ==
    ASSUME Types, NEW d \in Datagrams, Put(d)
    PROVE  /\ net' \in [Datagrams -> Nat]
           /\ \A e \in Datagrams :
                  net'[e] = IF e = d THEN net[e] + 1 ELSE net[e]
<1>1. net' = [net EXCEPT ![d] = net[d] + 1] /\ net[d] + 1 \in Nat
    BY DEF Types, Put
<1> QED
    BY <1>1 DEF Types

-----------------------------------------------------------------------------
(***************************************************************************)
(* The steps of register.                                                  *)
(***************************************************************************)

LEMMA InitInv == Init => Inv
<1> SUFFICES ASSUME Init PROVE Inv
    OBVIOUS
<1>1. Types
  <2>1. net \in [Datagrams -> Nat]
      BY DEF Init
  <2>2. published \in [port : Ports \cup {NoPort}, nattype : {0, 5}]
      BY DEF Init, Nothing
  <2>3. rounds \in 0..Receives /\ copies \in 0..MaxCopies
      BY ReceivesAssumption, MaxCopiesAssumption DEF Init
  <2> QED
      BY <2>1, <2>2, <2>3 DEF Init, Types
<1>2. \A d \in Datagrams : net[d] = 0
    BY DEF Init
<1>3. Sent
    BY <1>2 DEF Init, Sent, Datagrams
<1>4. Genuine(wanPort1, nattype)
    BY DEF Init, Genuine, OtherNamed
<1>5. Genuine(published.port, published.nattype)
    BY DEF Init, Genuine, OtherNamed, Nothing
<1>6. Known
    BY ReceivesAssumption DEF Init, Known
<1> QED
    BY <1>1, <1>3, <1>4, <1>5, <1>6 DEF Inv

\* The tcp rpcs.
LEMMA RpcInv == ASSUME Inv, GetSrv \/ Publish PROVE Inv'
<1>1. net' = net /\ copies' = copies /\ UNCHANGED nat
    BY DEF GetSrv, Publish, wire, nat, client, server
<1>2. Types'
  <2>1. published' \in [port : Ports \cup {NoPort}, nattype : {0, 5}]
      BY DEF Inv, Types, GetSrv, Publish, server
  <2>2. confirmed' \in BOOLEAN
      BY DEF Inv, Types, GetSrv, Publish, server
  <2>3. pc' \in {"ask", "failed", "done"}
      BY DEF GetSrv, Publish, Goto
  <2>4. UNCHANGED <<rounds, wanPort1, nattype, mapped1, mapped2, pushed, net,
                    copies, answered>>
      BY DEF GetSrv, Publish, nat, wire
  <2> QED
      BY <2>1, <2>2, <2>3, <2>4 DEF Inv, Types
<1>3. Genuine(wanPort1, nattype)'
    BY DEF Inv, Genuine, OtherNamed, GetSrv, Publish, nat
<1>4. Genuine(published.port, published.nattype)'
  <2>1. CASE published' = published
      BY <2>1, <1>1 DEF Inv, Genuine, OtherNamed, nat
  <2>2. CASE published' = [port |-> wanPort1, nattype |-> nattype]
      BY <2>2, <1>1 DEF Inv, Genuine, OtherNamed, nat
  <2> QED
      BY <2>1, <2>2 DEF GetSrv, Publish, server
<1>5. Known'
  <2>1. CASE GetSrv
      BY <2>1 DEF Inv, Known, GetSrv, Goto
  <2>2. CASE Publish
    <3>1. /\ pc = "put" /\ pc' \in {"failed", "done"}
          /\ UNCHANGED <<wanPort1, nattype, mapped1>>
        BY <2>2 DEF Publish, Goto, nat
    <3>2. wanPort1 = mapped1
        BY <3>1 DEF Inv, Known
    <3>3. pc' = "done" => confirmed'
        BY <2>2 DEF Publish, Goto
    <3>4. pc' = "done" =>
              published' = [port |-> wanPort1, nattype |-> nattype]
        BY <2>2 DEF Publish, Goto
    <3> QED
        BY <3>1, <3>2, <3>3, <3>4 DEF Known
  <2> QED
      BY <2>1, <2>2
<1>6. Sent'
  <2>1. /\ pc' \in {"getsrv", "ask"} => pc \in {"getsrv", "ask"}
        /\ pc' \in {"getsrv", "ask", "loop", "decide"} =>
               pc \in {"getsrv", "ask", "loop", "decide"}
      BY DEF GetSrv, Publish, Goto
  <2> QED
      BY <2>1, <1>1, SameFewer, FewerSent DEF Inv
<1> QED
    BY <1>2, <1>3, <1>4, <1>5, <1>6 DEF Inv

\* Asking the nat servers.
LEMMA AskInv == ASSUME Inv, AskNatOne \/ Decide PROVE Inv'
<1>1. copies' = copies /\ UNCHANGED nat /\ UNCHANGED server
    BY DEF AskNatOne, Decide
<1>2. /\ net' \in [Datagrams -> Nat]
      /\ pc = "ask" /\ pc' = "loop" =>
             \A e \in Datagrams :
                 net'[e] = IF e = "askOne" THEN net[e] + 1 ELSE net[e]
      /\ pc = "decide" /\ pc' = "info" =>
             \A e \in Datagrams :
                 net'[e] = IF e = "askInfo" THEN net[e] + 1 ELSE net[e]
      /\ (pc = "ask" /\ pc' = "loop") \/ (pc = "decide" /\ pc' = "info")
    BY PutMore DEF Inv, AskNatOne, Decide, Goto, Datagrams
<1>3. Types'
    BY <1>1, <1>2 DEF Inv, Types, AskNatOne, Decide, Goto, nat, server
<1>4. Genuine(wanPort1, nattype)' /\ Genuine(published.port, published.nattype)'
    BY <1>1 DEF Inv, Genuine, OtherNamed, AskNatOne, Decide, nat, server
<1>5. Known'
  <2>1. rounds' = rounds /\ wanPort1' = wanPort1 /\ mapped1' = mapped1
      BY DEF AskNatOne, Decide, nat
  <2> QED
      BY <1>2, <2>1 DEF Inv, Known
<1>6. Sent'
  <2>1. \A d \in Datagrams : net[d] \in Nat
      BY DEF Inv, Types
  <2>2. copies \in Nat
      BY MaxCopiesAssumption DEF Inv, Types
  <2> QED
      BY <1>1, <1>2, <2>1, <2>2 DEF Inv, Sent, Datagrams
<1> QED
    BY <1>3, <1>4, <1>5, <1>6 DEF Inv

\* The receives, and their timeouts.
LEMMA ReceiveInv ==
    ASSUME Inv, \/ RecvNatOne \/ RecvNatCheckData \/ LoopTimeout
                \/ RecvInfo \/ InfoTimeout \/ RecvGarbled
    PROVE  Inv'
<1>1. UNCHANGED nat /\ UNCHANGED server /\ copies' = copies
    BY DEF RecvNatOne, RecvNatCheckData, LoopTimeout, RecvInfo, InfoTimeout,
           RecvGarbled, wire
<1>2. net' = net \/ \E d \in Datagrams : Take(d)
    BY DEF RecvNatOne, RecvNatCheckData, LoopTimeout, RecvInfo, InfoTimeout,
           RecvGarbled, wire, Answers, Datagrams
<1>3. /\ net' \in [Datagrams -> Nat]
      /\ \A d \in Datagrams : net'[d] <= net[d]
    BY <1>2, TakeFewer, SameFewer DEF Inv
<1>4. /\ pc \in {"loop", "info"} /\ pc' \in {"loop", "decide", "put", "failed"}
      /\ pc = "info" => pc' \in {"put", "failed"}
    BY DEF RecvNatOne, RecvNatCheckData, LoopTimeout, RecvInfo, InfoTimeout,
           RecvGarbled, LoopOver, Goto
<1>5. Sent'
    BY <1>1, <1>3, <1>4, FewerSent DEF Inv
<1>6. wanPort1' \in {wanPort1, mapped1} /\ (pc = "info" => wanPort1' = wanPort1)
    BY DEF RecvNatOne, RecvNatCheckData, LoopTimeout, RecvInfo, InfoTimeout,
           RecvGarbled
<1>7. \/ nattype' = nattype
      \/ /\ wanPort1 = mapped1
         /\ nattype' \in {0, 5}
         /\ nattype' = 5 => OtherNamed
  <2>1. ASSUME RecvInfo
        PROVE  /\ wanPort1 = mapped1 /\ nattype' \in {0, 5}
               /\ nattype' = 5 => OtherNamed
    <3>1. wanPort1 = mapped1
        BY <2>1 DEF Inv, Known, RecvInfo
    <3>2. PICK d \in Answers : nattype' = NatTypeOf(PortIn(d))
        BY <2>1 DEF RecvInfo
    <3>3. PortIn(d) \in {mapped1, mapped2, pushed}
        BY DEF PortIn
    <3> QED
        BY <3>1, <3>2, <3>3 DEF NatTypeOf, OtherNamed
  <2> QED
      BY <2>1 DEF RecvNatOne, RecvNatCheckData, LoopTimeout, InfoTimeout,
                  RecvGarbled
<1>8. rounds' \in 0..Receives /\ (pc' = "loop" => rounds' # 0)
    BY ReceivesAssumption
       DEF Inv, Types, Known, RecvNatOne, RecvNatCheckData, LoopTimeout,
           RecvInfo, InfoTimeout, RecvGarbled, LoopOver, Goto
<1>9. Types'
  <2>1. answered' \in BOOLEAN
    <3>1. CASE RecvInfo
      <4>1. answered' = (net["NatGetInfo"] > 0)
          BY <3>1 DEF RecvInfo
      <4> QED
          BY <4>1
    <3>2. CASE ~RecvInfo
        BY <3>2 DEF Inv, Types, RecvNatOne, RecvNatCheckData, LoopTimeout,
                    InfoTimeout, RecvGarbled
    <3> QED
        BY <3>1, <3>2
  <2> QED
      BY <2>1, <1>1, <1>3, <1>4, <1>6, <1>7, <1>8
         DEF Inv, Types, nat, server
<1>10. /\ Genuine(wanPort1, nattype)'
       /\ Genuine(published.port, published.nattype)'
    BY <1>1, <1>6, <1>7 DEF Inv, Genuine, OtherNamed, nat, server
<1>11. Known'
  <2>1. pc' = "decide" => wanPort1' # NoPort
      BY DEF RecvNatOne, RecvNatCheckData, LoopTimeout, RecvInfo, InfoTimeout,
             RecvGarbled, LoopOver, Goto
  <2>2. wanPort1' \in {NoPort, mapped1}
      BY <1>6 DEF Inv, Genuine, OtherNamed
  <2>3. pc = "info" => wanPort1 = mapped1
      BY DEF Inv, Known
  <2>4. pc' = "put" => pc = "info"
      BY DEF RecvNatOne, RecvNatCheckData, LoopTimeout, RecvInfo, InfoTimeout,
             RecvGarbled, LoopOver, Goto
  <2> QED
      BY <2>1, <2>2, <2>3, <2>4, <1>1, <1>4, <1>6, <1>8 DEF Known, nat
<1> QED
    BY <1>5, <1>9, <1>10, <1>11 DEF Inv

-----------------------------------------------------------------------------
(***************************************************************************)
(* The servers and the network.                                            *)
(***************************************************************************)

\* What happens to datagrams leaves register where it is.
LEMMA ClientStays ==
    ASSUME Inv, UNCHANGED <<client, server, nat>>, Sent',
           net' \in [Datagrams -> Nat], copies' \in 0..MaxCopies,
           answered' \in BOOLEAN
    PROVE  Inv'
<1>1. Types'
    BY DEF Inv, Types, client, server, nat
<1>2. Genuine(wanPort1, nattype)' /\ Genuine(published.port, published.nattype)'
    BY DEF Inv, Genuine, OtherNamed, client, server, nat
<1>3. Known'
    BY DEF Inv, Known, client, server, nat
<1> QED
    BY <1>1, <1>2, <1>3 DEF Inv

LEMMA ServeInv == ASSUME Inv, ServeNatOne \/ ServeNatGetInfo PROVE Inv'
<1>1. \A d \in Datagrams : net[d] \in Nat
    BY DEF Inv, Types
<1>2. copies \in Nat /\ copies' = copies /\ pc' = pc
    BY MaxCopiesAssumption
       DEF Inv, Types, ServeNatOne, ServeNatGetInfo, client
<1>3. ASSUME ServeNatOne
      PROVE  Sent' /\ net' \in [Datagrams -> Nat]
  <2>1. net["askOne"] - 1 \in Nat
      BY <1>1, <1>3 DEF ServeNatOne, Datagrams
  <2>2. /\ net' \in [Datagrams -> Nat]
        /\ net'["askOne"] = net["askOne"] - 1
        /\ net'["NatOne"] = net["NatOne"] + 1
        /\ net'["NatCheckData"] = net["NatCheckData"] + 1
        /\ net'["askInfo"] = net["askInfo"]
        /\ net'["NatGetInfo"] = net["NatGetInfo"]
      BY <1>1, <1>3, <2>1 DEF Inv, Types, ServeNatOne, Datagrams
  <2>3. net["askOne"] > 0
      BY <1>3 DEF ServeNatOne
  <2> QED
      BY <1>1, <1>2, <2>1, <2>2, <2>3 DEF Inv, Sent, Datagrams
<1>4. ASSUME ServeNatGetInfo
      PROVE  Sent' /\ net' \in [Datagrams -> Nat]
  <2>1. net["askInfo"] - 1 \in Nat
      BY <1>1, <1>4 DEF ServeNatGetInfo, Datagrams
  <2>2. /\ net' \in [Datagrams -> Nat]
        /\ net'["askInfo"] = net["askInfo"] - 1
        /\ net'["NatGetInfo"] = net["NatGetInfo"] + 1
        /\ net'["askOne"] = net["askOne"]
        /\ net'["NatOne"] = net["NatOne"]
        /\ net'["NatCheckData"] = net["NatCheckData"]
      BY <1>1, <1>4, <2>1 DEF Inv, Types, ServeNatGetInfo, Datagrams
  <2>3. net["askInfo"] > 0
      BY <1>4 DEF ServeNatGetInfo
  <2> QED
      BY <1>1, <1>2, <2>1, <2>2, <2>3 DEF Inv, Sent, Datagrams
<1>5. UNCHANGED <<client, server, nat>> /\ UNCHANGED answered
    BY DEF ServeNatOne, ServeNatGetInfo
<1> QED
    BY <1>2, <1>3, <1>4, <1>5, ClientStays DEF Inv, Types

LEMMA NetworkInv == ASSUME Inv, Lose \/ Duplicate PROVE Inv'
<1>1. UNCHANGED <<client, server, nat>> /\ pc' = pc /\ answered' \in BOOLEAN
    BY DEF Inv, Types, Lose, Duplicate, client
<1>2. ASSUME Lose
      PROVE  Sent' /\ net' \in [Datagrams -> Nat] /\ copies' \in 0..MaxCopies
  <2>1. PICK d \in Datagrams : Take(d)
      BY <1>2 DEF Lose
  <2>2. copies' = copies
      BY <1>2 DEF Lose
  <2> QED
      BY <2>1, <2>2, <1>1, TakeFewer, FewerSent DEF Inv, Types
<1>3. ASSUME Duplicate
      PROVE  Sent' /\ net' \in [Datagrams -> Nat] /\ copies' \in 0..MaxCopies
  <2>1. PICK d \in Datagrams : net[d] > 0 /\ Put(d)
      BY <1>3 DEF Duplicate
  <2>2. /\ net' \in [Datagrams -> Nat]
        /\ \A e \in Datagrams :
               net'[e] = IF e = d THEN net[e] + 1 ELSE net[e]
      BY <2>1, PutMore DEF Inv
  <2>3. copies' = copies + 1 /\ copies \in Nat /\ copies' \in 0..MaxCopies
      BY <1>3, MaxCopiesAssumption DEF Inv, Types, Duplicate
  <2>4. \A e \in Datagrams : net[e] \in Nat
      BY DEF Inv, Types
  <2>5. Sent'
    <3> DEFINE More(e) ==
            /\ net[e] \in Nat /\ net[d] > 0
            /\ net'[e] = IF e = d THEN net[e] + 1 ELSE net[e]
    <3>1. /\ More("askOne") /\ More("NatOne") /\ More("NatCheckData")
          /\ More("askInfo") /\ More("NatGetInfo")
        BY <2>1, <2>2, <2>4 DEF Datagrams
    <3>2. \/ d = "askOne" \/ d = "NatOne" \/ d = "NatCheckData"
          \/ d = "askInfo" \/ d = "NatGetInfo"
        BY DEF Datagrams
    <3> QED
        BY <1>1, <2>3, <3>1, <3>2 DEF Inv, Sent
  <2> QED
      BY <2>2, <2>3, <2>5
<1> QED
    BY <1>1, <1>2, <1>3, ClientStays

-----------------------------------------------------------------------------
\* Inv holds in every state of every behaviour.
LEMMA Invariance == Spec => []Inv
<1>1. Inv /\ [Next]_vars => Inv'
  <2> SUFFICES ASSUME Inv, [Next]_vars PROVE Inv'
      OBVIOUS
  <2>1. CASE GetSrv \/ Publish
      BY <2>1, RpcInv
  <2>2. CASE AskNatOne \/ Decide
      BY <2>2, AskInv
  <2>3. CASE \/ RecvNatOne \/ RecvNatCheckData \/ LoopTimeout
             \/ RecvInfo \/ InfoTimeout \/ RecvGarbled
      BY <2>3, ReceiveInv
  <2>4. CASE ServeNatOne \/ ServeNatGetInfo
      BY <2>4, ServeInv
  <2>5. CASE Lose \/ Duplicate
      BY <2>5, NetworkInv
  <2>6. CASE UNCHANGED vars
    <3>1. UNCHANGED <<client, server, nat>>
        BY <2>6 DEF vars
    <3>2. pc' = pc /\ net' = net /\ copies' = copies /\ answered' = answered
        BY <2>6 DEF vars, client, wire
    <3>3. Sent'
        BY <3>2 DEF Inv, Sent
    <3> QED
        BY <3>1, <3>2, <3>3, ClientStays DEF Inv, Types
  <2> QED
      BY <2>1, <2>2, <2>3, <2>4, <2>5, <2>6 DEF Next, Register, Over
<1> QED
    BY <1>1, InitInv, PTL DEF Spec

\* The variables of NatCheck keep their types; in particular a datagram is
\* under way once, and once more for each copy.
THEOREM NatCheckTypes == Spec => []TypeOK
<1>1. Inv => TypeOK
  <2> SUFFICES ASSUME Inv PROVE TypeOK
      OBVIOUS
  <2>1. \A d \in Datagrams : net[d] \in Nat
      BY DEF Inv, Types
  <2>2. copies \in Nat /\ copies <= MaxCopies
      BY MaxCopiesAssumption DEF Inv, Types
  <2>3. \A d \in Datagrams : net[d] <= 1 + MaxCopies
      BY <2>1, <2>2, MaxCopiesAssumption DEF Inv, Sent, Datagrams
  <2>4. \A d \in Datagrams : net[d] \in 0..(1 + MaxCopies)
      BY <2>1, <2>3, MaxCopiesAssumption
  <2>5. net \in [Datagrams -> 0..(1 + MaxCopies)]
      BY <2>4 DEF Inv, Types
  <2> QED
      BY <2>5 DEF Inv, Types, TypeOK
<1> QED
    BY <1>1, Invariance, PTL

\* apeman.register: what is published is the port the first server saw,
\* whatever the second exchange met.
THEOREM FirstMappingIsPublished == Spec => []PublishesFirstMapping
<1>1. Inv => PublishesFirstMapping
    BY DEF Inv, Genuine, PublishesFirstMapping
<1> QED
    BY <1>1, Invariance, PTL

\* apeman.register: a symmetric NAT is published only if the second server or
\* the push of the first named another port than the one published with it.
THEOREM SymmetricOnlyIfSo == Spec => []SymmetricIsSymmetric
<1>1. Inv => SymmetricIsSymmetric
    BY DEF Inv, Genuine, OtherNamed, SymmetricIsSymmetric
<1> QED
    BY <1>1, Invariance, PTL

\* apeman.register returns only with a mapping that was confirmed and is that
\* of the first server.
THEOREM RegisteredWasPublished == Spec => []RegisteredIsPublished
<1>1. Inv => RegisteredIsPublished
    BY DEF Inv, Known, RegisteredIsPublished
<1> QED
    BY <1>1, Invariance, PTL

=============================================================================
