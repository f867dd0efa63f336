------------------------------ MODULE NatCheck ------------------------------
(***************************************************************************)
(* apeman.register: publishing the NAT mapping of a UDP socket so that the *)
(* camera can reach it.                                                    *)
(*                                                                         *)
(* The process asks the policy host for a nat server (tcp), asks that one  *)
(* how it sees the socket (NatOne, udp), asks a second one the same        *)
(* (NatGetInfo, udp) to tell a symmetric NAT, and publishes the result     *)
(* (PutNatInfo, tcp).  The datagrams of both servers arrive on one socket, *)
(* in any order, late, twice or not at all; only their method names them,  *)
(* and not every receive looks at it.                                      *)
(*                                                                         *)
(* NoPort stands for a port the process does not know.  A NAT that is not  *)
(* symmetric shows both servers the same port.                             *)
(***************************************************************************)
EXTENDS Naturals

CONSTANTS
    Ports,       \* the ports the NAT may map the socket to
    NoPort,      \* none of them
    Receives,    \* receives the NatOne loop grants itself, 6 in the code
    MaxCopies    \* bound on the copies of a datagram the network makes

ASSUME NoPortAssumption == NoPort \notin Ports
ASSUME ReceivesAssumption == Receives \in Nat \ {0}
ASSUME MaxCopiesAssumption == MaxCopies \in Nat

VARIABLES
    pc,          \* where register is
    rounds,      \* receives the NatOne loop has left
    wanPort1,    \* wan_port1, NoPort while wan_ip is None
    nattype,     \* 0, or 5 for a symmetric NAT
    published,   \* what the nat server holds: a port and a nattype
    confirmed,   \* the nat server confirmed it
    mapped1,     \* the port the NAT shows the first server
    mapped2,     \* and the second
    pushed,      \* the port in field 2 of the NatCheckData, if it has one
    net,         \* copies under way of each datagram
    copies,      \* copies the network made
    answered     \* ghost: the second server's answer had arrived when the
                 \* receive that waits for it returned

client == <<pc, rounds, wanPort1, nattype>>
server == <<published, confirmed>>
nat    == <<mapped1, mapped2, pushed>>
wire   == <<net, copies>>
vars   == <<client, server, nat, wire, answered>>

Datagrams == {"askOne", "NatOne", "NatCheckData", "askInfo", "NatGetInfo"}
Answers   == {"NatOne", "NatCheckData", "NatGetInfo"}
Nothing   == [port |-> NoPort, nattype |-> 0]

TypeOK ==
    /\ pc \in {"getsrv", "ask", "loop", "decide", "info", "put", "done",
               "failed"}
    /\ rounds \in 0..Receives
    /\ wanPort1 \in Ports \cup {NoPort}
    /\ nattype \in {0, 5}
    /\ published \in [port : Ports \cup {NoPort}, nattype : {0, 5}]
    /\ confirmed \in BOOLEAN
    /\ mapped1 \in Ports /\ mapped2 \in Ports
    /\ pushed \in Ports \cup {NoPort}
    /\ net \in [Datagrams -> 0..(1 + MaxCopies)]
    /\ copies \in 0..MaxCopies
    /\ answered \in BOOLEAN

Init ==
    /\ pc = "getsrv"
    /\ rounds = Receives
    /\ wanPort1 = NoPort
    /\ nattype = 0
    /\ published = Nothing
    /\ confirmed = FALSE
    /\ mapped1 \in Ports /\ mapped2 \in Ports
    /\ pushed \in Ports \cup {NoPort}
    /\ net = [d \in Datagrams |-> 0]
    /\ copies = 0
    /\ answered = FALSE

-----------------------------------------------------------------------------
Goto(label) == pc' = label

Put(d) == net' = [net EXCEPT ![d] = @ + 1]
Take(d) == net[d] > 0 /\ net' = [net EXCEPT ![d] = @ - 1]

\* Mutant: the port the second server saw decides alone.
NatTypeOfAbsent(port) == IF port # wanPort1 THEN 5 ELSE 0

\* wan_port2 defaults to wan_port1, so that only a port that was received and
\* differs makes the NAT symmetric.
NatTypeOf(port) == IF port \notin {NoPort, wanPort1} THEN 5 ELSE 0

(***************************************************************************)
(* The process.                                                            *)
(***************************************************************************)

\* Any tcp rpc that is refused, truncated, of a bad length or without the
\* field that is read next raises.
GetSrv ==
    /\ pc = "getsrv"
    /\ Goto("ask") \/ Goto("failed")
    /\ UNCHANGED <<rounds, wanPort1, nattype, server, nat, wire, answered>>

AskNatOne ==
    /\ pc = "ask"
    /\ Put("askOne")
    /\ Goto("loop")
    /\ UNCHANGED <<rounds, wanPort1, nattype, server, nat, copies, answered>>

\* The loop has run its course: by a break, or for want of rounds.
LoopOver == Goto(IF wanPort1' # NoPort THEN "decide" ELSE "failed")

\* Receiving NatOne, whatever was received before.  Another NatOne replaces
\* what the first one said.
RecvNatOne ==
    /\ pc = "loop"
    /\ Take("NatOne")
    /\ rounds' = rounds - 1
    /\ wanPort1' = mapped1
    /\ IF rounds = 1 THEN LoopOver ELSE Goto("loop")
    /\ UNCHANGED <<nattype, server, nat, copies, answered>>

\* Mutant: the loop has no limit.
RecvNatCheckDataUnlimited ==
    /\ pc = "loop"
    /\ Take("NatCheckData")
    /\ rounds' = rounds - 1
    /\ UNCHANGED wanPort1
    /\ IF wanPort1 # NoPort THEN LoopOver ELSE Goto("loop")
    /\ UNCHANGED <<nattype, server, nat, copies, answered>>

\* The NatCheckData the server pushes ends the loop, if NatOne has come.
RecvNatCheckData ==
    /\ pc = "loop"
    /\ Take("NatCheckData")
    /\ rounds' = rounds - 1
    /\ UNCHANGED wanPort1
    /\ IF rounds = 1 \/ wanPort1 # NoPort THEN LoopOver ELSE Goto("loop")
    /\ UNCHANGED <<nattype, server, nat, copies, answered>>

\* Mutant: a timeout is waited out again.
TimeoutRetried ==
    /\ pc = "loop"
    /\ UNCHANGED <<client, server, nat, wire, answered>>

\* The receive times out.
LoopTimeout ==
    /\ pc = "loop"
    /\ UNCHANGED wanPort1
    /\ LoopOver
    /\ UNCHANGED <<rounds, nattype, server, nat, wire, answered>>

\* Asking the second server, which whoever has a mapping has: a NatOne that
\* names none raises on its missing field.
Decide ==
    /\ pc = "decide"
    /\ Put("askInfo")
    /\ Goto("info")
    /\ UNCHANGED <<rounds, wanPort1, nattype, server, nat, copies, answered>>

\* Field 2 of a datagram.  In a NatOne and a NatGetInfo it is the port the
\* server saw; what the push has there is not known, a port or nothing.
PortIn(d) == CASE d = "NatOne" -> mapped1
               [] d = "NatGetInfo" -> mapped2
               [] OTHER -> pushed

\* Mutant: the second port replaces the first.
RecvInfoReplaces ==
    /\ pc = "info"
    /\ \E d \in Answers :
           /\ Take(d)
           /\ nattype' = NatTypeOf(PortIn(d))
           /\ wanPort1' = IF PortIn(d) = NoPort THEN wanPort1 ELSE PortIn(d)
    /\ answered' = (net["NatGetInfo"] > 0)
    /\ Goto("put")
    /\ UNCHANGED <<rounds, server, nat, copies>>

\* One datagram is taken for the answer, whatever it is.
RecvInfo ==
    /\ pc = "info"
    /\ \E d \in Answers : Take(d) /\ nattype' = NatTypeOf(PortIn(d))
    /\ answered' = (net["NatGetInfo"] > 0)
    /\ Goto("put")
    /\ UNCHANGED <<rounds, wanPort1, server, nat, copies>>

InfoTimeout ==
    /\ pc = "info"
    /\ Goto("put")
    /\ UNCHANGED <<rounds, wanPort1, nattype, server, nat, wire, answered>>

\* A datagram that cannot be deciphered or decoded raises, as does a NatOne in
\* the loop that lacks the address, the port or the second server.
RecvGarbled ==
    /\ pc \in {"loop", "info"}
    /\ \E d \in Answers : Take(d)
    /\ Goto("failed")
    /\ UNCHANGED <<rounds, wanPort1, nattype, server, nat, copies, answered>>

\* Mutant: a refusal is taken for a confirmation.
PublishUnchecked ==
    /\ pc = "put"
    /\ published' \in {published, [port |-> wanPort1, nattype |-> nattype]}
    /\ confirmed' = (published' # published)
    /\ Goto("done") \/ Goto("failed")
    /\ UNCHANGED <<rounds, wanPort1, nattype, nat, wire, answered>>

\* PutNatInfo: refused; stored, but the answer is lost; stored and confirmed.
Publish ==
    /\ pc = "put"
    /\ \/ Goto("failed") /\ UNCHANGED server
       \/ /\ published' = [port |-> wanPort1, nattype |-> nattype]
          /\ \/ confirmed' = FALSE /\ Goto("failed")
             \/ confirmed' = TRUE /\ Goto("done")
    /\ UNCHANGED <<rounds, wanPort1, nattype, nat, wire, answered>>

Register ==
    \/ GetSrv \/ AskNatOne \/ RecvNatOne \/ RecvNatCheckData \/ LoopTimeout
    \/ Decide \/ RecvInfo \/ InfoTimeout \/ RecvGarbled \/ Publish

(***************************************************************************)
(* The servers and the network.                                            *)
(***************************************************************************)

\* NatOne is answered, and NatCheckData pushed after it.
ServeNatOne ==
    /\ net["askOne"] > 0
    /\ net' = [net EXCEPT !["askOne"] = @ - 1, !["NatOne"] = @ + 1,
                          !["NatCheckData"] = @ + 1]
    /\ UNCHANGED <<client, server, nat, copies, answered>>

ServeNatGetInfo ==
    /\ net["askInfo"] > 0
    /\ net' = [net EXCEPT !["askInfo"] = @ - 1, !["NatGetInfo"] = @ + 1]
    /\ UNCHANGED <<client, server, nat, copies, answered>>

Lose ==
    /\ \E d \in Datagrams : Take(d)
    /\ UNCHANGED <<client, server, nat, copies, answered>>

Duplicate ==
    /\ copies < MaxCopies
    /\ copies' = copies + 1
    /\ \E d \in Datagrams : net[d] > 0 /\ Put(d)
    /\ UNCHANGED <<client, server, nat, answered>>

Over == pc \in {"done", "failed"} /\ UNCHANGED vars

Next ==
    \/ Register \/ ServeNatOne \/ ServeNatGetInfo \/ Lose \/ Duplicate \/ Over

Spec == Init /\ [][Next]_vars

\* Every receive and every tcp rpc has a timeout, so register takes its steps;
\* nothing is assumed of the servers or the network.
FairSpec == Spec /\ WF_vars(Register)

-----------------------------------------------------------------------------
(***************************************************************************)
(* Properties.                                                             *)
(***************************************************************************)

\* What is published is the port the first server saw, whatever datagrams the
\* second exchange met: that is the server the camera asks.
PublishesFirstMapping == published.port \in {NoPort, mapped1}

\* The proxy is published as behind a symmetric NAT only if one of the servers
\* did name another port than the one that is published with it: no missing
\* field and no late, doubled or lost answer makes the NAT symmetric.
SymmetricIsSymmetric ==
    published.nattype = 5 =>
        mapped1 # mapped2 \/ pushed \notin {NoPort, mapped1}

\* register returns a Registration only for a mapping the nat server holds and
\* has confirmed, known to the proxy from a NatOne.
RegisteredIsPublished ==
    pc = "done" =>
        /\ confirmed
        /\ published = [port |-> wanPort1, nattype |-> nattype]
        /\ wanPort1 = mapped1

\* register ends, by returning or by raising, whatever the network does.
Terminates == <>(pc \in {"done", "failed"})

\* "NatGetInfo to the second server -> a second mapped port (nat type)": when
\* the answer of the second server has arrived by the time register receives,
\* it decides the nat type.
SecondServerDecides ==
    pc = "done" /\ answered /\ mapped1 # mapped2 => nattype = 5

=============================================================================
