------------------------------- MODULE MCWire -------------------------------
(* Replies with a one and a two byte transaction and the bodies of requests:  *)
(* one and two blocks, and eight, whose length takes a two byte varint.       *)
EXTENDS Wire
Uid == <<98, 48>>
MCReplies ==
    {[method |-> <<71, 115>>, transId |-> 5, body |-> GetsrvBody(Uid)],
     [method |-> <<78>>, transId |-> 300,
      body |-> NatBody([i \in 1..17 |-> 97])],
     [method |-> <<80>>, transId |-> 65535,
      body |-> PutNatInfoBody([i \in 1..100 |-> i % 7], 5, <<49, 48>>, 5083,
                              <<49, 57>>, 300)]}
MCLies == {-28, -9, 0, 1, 1000}
MCTrailers == {<<>>, <<0, 0, 0, 8, 7>>}
MCVersion == <<53, 46, 48>>
=============================================================================
