------------------------------ MODULE MCServer ------------------------------
EXTENDS Server

Str(keys) == [k \in keys |-> [type |-> "string", v |-> "a"]]
Num(key, v) == key :> [type |-> "number", v |-> v]

Client == Str({"listen", "kcp_connect", "rendezvous_server", "http_listen"})
Plain == Str({"connect", "kcp_bind"})
Broker == Str({"kcp_bind", "http_listen"})
OnlyBroker == {Broker}
RunAll == {Client, Plain, Broker}

\* Every choice of addresses and encryption, with numbers at their limits, and a
\* value of a wrong type.
Everything ==
  {o @@ n @@ Str(k) :
     k \in SUBSET (Addresses \cup {"psk", "method", "password", "obfs"}),
     n \in {Num("kcp.mtu", 299), Num("kcp.mtu", 300), Num("kcp.mtu", 1501),
            Num("keepalive", 0), Str({"kcp.mtu"})},
     o \in {<<>>, "obfs" :> [type |-> "string", v |-> "dpi/tcp-wnd"]}}

\* Under the first seed all keys collide, under the second those of the same number.
Primes == <<1, 2>>
Hash == <<[k \in SessionKeys |-> 2], [k \in SessionKeys |-> k[2]]>>
OnePeer == {"p"}
TwoCallers == {<<"p", 1>>, <<"p", 2>>}

Inputs == {<<Line, CR, LF, CR, LF>>, <<Line, CR, LF, Field, CR, LF, CR, LF>>,
           <<Line, CR, LF, Word, CR, LF, CR, LF>>, <<Word, CR, LF, CR, LF>>,
           <<Line, CR, CR, LF, CR, LF>>, <<Field, Line, CR, LF, CR, LF>>,
           <<Line, CR, LF, Field, CR, LF, Field, CR, LF>>}
Asked == [broker \in BOOLEAN |-> IF broker THEN Inputs ELSE {}]
=============================================================================
