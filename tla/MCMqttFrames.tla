----------------------------- MODULE MCMqttFrames -----------------------------
(* Values for model checking MqttFrames: clients that differ in their       *)
(* CONNECT, clients that differ in their frames, clients a broker writes    *)
(* to, and clients that differ in how they keep the connection alive.       *)
EXTENDS MqttFrames

Connects ==
    {c \in [level : {4, V5}, keepAlive : {1}, properties : {<<>>, <<1, 6, 2, 7>>},
            clientID : {<<>>, <<1>>}, will : BOOLEAN,
            willProperties : {<<>>, <<1>>, <<1, 2, 3, 4>>},
            username : {<<>>, <<1>>}, password : {<<>>, <<5>>, <<6>>}] :
        /\ c.level = 4 => c.properties = <<>>
        /\ c.level = 4 \/ ~c.will => c.willProperties = <<>>}

Plain(level, keepAlive) ==
    [level |-> level, keepAlive |-> keepAlive, properties |-> <<>>, clientID |-> <<1>>,
     will |-> FALSE, willProperties |-> <<>>, username |-> <<1>>, password |-> <<5>>]

Authenticates(c) == [how |-> "connect", genuine |-> TRUE, connect |-> c, plan |-> <<>>,
                     down |-> <<>>, patient |-> TRUE, lively |-> FALSE]

Streams(how, level, plan) ==
    {[Authenticates(Plain(level, 1)) EXCEPT !.how = how, !.genuine = genuine,
                                            !.plan = plan, !.patient = patient] :
        genuine \in BOOLEAN, patient \in BOOLEAN}

Listens ==
    [Authenticates(Plain(4, 1)) EXCEPT !.down = <<PingPacket, PublishPacket(<<1, 2, 1>>)>>]

LastsFor(keepAlive, lively) ==
    [Authenticates(Plain(4, keepAlive)) EXCEPT !.how = "token", !.lively = lively]

\* Users: a topic repeated, and one that names no device.
Users ==
    {user \in Streams("login", V5, <<SubscribePacket(V5, <<1, 2>>), PublishPacket(<<2>>)>>)
                \cup Streams("login", 4, <<SubscribePacket(4, <<2, 3>>), PublishPacket(<<2>>)>>) :
        user.patient}

MCClients ==
    {Authenticates(c) : c \in Connects}
    \cup Streams("token", 4, <<PublishPacket(<<1>>), SubscribePacket(4, <<1, 2>>)>>)
    \cup Streams("token", V5, <<SubscribePacket(V5, <<1>>), PublishPacket(<<>>)>>)
    \cup Users
    \cup {Listens}
    \cup {LastsFor(keepAlive, lively) : keepAlive \in 0 .. 7, lively \in BOOLEAN}

MCTopicLists == UNION {[1 .. n -> 0 .. 3] : n \in 0 .. 2}

=============================================================================
