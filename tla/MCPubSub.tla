------------------------------ MODULE MCPubSub ------------------------------
(* Two clients with two commands each, which may name several channels, or *)
(* a channel twice, and one that publishes once.                           *)
EXTENDS PubSub, TLC

CONSTANTS c1, c2, c3, a, b

MCClients == {c1, c2, c3}
MCChannels == {a, b}
Cmd(op, args, msg) == [op |-> op, args |-> args, msg |-> msg]

MCRequests ==
    (c1 :> {Cmd("subscribe", <<a>>, 0), Cmd("subscribe", <<a, b, a>>, 0),
            Cmd("unsubscribeAll", <<a, b>>, 0)})
      @@ (c2 :> {Cmd("subscribe", <<a>>, 0), Cmd("unsubscribe", <<b, a>>, 0),
             Cmd("publish", <<a>>, 2)})
      @@ (c3 :> {Cmd("publish", <<a>>, 1)})

MCQuota == (c1 :> 2) @@ (c2 :> 2) @@ (c3 :> 1)
=============================================================================
