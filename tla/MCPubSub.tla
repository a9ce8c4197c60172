------------------------------- MODULE MCPubSub -------------------------------
(* One client with every command, one that only subscribes.                *)
EXTENDS PubSub

Sub(names) == [op |-> "SUBSCRIBE", names |-> names]
Unsub(names) == [op |-> "UNSUBSCRIBE", names |-> names]
Psub == [op |-> "PSUBSCRIBE", names |-> <<"p">>]
Punsub(names) == [op |-> "PUNSUBSCRIBE", names |-> names]
Cmd(op) == [op |-> op, names |-> <<>>]

MCMatching == [n \in {"p"} |-> {"x"}]
MCChunks == [c \in {"a", "b"} |->
    IF c = "a"
      THEN {<<Sub(<<"x", "y">>)>>, <<Psub>>, <<Unsub(<<"x">>), Cmd("OTHER")>>, <<Unsub(<<>>)>>,
            <<Punsub(<<>>), Cmd("PING")>>, <<Sub(<<"x">>), Cmd("OTHER")>>,
            <<Cmd("QUIT"), Cmd("PING")>>, <<Cmd("BLPOP")>>}
      ELSE {<<Sub(<<"x">>)>>}]
MCPipelines == [c \in {"a"} |-> {<<Cmd("BLPOP"), Cmd("PING")>>, <<Sub(<<"x">>), Cmd("BLPOP")>>}]
=============================================================================
