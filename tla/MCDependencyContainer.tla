------------------------- MODULE MCDependencyContainer -------------------------
(***************************************************************************)
(* Instances of the containers for TLC: a child with its parent.  In the   *)
(* first, a singleton of the child needs one that may come from the        *)
(* parent, where it may be overridden, or from a bind_instance() of the    *)
(* child; and two transient bindings need each other across the            *)
(* containers.  In the second, two singletons need each other.             *)
(***************************************************************************)
EXTENDS DependencyContainer

MCChain == [root |-> <<"root">>, child |-> <<"child", "root">>]

MCPlace == [service |-> <<"child", "service">>, store |-> <<"root", "store">>,
            given |-> <<"child", "store">>, newer |-> <<"root", "store">>,
            ping |-> <<"child", "ping">>, pong |-> <<"root", "pong">>]
MCNeeds == [service |-> <<<<"child", "store">>>>, store |-> <<>>, given |-> <<>>, newer |-> <<>>,
            ping |-> <<<<"child", "pong">>>>,
            pong |-> <<<<"child", "ping">>>>]

MCRequests == {<<"child", "service">>, <<"child", "ping">>}

MCCyclePlace == [a |-> <<"root", "a">>, b |-> <<"root", "b">>]
MCCycleRequests == {<<"root", "a">>, <<"root", "b">>}
MCCycleNeeds == [a |-> <<<<"root", "b">>>>, b |-> <<<<"root", "a">>>>]
=============================================================================
