------------------------- MODULE MCMessageDispatcher -------------------------
(* Instances of MessageDispatcher for TLC.                                   *)
EXTENDS MessageDispatcher, TLC

CONSTANTS s1, s2, w1, w2

\* a client connection: one goroutine per response
OneEach == (w1 :> s1) @@ (w2 :> s2)

\* a daemon connection: the body of a request and its cancellation
Shared == (w1 :> s1) @@ (w2 :> s1)
=============================================================================
