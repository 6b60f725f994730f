--------------------------- MODULE MCThreadLinks ----------------------------
(* Instances of ThreadLinks for TLC. *)
EXTENDS ThreadLinks

CONSTANTS A, B, C, D                       \* modules

NoLinks  == <<>>
NoRoutes == {}
FanIn    == <<<<A, C>>, <<B, C>>>>                 \* two sources of one sink
FanIn3   == <<<<A, D>>, <<B, D>>, <<C, D>>>>
FanOut   == <<<<A, B>>, <<A, C>>>>                 \* two sinks of one source
FanInRoutes  == {<<A, C>>, <<B, C>>}
Line     == <<<<A, B>>, <<B, C>>>>                 \* B forwards
LateRoutes   == {<<A, C>>}
FanOutRoutes == {<<A, B>>}
Loop     == <<<<A, B>>, <<B, B>>>>                 \* B sends to itself, too
LoopRoutes == {<<A, B>>, <<B, B>>}
Tangled  == {<<A, B>>}
=============================================================================
