---------------------------- MODULE GatewayGraph ----------------------------
(***************************************************************************)
(* What the gateway API (core/inc/gateway.h) promises: a gateway is a      *)
(* graph of named modules and links.  A name stands for one module, a link *)
(* joins modules that are there, and a module leaves with its links.  The  *)
(* source of a link may be Any ("*"): every other module.                  *)
(***************************************************************************)
CONSTANTS Names, Any

VARIABLES names, edges

gvars == <<names, edges>>

GraphInit == names = {} /\ edges = {}

Without(n) == {e \in edges : e[1] # n /\ e[2] # n}

Add(n) ==
    /\ n \notin names /\ names' = names \cup {n}
    /\ UNCHANGED edges

\* "Removes the provided module from the gateway and all links that involves
\* this module."
Remove(n) ==
    /\ n \in names /\ names' = names \ {n}
    /\ edges' = Without(n)

\* A new module under an old name starts without links.
Replace(n) ==
    /\ n \in names /\ edges' = Without(n)
    /\ UNCHANGED names

Link(e) ==
    /\ e[1] \in names \cup {Any} /\ e[2] \in names
    /\ e \notin edges /\ edges' = edges \cup {e}
    /\ UNCHANGED names

Unlink(e) ==
    /\ e \in edges /\ edges' = edges \ {e}
    /\ UNCHANGED names

Destroy == names' = {} /\ edges' = {}

GraphNext ==
    \/ \E n \in Names : Add(n) \/ Remove(n) \/ Replace(n)
    \/ \E e \in (Names \cup {Any}) \X Names : Link(e) \/ Unlink(e)
    \/ Destroy

GraphSpec == GraphInit /\ [][GraphNext]_gvars
=============================================================================
