-------------------------- MODULE MCReliableRouting --------------------------
(* Three nodes in a line, a and c out of each other's reach, b a client or *)
(* a ROUTER with the ROUTER a as its favourite; or three nodes that all    *)
(* hear each other, clients or two ROUTERs that are each other's favourite.*)
EXTENDS ReliableRouting
CONSTANTS a, b, c
Both(S) == S \cup {<<l[2], l[1]>> : l \in S}
Line == Both({<<a, b>>, <<b, c>>})
Triangle == Line \cup Both({<<a, c>>})
Clients(links) == [links |-> links, routers |-> {}, favourites |-> {}]
ClientLine == {Clients(Line)}
SmallNetworks ==
    {Clients(Line), Clients(Triangle),
     [links |-> Line, routers |-> {a, b}, favourites |-> {<<b, a>>}],
     [links |-> Triangle, routers |-> {b, c},
      favourites |-> Both({<<b, c>>})]}
=============================================================================
