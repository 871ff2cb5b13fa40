------------------------------ MODULE MCSurface ------------------------------
(***************************************************************************)
(* Instances of Surface for TLC.                                           *)
(***************************************************************************)
EXTENDS Surface, TLC

CONSTANTS apex, sub, other, own, edge, meta, cf1, cf2

Kinds == own :> "global" @@ edge :> "global" @@ meta :> "link_local"
           @@ cf1 :> "global" @@ cf2 :> "global"
SubMoves == apex :> {{own}} @@ sub :> {{own}, {own, edge}, {meta}}
OwnRange == {{own, edge}}
Shipped == "cloudflare" :> {cf1} @@ "akamai" :> {edge}
Published == {"cloudflare" :> {cf1}, "cloudflare" :> {cf1, cf2}}
=============================================================================
