--------------------------- MODULE MCGpuListWalk ---------------------------
(***************************************************************************)
(* Lists of a few nodes: state words behind drawing, an upload, empty      *)
(* nodes, a node of two packets.  A program that stops and reads back      *)
(* keeps its packets within nodes; one that only pauses lets packets and   *)
(* uploads go on in the next node, or links a node of more words than the  *)
(* FIFO and the allowance of its head take.                                *)
(***************************************************************************)
EXTENDS GpuListWalk

Rect   == <<"draw", "param">>
Upload == <<"image", "param", "param", "pixel", "pixel">>

WholeLists ==
  { <<Rect \o <<"state">>, <<>>, Rect \o <<"env">>>>,
    <<Rect \o Rect, <<"state", "env">>>>,
    <<Upload, Rect>> }
SpanningLists ==
  { <<Rect \o Rect \o Rect \o Rect \o Rect>>,
    <<<<"draw">>, <<"param", "env">> \o Rect>>,
    <<Rect, <<"image", "param", "param">>, <<"pixel">>, <<"pixel">> \o Rect>> }

MCPrograms ==
  { [lists |-> WholeLists, does |-> {"stop", "dpcr", "manual"}, stores |-> 5],
    [lists |-> SpanningLists, does |-> {"dpcr"}, stores |-> 5] }

ASSUME PacketsAssumption == \A p \in MCPrograms : SendsPackets(p)
=============================================================================
