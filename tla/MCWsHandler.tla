------------------------------ MODULE MCWsHandler ------------------------------
(***************************************************************************)
(* Instances of WsHandler for TLC: the handler next to a watcher with an    *)
(* on_loop_will_select() and one without, which share a descriptor.         *)
(***************************************************************************)
EXTENDS WsHandlerProperties

CONSTANTS w1, w2

FirstAdded == <<w1>>
WatchesFor == [w \in Watchers |-> IF w = w1 THEN {"read"} ELSE Directions]
Descriptors == [w \in Watchers |-> IF w = Ws THEN 3 ELSE 4]
=============================================================================
