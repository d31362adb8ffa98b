------------------------------- MODULE MCEventBus -------------------------------
(***************************************************************************)
(* Instances of the event bus for TLC: the first subscriber asks for every *)
(* event, the others for the type that all events but one have.            *)
(***************************************************************************)
EXTENDS EventBus

CONSTANTS Catcher, Kind, OtherKind, OtherEvent

MCSubType   == [s \in Subs |-> IF s = Catcher THEN Base ELSE Kind]
MCEventType == [e \in Events |-> IF e = OtherEvent THEN OtherKind ELSE Kind]
=============================================================================
