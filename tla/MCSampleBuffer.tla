---------------------------- MODULE MCSampleBuffer ----------------------------
(***************************************************************************)
(* Instance for TLC of the two ways what the monitor sees reaches the      *)
(* store: samples through the buffer, where the monitor hands units over   *)
(* and writes events after them, one reader, which also closes the store,  *)
(* and one timer; and the outage record those events make.  The models do  *)
(* not share state: the one a behaviour is about is chosen first, and the  *)
(* other stays where it began.                                             *)
(***************************************************************************)
EXTENDS SampleBuffer, OutageClosing

CONSTANTS monitor, reader, t1, nobody

OneInserter == {monitor}
OneReader   == {reader}
OneTimer    == {t1}

VARIABLE explored

StoreInit ==
    /\ explored \in {"samples", "outages"}
    /\ Init /\ OcInit
    /\ explored = "samples" => ocEvents = {}

StoreNext ==
    /\ UNCHANGED explored
    /\ \/ explored = "samples" /\ Next /\ UNCHANGED ocVars
       \/ explored = "outages" /\ OcNext /\ UNCHANGED vars

StoreSpec == StoreInit /\ [][StoreNext]_<<explored, vars, ocVars>>
=============================================================================
