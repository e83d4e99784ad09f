--------------------------------- MODULE MCItemMap ---------------------------------
(***************************************************************************)
(* Small instances of a map and of the recorder: a behaviour is one of a map   *)
(* over lists of none to four items, or one of a run with a map in a map.      *)
(***************************************************************************)
EXTENDS ItemMap, Recorder

MCLists == {<<>>, <<"a", "b">>, <<"a", "b", "a">>, <<"b", "b", "a", "a">>}
MCWorld(outer, inner, called) == [outer |-> outer, inner |-> inner, called |-> called]
MCWorlds == {MCWorld(<<"a">>, <<"b">>, <<"a">>), MCWorld(<<"b", "a">>, <<"b">>, <<"b">>)}

RecIdle ==
    /\ private = FALSE /\ world \in [step : {0}, lists : {MCWorld(<<"a">>, <<"b">>, <<"a">>)}]
    /\ active = {} /\ writes = Empty /\ phase = "ended"
    /\ host = [world |-> world, active |-> active, pending |-> writes]
    /\ body = Empty /\ gave = Empty /\ tries = 1 /\ edited = FALSE
MapIdle ==
    /\ conf = [policy |-> "Finish", width |-> 0, called |-> FALSE] /\ list = <<>>
    /\ item = <<>> /\ result = <<>> /\ stop = FALSE /\ entries = <<>>
    /\ pc = "none" /\ out = NoOut /\ attempt = 0 /\ ended = <<>>

MCInit == \/ Init /\ RecIdle
          \/ RecInit /\ MapIdle
MapStep == pc # "none" /\ Next /\ UNCHANGED recvars
RecStep == pc = "none" /\ RecNext /\ UNCHANGED vars
MCNext == MapStep \/ RecStep
MCSpec == MCInit /\ [][MCNext]_<<vars, recvars>>
====================================================================================
