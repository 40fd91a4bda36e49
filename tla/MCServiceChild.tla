-------------------------- MODULE MCServiceChild --------------------------
(* A small instance: two capabilities to configure beside the three init    *)
(* needs, one of which is perhaps named twice, no, one or two groups, root   *)
(* and an ordinary user.                                                     *)
EXTENDS ServiceChild

MCCaps == {"setgid", "setuid", "setpcap", "net", "sys"}
MCCapLists == {<<>>, <<"net">>, <<"net", "sys">>, <<"net", "net">>, <<Full>>, <<"sys", Full>>}
MCGidLists == {<<>>, <<10>>, <<10, 11>>}
MCUids == {0, 20}

=============================================================================
