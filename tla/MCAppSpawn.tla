------------------------------ MODULE MCAppSpawn ------------------------------
(* AppSpawn for TLC: lives of the spawner in which any call but the making of *)
(* pipes can fail, and in which any call can.                                 *)
EXTENDS AppSpawn

NotPipe  == {"fork", "map", "write", "watch", "send"}
Families == {NotPipe, NotPipe \cup {"pipe"}}
=============================================================================
