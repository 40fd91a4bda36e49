---------------------------- MODULE MCInitService ----------------------------
(* InitService for TLC: the kinds of services a configuration file makes,   *)
(* and lives of init in which no call fails or any call can.                *)
EXTENDS InitService

AllKinds ==
  {{}, {"once"}, {"period"}, {"ondemand"}, {"critical"}, {"once", "period"},
   {"once", "ondemand"}}
NoneOrAll == {{}, {"stat", "fork", "timer", "kill", "watch"}}
=============================================================================
