------------------------------ MODULE InfoStubs ------------------------------
(***************************************************************************)
(* The stubs of the information server of Lab 01 - dop.  Each of the two   *)
(* files holds nine procedures; all but serv_login return their answer in  *)
(* an [out] buffer whose length the caller passes first.                   *)
(***************************************************************************)
EXTENDS NdrFormat

\* The client's copy.
InfoClientLogin    == Proc(0, 12, <<InText(0), InText(4), Return(8)>>)
InfoClientVersion  == Proc(1, 8,  <<InLong(0), OutArray(4)>>)
InfoClientTime     == Proc(2, 8,  <<InLong(0), OutArray(4)>>)
InfoClientUptime   == Proc(3, 8,  <<InLong(0), OutArray(4)>>)
InfoClientMemory   == Proc(4, 8,  <<InLong(0), OutArray(4)>>)
InfoClientDisks    == Proc(5, 8,  <<InLong(0), OutArray(4)>>)
InfoClientSpace    == Proc(6, 8,  <<InLong(0), OutArray(4)>>)
InfoClientOwner    == Proc(7, 12, <<InLong(0), OutArray(4), InText(8)>>)
InfoClientRights   == Proc(8, 12, <<InLong(0), OutArray(4), InText(8)>>)

InfoClientTypes == Types(0)

\* Mutant: one call site with the offset of its neighbour.
InfoClientCalls_Neighbour ==
  [serv_login |-> 0, serv_os_version |-> 42, serv_current_time |-> 78,
   serv_os_time |-> 78, serv_memory_status |-> 150, serv_disks_types |-> 186,
   serv_free_space |-> 222, serv_file_owner |-> 258, serv_file_access_right |-> 300]

InfoClientCalls ==
  [serv_login |-> 0, serv_os_version |-> 42, serv_current_time |-> 78,
   serv_os_time |-> 114, serv_memory_status |-> 150, serv_disks_types |-> 186,
   serv_free_space |-> 222, serv_file_owner |-> 258, serv_file_access_right |-> 300]

InfoClient ==
  [calls  |-> InfoClientCalls,
   types  |-> InfoClientTypes,
   format |-> [at \in {0, 42, 78, 114, 150, 186, 222, 258, 300} |->
                CASE at = 0 -> InfoClientLogin [] at = 42 -> InfoClientVersion
                  [] at = 78 -> InfoClientTime [] at = 114 -> InfoClientUptime
                  [] at = 150 -> InfoClientMemory [] at = 186 -> InfoClientDisks
                  [] at = 222 -> InfoClientSpace [] at = 258 -> InfoClientOwner
                  [] at = 300 -> InfoClientRights]]

\* The server's copy.
InfoServerLogin    == Proc(0, 12, <<InText(0), InText(4), Return(8)>>)
InfoServerVersion  == Proc(1, 8,  <<InLong(0), OutArray(4)>>)
InfoServerTime     == Proc(2, 8,  <<InLong(0), OutArray(4)>>)
InfoServerUptime   == Proc(3, 8,  <<InLong(0), OutArray(4)>>)
InfoServerMemory   == Proc(4, 8,  <<InLong(0), OutArray(4)>>)
InfoServerDisks    == Proc(5, 8,  <<InLong(0), OutArray(4)>>)
InfoServerSpace    == Proc(6, 8,  <<InLong(0), OutArray(4)>>)
InfoServerOwner    == Proc(7, 12, <<InLong(0), OutArray(4), InText(8)>>)
InfoServerRights   == Proc(8, 12, <<InLong(0), OutArray(4), InText(8)>>)

InfoServerTypes == Types(0)

\* Interface_FormatStringOffsetTable, by procedure number + 1.
InfoServerOffsets == <<0, 42, 78, 114, 150, 186, 222, 258, 300>>

\* Interface_ServerRoutineTable.
InfoServerRoutines ==
  <<"serv_login", "serv_os_version", "serv_current_time", "serv_os_time",
    "serv_memory_status", "serv_disks_types", "serv_free_space",
    "serv_file_owner", "serv_file_access_right">>

\* Interface_v1_0_DispatchTable: how many procedures there are.
InfoServerCount == 9

InfoServerStub ==
  [count    |-> InfoServerCount,
   offsets  |-> InfoServerOffsets,
   routines |-> InfoServerRoutines,
   types    |-> InfoServerTypes,
   format   |-> [at \in {0, 42, 78, 114, 150, 186, 222, 258, 300} |->
                  CASE at = 0 -> InfoServerLogin [] at = 42 -> InfoServerVersion
                    [] at = 78 -> InfoServerTime [] at = 114 -> InfoServerUptime
                    [] at = 150 -> InfoServerMemory [] at = 186 -> InfoServerDisks
                    [] at = 222 -> InfoServerSpace [] at = 258 -> InfoServerOwner
                    [] at = 300 -> InfoServerRights]]

\* The C prototypes of AppInterface.h.
InfoPrototypes ==
  [serv_login             |-> <<"text", "text">>,
   serv_os_version        |-> <<"size", "room">>,
   serv_current_time      |-> <<"size", "room">>,
   serv_os_time           |-> <<"size", "room">>,
   serv_memory_status     |-> <<"size", "room">>,
   serv_disks_types       |-> <<"size", "room">>,
   serv_free_space        |-> <<"size", "room">>,
   serv_file_owner        |-> <<"size", "room", "text">>,
   serv_file_access_right |-> <<"size", "room", "text">>]

\* The routines that are not void.
InfoReturns == {"serv_login"}

=============================================================================
