------------------------------ MODULE FileStubs ------------------------------
(***************************************************************************)
(* The stubs of the file server of Lab 02: AppInterface_c.c is compiled    *)
(* into the client, AppInterface_s.c into the server.  The two files are   *)
(* generated apart and hold their own copy of every table; whether the     *)
(* copies fit together is checked in RpcCall.                              *)
(***************************************************************************)
EXTENDS NdrFormat

\* The client's copy.
FileClientLogin    == Proc(0, 12, <<InText(0), InText(4), Return(8)>>)
FileClientRemove   == Proc(1, 8,  <<InText(0), Return(4)>>)
FileClientDownload == Proc(2, 16, <<InText(0), OutArray(4), InLong(8), Return(12)>>)
FileClientUpload   == Proc(3, 16, <<InText(0), InArray(4), InLong(8), Return(12)>>)
\* Mutant: the client does not expect the return value.
FileClientSize_Void == Proc(4, 8, <<InText(0)>>)
FileClientSize     == Proc(4, 8,  <<InText(0), Return(4)>>)

FileClientTypes == Types(8)

\* Where in the procedure format string each client routine tells the RPC
\* runtime to look.
FileClientCalls ==
  [serv_login |-> 0, serv_remove |-> 42, serv_download |-> 78,
   serv_upload |-> 126, serv_get_file_size |-> 174]

FileClient ==
  [calls  |-> FileClientCalls,
   types  |-> FileClientTypes,
   format |-> [at \in {0, 42, 78, 126, 174} |->
                CASE at = 0 -> FileClientLogin [] at = 42 -> FileClientRemove
                  [] at = 78 -> FileClientDownload [] at = 126 -> FileClientUpload
                  [] at = 174 -> FileClientSize]]

\* The server's copy.
FileServerLogin    == Proc(0, 12, <<InText(0), InText(4), Return(8)>>)
\* Mutant: the path is marked [out].
FileServerRemove_Out == Proc(1, 8, <<Param("out", 0, TextType), Return(4)>>)
FileServerRemove   == Proc(1, 8,  <<InText(0), Return(4)>>)
FileServerDownload == Proc(2, 16, <<InText(0), OutArray(4), InLong(8), Return(12)>>)
FileServerUpload   == Proc(3, 16, <<InText(0), InArray(4), InLong(8), Return(12)>>)
FileServerSize     == Proc(4, 8,  <<InText(0), Return(4)>>)

FileServerTypes == Types(8)

\* Interface_FormatStringOffsetTable, by procedure number + 1.
FileServerOffsets == <<0, 42, 78, 126, 174>>

\* Interface_ServerRoutineTable.
FileServerRoutines ==
  <<"serv_login", "serv_remove", "serv_download", "serv_upload", "serv_get_file_size">>

\* Interface_v1_0_DispatchTable: how many procedures there are.
FileServerCount == 5

FileServerStub ==
  [count    |-> FileServerCount,
   offsets  |-> FileServerOffsets,
   routines |-> FileServerRoutines,
   types    |-> FileServerTypes,
   format   |-> [at \in {0, 42, 78, 126, 174} |->
                  CASE at = 0 -> FileServerLogin [] at = 42 -> FileServerRemove
                    [] at = 78 -> FileServerDownload [] at = 126 -> FileServerUpload
                    [] at = 174 -> FileServerSize]]

\* The C prototypes both programs are compiled against (AppInterface.h): the
\* kinds of the arguments, 4 bytes of the frame each.
FilePrototypes ==
  [serv_login         |-> <<"text", "text">>,
   serv_remove        |-> <<"text">>,
   serv_download      |-> <<"text", "room", "size">>,
   serv_upload        |-> <<"text", "bytes", "size">>,
   serv_get_file_size |-> <<"text">>]

FileReturns == DOMAIN FilePrototypes

=============================================================================
