------------------------------ MODULE HdcdTasks ------------------------------
(***************************************************************************)
(* How the daemon hdcd handles one message of a transfer (dispatch_task in *)
(* task.rs, file.rs, app.rs, flashd.rs).  A handler is an operator from    *)
(* the map of file tasks and the message to the map after and the messages *)
(* sent; ok says whether the operating system does what the handler asks   *)
(* of it.  The session handles one message at a time and takes the map's   *)
(* lock for each access, and no other task has the session's keys.         *)
(*                                                                         *)
(* A payload is a sequence: the words of a command line, the fields of a   *)
(* structure that a decision reads, or bytes.  The text of an echo is      *)
(* reduced to what its receiver tells apart.  The host of this repository  *)
(* never sends FileRecvInit, AppBegin and AppFinish; they are left out.    *)
(***************************************************************************)
EXTENDS ConnectMap, Sequences

TaskMessage(channel_id, command, payload) ==
    [channel_id |-> channel_id, command |-> command, payload |-> payload]

\* echo_client: "unknown" for a message hdcd does not take, "failed" for a
\* failure of the operating system.
EchoClient(channel_id, text) == TaskMessage(channel_id, "KernelEcho", <<text>>)

ChannelClose(channel_id) == TaskMessage(channel_id, "KernelChannelClose", <<0>>)

Effect(file_map, out) == [file_map |-> file_map, out |-> out]

\* Tells the sender off and leaves the map alone.
Refuse(file_map, m, text) == Effect(file_map, <<EchoClient(m.channel_id, text)>>)

\* file: the open target or None; content: what has been written to it
FileTransferState(remote_path) ==
    [remote_path |-> remote_path, file |-> "none", content |-> <<>>]

-----------------------------------------------------------------------------
(* file.rs                                                                 *)

\* "file send|recv [-cwd <cwd>] <path1> <path2>", or <<>>
ParseFilePaths(words) ==
    LET idx == IF words[3] = "-cwd" THEN 5 ELSE 3
    IN IF Len(words) < 4 THEN <<>>
       ELSE IF Len(words) < idx + 1 THEN <<>>
       ELSE <<words[idx], words[idx + 1]>>

HandleFileInit(file_map, m) ==
    LET paths == ParseFilePaths(m.payload)
    IN IF paths = <<>> THEN Refuse(file_map, m, "unknown")
       ELSE Effect(Put(file_map, m.channel_id, FileTransferState(paths[2])),
                   <<TaskMessage(m.channel_id, "FileCheck", <<0, paths[2], "">>)>>)

\* A FileCheck carries <<file_size, path, optional_name>>.
HandleFileCheck(file_map, m) ==
    Effect(IF m.channel_id \in DOMAIN file_map
           THEN [file_map EXCEPT ![m.channel_id].remote_path = m.payload[2]]
           ELSE file_map,
           <<TaskMessage(m.channel_id, "FileBegin", <<>>)>>)

\* A task put by FileInit or AppInit: the daemon is to receive the file.
HandleFileBegin(file_map, m, ok) ==
    IF m.channel_id \notin DOMAIN file_map THEN Refuse(file_map, m, "unknown")
    ELSE IF ok THEN Effect([file_map EXCEPT ![m.channel_id].file = "open",
                                            ![m.channel_id].content = <<>>], <<>>)
    ELSE Refuse(file_map, m, "failed")

\* The payload is written as it came.  Without an open file it is dropped.
HandleFileData(file_map, m, ok) ==
    IF m.channel_id \notin DOMAIN file_map THEN Refuse(file_map, m, "unknown")
    ELSE IF file_map[m.channel_id].file = "none" THEN Effect(file_map, <<>>)
    ELSE IF ok THEN Effect([file_map EXCEPT ![m.channel_id].content = Append(@, m.payload)], <<>>)
    ELSE Refuse(file_map, m, "failed")

HandleFileFinish(file_map, m) ==
    IF m.channel_id \notin DOMAIN file_map THEN Refuse(file_map, m, "unknown")
    ELSE Effect(Remove(file_map, m.channel_id), <<ChannelClose(m.channel_id)>>)

HandleFileTask(file_map, m, ok) ==
    CASE m.command = "FileInit" -> HandleFileInit(file_map, m)
      [] m.command = "FileCheck" -> HandleFileCheck(file_map, m)
      [] m.command = "FileBegin" -> HandleFileBegin(file_map, m, ok)
      [] m.command = "FileData" -> HandleFileData(file_map, m, ok)
      [] m.command = "FileFinish" -> HandleFileFinish(file_map, m)

-----------------------------------------------------------------------------
(* app.rs                                                                  *)

\* The path in "install [-cwd <cwd>] <path>", or <<>>.
ParseAppPath(words) ==
    LET idx == IF Len(words) > 2 /\ words[2] = "-cwd" THEN 4 ELSE 2
    IN IF Len(words) < 2 \/ Len(words) < idx THEN <<>> ELSE <<words[idx]>>

HandleAppInit(file_map, m) ==
    LET path == ParseAppPath(m.payload)
    IN IF path = <<>> THEN Refuse(file_map, m, "unknown")
       ELSE Effect(Put(file_map, m.channel_id, FileTransferState(path[1])),
                   <<TaskMessage(m.channel_id, "AppCheck", path)>>)

HandleAppCheck(file_map, m) ==
    Effect(file_map, <<TaskMessage(m.channel_id, "AppBegin", <<>>)>>)

HandleAppTask(file_map, m, ok) ==
    CASE m.command = "AppInit" -> HandleAppInit(file_map, m)
      [] m.command = "AppCheck" -> HandleAppCheck(file_map, m)
      \* handle_app_data is handle_file_data under another name
      [] m.command = "AppData" -> HandleFileData(file_map, m, ok)

-----------------------------------------------------------------------------
(* flashd.rs                                                               *)

FlashdStubCompleted(m) == TaskMessage(m.channel_id, "FlashdFinish", <<0, "Ok">>)

HandleFlashdTask(file_map, m) ==
    Effect(file_map,
           CASE m.command = "FlashdCheck" -> <<TaskMessage(m.channel_id, "FlashdBegin", <<>>)>>
             [] m.command = "FlashdData" -> <<>>
             [] m.command = "FlashdFinish" ->
                   IF m.payload = <<1>> THEN <<FlashdStubCompleted(m)>> ELSE <<>>
             [] m.command = "FlashdErase" -> <<FlashdStubCompleted(m)>>)

-----------------------------------------------------------------------------
(* task.rs                                                                 *)

HdcdDispatch(file_map, m, ok) ==
    CASE m.command \in {"FileInit", "FileCheck", "FileBegin", "FileData", "FileFinish"} ->
            HandleFileTask(file_map, m, ok)
      [] m.command \in {"AppInit", "AppCheck", "AppData"} -> HandleAppTask(file_map, m, ok)
      [] m.command \in {"FlashdCheck", "FlashdData", "FlashdFinish", "FlashdErase"} ->
            HandleFlashdTask(file_map, m)
      [] OTHER -> Refuse(file_map, m, "unknown")

=============================================================================
