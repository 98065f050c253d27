-------------------------------- MODULE Dfs --------------------------------
(***************************************************************************)
(* The descriptor table of the virtual file system and the RAM file system *)
(* below it: open, close, read and write, unlink by several threads.       *)
(*                                                                         *)
(* fslock protects fd_new, fd_get, fd_put and the scan of fd_is_open, each *)
(* of which is one step here.  dfs_file_open and dfs_file_unlink run       *)
(* without it between those steps: they look whether the path is open, and *)
(* act on the answer later.                                                *)
(***************************************************************************)
EXTENDS Naturals, FiniteSets

CONSTANTS
    Threads,
    Paths,
    FdMax,      \* DFS_FD_MAX
    NodeMax     \* bound: directory entries ever made

VARIABLES
    fds,        \* the table: by descriptor, Null or ref_count, path, data
    files,      \* the RAM file system: by path, the number of its entry or 0
    made,       \* directory entries made so far
    thread,     \* by thread: step, descriptor, path of the call it is in
    mine        \* by thread: the descriptor an open has given it, or None

vars == <<fds, files, made, thread, mine>>

Null == [ref_count |-> 0, path |-> "", data |-> 0]
NoPath == ""
None == 0
Out == [pc |-> "out", fd |-> None, path |-> NoPath]

Init ==
    /\ fds = [d \in 1 .. FdMax |-> Null]
    /\ files \in [Paths -> {0}]
    /\ made = 0
    /\ thread = [t \in Threads |-> Out]
    /\ mine = [t \in Threads |-> None]

Goto(t, pc) == thread' = [thread EXCEPT ![t].pc = pc]

\* Mutant: a descriptor is taken for free while its path is not set.
FreeNoPath == {d \in 1 .. FdMax : fds[d].path = NoPath}

\* fd_alloc: the entries it may take.
FreeEntries == {d \in 1 .. FdMax : fds[d].ref_count = 0}

\* open: fd_new.  It fails when the table is full or without memory.
FdNew(t, p) ==
    /\ thread[t] = Out /\ mine[t] = None
    /\ \E d \in FreeEntries :
           /\ \A e \in FreeEntries : d <= e
           /\ fds' = [fds EXCEPT ![d] = [Null EXCEPT !.ref_count = 1]]
           /\ thread' = [thread EXCEPT ![t] = [pc |-> "get", fd |-> d, path |-> p]]
    /\ UNCHANGED <<files, made, mine>>

\* fd_get by open.
OpenGet(t) ==
    /\ thread[t].pc = "get"
    /\ fds' = [fds EXCEPT ![thread[t].fd].ref_count = @ + 1]
    /\ Goto(t, "check")
    /\ UNCHANGED <<files, made, mine>>

\* fd_is_open.
IsOpen(p) == \E d \in 1 .. FdMax : fds[d].path = p

\* dfs_file_open, "Check whether file is already open": -EBUSY, or on.
OpenCheck(t) ==
    /\ thread[t].pc = "check"
    /\ Goto(t, IF IsOpen(thread[t].path) THEN "undo" ELSE "path")
    /\ UNCHANGED <<fds, files, made, mine>>

\* The descriptor gets its file system and path.
OpenPath(t) ==
    /\ thread[t].pc = "path"
    /\ fds' = [fds EXCEPT ![thread[t].fd].path = thread[t].path]
    /\ Goto(t, "fs")
    /\ UNCHANGED <<files, made, mine>>

\* dfs_ramfs_open: the entry is found, or made when the flags ask for it
\* and memory allows; otherwise the path is cleared again and open fails.
OpenFs(t) ==
    /\ thread[t].pc = "fs"
    /\ LET d == thread[t].fd
           p == thread[t].path
       IN  \/ /\ files[p] # 0
              /\ fds' = [fds EXCEPT ![d].data = files[p]]
              /\ Goto(t, "opened")
              /\ UNCHANGED <<files, made>>
           \/ /\ files[p] = 0 /\ made < NodeMax
              /\ made' = made + 1
              /\ files' = [files EXCEPT ![p] = made + 1]
              /\ fds' = [fds EXCEPT ![d].data = made + 1]
              /\ Goto(t, "opened")
           \/ /\ files[p] = 0
              /\ fds' = [fds EXCEPT ![d].path = NoPath]
              /\ Goto(t, "undo")
              /\ UNCHANGED <<files, made>>
    /\ UNCHANGED mine

\* fd_put.
fd_put(d) ==
    IF fds[d].ref_count = 1
    THEN [fds EXCEPT ![d] = Null] ELSE [fds EXCEPT ![d].ref_count = @ - 1]

\* The last fd_put of open, and its return.
OpenDone(t) ==
    /\ thread[t].pc = "opened"
    /\ fds' = fd_put(thread[t].fd)
    /\ mine' = [mine EXCEPT ![t] = thread[t].fd]
    /\ thread' = [thread EXCEPT ![t] = Out]
    /\ UNCHANGED <<files, made>>

\* The two calls of fd_put after a failure, and the first of close.
FirstPut(t) ==
    /\ thread[t].pc = "undo"
    /\ fds' = fd_put(thread[t].fd)
    /\ Goto(t, "last")
    /\ UNCHANGED <<files, made, mine>>

LastPut(t) ==
    /\ thread[t].pc = "last"
    /\ fds' = fd_put(thread[t].fd)
    /\ thread' = [thread EXCEPT ![t] = Out]
    /\ UNCHANGED <<files, made, mine>>

\* read, write, lseek or close: fd_get of the thread's own descriptor.
UseGet(t, call) ==
    /\ thread[t] = Out /\ mine[t] # None
    /\ fds' = [fds EXCEPT ![mine[t]].ref_count = @ + 1]
    /\ thread' = [thread EXCEPT ![t] = [Out EXCEPT !.pc = call, !.fd = mine[t]]]
    /\ UNCHANGED <<files, made, mine>>

\* The transfer through the descriptor's directory entry, then fd_put.
Transfer(t) ==
    /\ thread[t].pc = "transfer"
    /\ Goto(t, "last")
    /\ UNCHANGED <<fds, files, made, mine>>

\* dfs_file_close: the file system's close, and the path is freed.
Close(t) ==
    /\ thread[t].pc = "close"
    /\ fds' = [fds EXCEPT ![thread[t].fd].data = 0, ![thread[t].fd].path = NoPath]
    /\ mine' = [mine EXCEPT ![t] = None]
    /\ Goto(t, "undo")
    /\ UNCHANGED <<files, made>>

\* dfs_file_unlink: the look whether the path is open ...
UnlinkCheck(t, p) ==
    /\ thread[t] = Out
    /\ ~IsOpen(p)
    /\ thread' = [thread EXCEPT ![t] = [Out EXCEPT !.pc = "unlink", !.path = p]]
    /\ UNCHANGED <<fds, files, made, mine>>

\* ... and dfs_ramfs_unlink, which frees the entry.
Unlink(t) ==
    /\ thread[t].pc = "unlink"
    /\ files' = [files EXCEPT ![thread[t].path] = 0]
    /\ thread' = [thread EXCEPT ![t] = Out]
    /\ UNCHANGED <<fds, made, mine>>

Step(t) ==
    \/ \E p \in Paths : FdNew(t, p) \/ UnlinkCheck(t, p)
    \/ OpenGet(t) \/ OpenCheck(t) \/ OpenPath(t) \/ OpenFs(t) \/ OpenDone(t)
    \/ FirstPut(t) \/ LastPut(t)
    \/ \E call \in {"transfer", "close"} : UseGet(t, call)
    \/ Transfer(t) \/ Close(t) \/ Unlink(t)

Next == \E t \in Threads : Step(t)

Spec == Init /\ [][Next]_vars

-----------------------------------------------------------------------------
\* The ranges of the variables.
TypeOK ==
    /\ fds \in [1 .. FdMax -> [ref_count : 0 .. 2, path : Paths \cup {NoPath},
                               data : 0 .. NodeMax]]
    /\ files \in [Paths -> 0 .. NodeMax]
    /\ mine \in [Threads -> 0 .. FdMax]

\* The references a thread holds to a descriptor: the one that lives from
\* fd_new to the last fd_put, and the one of the call it is in.
Holds(t, d) ==
    (IF mine[t] = d THEN 1 ELSE 0)
      + (IF thread[t].fd # d THEN 0
         ELSE IF thread[t].pc \in {"check", "path", "fs", "opened", "undo"} THEN 2 ELSE 1)

\* Every reference count is the number of references that the threads hold:
\* fd_new, fd_get and fd_put balance over every path through open, read,
\* write and close, so no descriptor is lost to the table and none is given
\* to two threads.
RefsBalanced ==
    \A d \in 1 .. FdMax :
        /\ \A t, u \in Threads : t # u => Holds(t, d) = 0 \/ Holds(u, d) = 0
        /\ \A t \in Threads : Holds(t, d) > 0 => fds[d].ref_count = Holds(t, d)
        /\ (\A t \in Threads : Holds(t, d) = 0) => fds[d] = Null

\* "Check whether file is already open" (dfs_file.c): a path is never open
\* twice, and the entry behind an open descriptor is still in its directory.
OpenFilesIntact ==
    \A t, u \in Threads :
        mine[t] # None =>
            /\ files[fds[mine[t]].path] = fds[mine[t]].data
            /\ t # u /\ mine[u] # None => fds[mine[t]].path # fds[mine[u]].path
=============================================================================
