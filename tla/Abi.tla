-------------------------------- MODULE Abi --------------------------------
(***************************************************************************)
(* The two sides of the system call interface: libocean's call numbers and *)
(* typed wrappers, and the kernel's numbers, its table of handlers and the *)
(* arguments each *_dispatch function hands on.  The two headers are       *)
(* separate copies, so each is translated on its own.                      *)
(*                                                                         *)
(* An argument is a token <<parameter, call>>.                             *)
(***************************************************************************)
EXTENDS Integers, Sequences

(* lib/libocean/include/ocean/syscall.h *)
libocean_numbers ==
    [SYS_EXIT |-> 0, SYS_FORK |-> 1, SYS_EXEC |-> 2, SYS_WAIT |-> 3,
     SYS_GETPID |-> 4, SYS_GETPPID |-> 5, SYS_YIELD |-> 10, SYS_SLEEP |-> 11,
     SYS_THREAD_CREATE |-> 12, SYS_THREAD_EXIT |-> 13, SYS_BRK |-> 20,
     SYS_MMAP |-> 21, SYS_MUNMAP |-> 22, SYS_MPROTECT |-> 23, SYS_OPEN |-> 30,
     SYS_CLOSE |-> 31, SYS_READ |-> 32, SYS_WRITE |-> 33, SYS_LSEEK |-> 34,
     SYS_IPC_SEND |-> 50, SYS_IPC_RECV |-> 51, SYS_IPC_CALL |-> 52,
     SYS_IPC_REPLY |-> 53, SYS_IPC_REPLY_RECV |-> 54,
     SYS_ENDPOINT_CREATE |-> 60, SYS_ENDPOINT_DESTROY |-> 61,
     SYS_CAP_COPY |-> 62, SYS_CAP_DELETE |-> 63, SYS_CAP_MINT |-> 64,
     SYS_CAP_REVOKE |-> 65, SYS_ENDPOINT_CREATE_WKE |-> 66,
     SYS_NOTIFY_SIGNAL |-> 70, SYS_NOTIFY_WAIT |-> 71, SYS_NOTIFY_POLL |-> 72,
     SYS_DEBUG_PRINT |-> 99]

(* The wrappers: the number and the arguments each passes, in order.       *)
(* SYS_SLEEP stands for a raw call with a number no handler has.           *)
wrappers ==
    [SYS_EXIT |-> <<"status">>, SYS_GETPID |-> <<>>, SYS_GETPPID |-> <<>>,
     SYS_YIELD |-> <<>>, SYS_FORK |-> <<>>, SYS_EXEC |-> <<"path", "argv", "envp">>,
     SYS_WAIT |-> <<"status">>, SYS_WRITE |-> <<"fd", "buf", "count">>,
     SYS_READ |-> <<"fd", "buf", "count">>, SYS_OPEN |-> <<"path", "flags", "mode">>,
     SYS_CLOSE |-> <<"fd">>, SYS_LSEEK |-> <<"fd", "offset", "whence">>,
     SYS_DEBUG_PRINT |-> <<"msg", "len">>, SYS_ENDPOINT_CREATE |-> <<"flags">>,
     SYS_ENDPOINT_CREATE_WKE |-> <<"id", "flags">>,
     SYS_ENDPOINT_DESTROY |-> <<"ep">>,
     SYS_IPC_SEND |-> <<"ep", "tag", "r1", "r2", "r3", "r4">>,
     SYS_IPC_RECV |-> <<"ep", "tag", "r1", "r2", "r3", "r4">>,
     SYS_IPC_CALL |-> <<"ep", "frame">>,
     SYS_IPC_REPLY |-> <<"tag", "r1", "r2", "r3", "r4">>,
     SYS_SLEEP |-> <<>>]

Calls == DOMAIN wrappers

(* kernel/include/ocean/syscall.h *)
kernel_numbers ==
    [SYS_EXIT |-> 0, SYS_FORK |-> 1, SYS_EXEC |-> 2, SYS_WAIT |-> 3,
     SYS_GETPID |-> 4, SYS_GETPPID |-> 5, SYS_YIELD |-> 10, SYS_SLEEP |-> 11,
     SYS_THREAD_CREATE |-> 12, SYS_THREAD_EXIT |-> 13, SYS_BRK |-> 20,
     SYS_MMAP |-> 21, SYS_MUNMAP |-> 22, SYS_MPROTECT |-> 23, SYS_OPEN |-> 30,
     SYS_CLOSE |-> 31, SYS_READ |-> 32, SYS_WRITE |-> 33, SYS_LSEEK |-> 34,
     SYS_IPC_SEND |-> 50, SYS_IPC_RECV |-> 51, SYS_IPC_CALL |-> 52,
     SYS_IPC_REPLY |-> 53, SYS_IPC_REPLY_RECV |-> 54,
     SYS_ENDPOINT_CREATE |-> 60, SYS_ENDPOINT_DESTROY |-> 61,
     SYS_CAP_COPY |-> 62, SYS_CAP_DELETE |-> 63, SYS_CAP_MINT |-> 64,
     SYS_CAP_REVOKE |-> 65, SYS_ENDPOINT_CREATE_WKE |-> 66,
     SYS_NOTIFY_SIGNAL |-> 70, SYS_NOTIFY_WAIT |-> 71, SYS_NOTIFY_POLL |-> 72,
     SYS_DEBUG_PRINT |-> 99]

NR_SYSCALLS == 128

(* The *_dispatch functions: the parameters of the handler each calls, in  *)
(* the order of the arguments they are taken from.                         *)
dispatchers ==
    [sys_exit |-> <<"status">>, sys_fork |-> <<>>,
     sys_exec |-> <<"path", "argv", "envp">>, sys_wait |-> <<"status">>,
     sys_getpid |-> <<>>, sys_getppid |-> <<>>, sys_yield |-> <<>>,
     sys_read |-> <<"fd", "buf", "count">>, sys_write |-> <<"fd", "buf", "count">>,
     sys_open |-> <<"path", "flags", "mode">>, sys_close |-> <<"fd">>,
     sys_lseek |-> <<"fd", "offset", "whence">>,
     sys_ipc_send |-> <<"ep", "tag", "r1", "r2", "r3", "r4">>,
     sys_ipc_recv |-> <<"ep", "tag", "r1", "r2", "r3", "r4">>,
     sys_ipc_call |-> <<"ep", "frame">>,
     sys_ipc_reply |-> <<"tag", "r1", "r2", "r3", "r4">>,
     sys_endpoint_create |-> <<"flags">>, sys_endpoint_destroy |-> <<"ep">>,
     sys_endpoint_create_wke |-> <<"id", "flags">>,
     sys_debug_print |-> <<"msg", "len">>]

syscall_table ==
    [SYS_EXIT |-> "sys_exit", SYS_FORK |-> "sys_fork", SYS_EXEC |-> "sys_exec",
     SYS_WAIT |-> "sys_wait", SYS_GETPID |-> "sys_getpid",
     SYS_GETPPID |-> "sys_getppid", SYS_YIELD |-> "sys_yield",
     SYS_OPEN |-> "sys_open", SYS_CLOSE |-> "sys_close", SYS_READ |-> "sys_read",
     SYS_WRITE |-> "sys_write", SYS_LSEEK |-> "sys_lseek",
     SYS_IPC_SEND |-> "sys_ipc_send", SYS_IPC_RECV |-> "sys_ipc_recv",
     SYS_IPC_CALL |-> "sys_ipc_call", SYS_IPC_REPLY |-> "sys_ipc_reply",
     SYS_ENDPOINT_CREATE |-> "sys_endpoint_create",
     SYS_ENDPOINT_DESTROY |-> "sys_endpoint_destroy",
     SYS_ENDPOINT_CREATE_WKE |-> "sys_endpoint_create_wke",
     SYS_DEBUG_PRINT |-> "sys_debug_print"]

ENOSYS == [handler |-> "ENOSYS", parameters |-> <<>>]

(* syscall_dispatch and the *_dispatch function it reaches: the handler    *)
(* and, by name, the argument each of its parameters is given.             *)
syscall_dispatch(nr, a) ==
    LET entries == {s \in DOMAIN syscall_table : kernel_numbers[s] = nr} IN
    IF nr >= NR_SYSCALLS \/ entries = {}
    THEN ENOSYS
    ELSE LET h == syscall_table[CHOOSE s \in entries : TRUE] IN
         [handler |-> h,
          parameters |-> [i \in 1 .. Len(dispatchers[h]) |->
                            <<dispatchers[h][i], a[i]>>]]

(* The handler each wrapper is meant for. *)
intended ==
    [SYS_EXIT |-> "sys_exit", SYS_GETPID |-> "sys_getpid",
     SYS_GETPPID |-> "sys_getppid", SYS_YIELD |-> "sys_yield",
     SYS_FORK |-> "sys_fork", SYS_EXEC |-> "sys_exec", SYS_WAIT |-> "sys_wait",
     SYS_WRITE |-> "sys_write", SYS_READ |-> "sys_read", SYS_OPEN |-> "sys_open",
     SYS_CLOSE |-> "sys_close", SYS_LSEEK |-> "sys_lseek",
     SYS_DEBUG_PRINT |-> "sys_debug_print",
     SYS_ENDPOINT_CREATE |-> "sys_endpoint_create",
     SYS_ENDPOINT_CREATE_WKE |-> "sys_endpoint_create_wke",
     SYS_ENDPOINT_DESTROY |-> "sys_endpoint_destroy",
     SYS_IPC_SEND |-> "sys_ipc_send", SYS_IPC_RECV |-> "sys_ipc_recv",
     SYS_IPC_CALL |-> "sys_ipc_call", SYS_IPC_REPLY |-> "sys_ipc_reply",
     SYS_SLEEP |-> "ENOSYS"]

(* What the kernel should make of a wrapper's call. *)
Meant(c) ==
    [handler |-> intended[c],
     parameters |-> [i \in 1 .. Len(wrappers[c]) |->
                        <<wrappers[c][i], <<wrappers[c][i], c>>>>]]
=============================================================================
