---------------------------- MODULE ProgramArgs ----------------------------
(***************************************************************************)
(* The way of a program's arguments: sys_exec copies the caller's argv     *)
(* into the kernel's buffers, setup_user_stack lays the strings and the    *)
(* pointers out on the new stack, byte by byte, and crt0 finds argc and    *)
(* argv there and calls main.                                              *)
(*                                                                         *)
(* An argument is its length and what the copy of it finds: a readable     *)
(* string, or a fault at its pointer or in its text.  A byte is a token: a *)
(* character <<argument, place>>, <<"nul">>, or a byte <<value, k>> of a   *)
(* stored word.                                                            *)
(***************************************************************************)
EXTENDS Integers, Sequences

CONSTANTS
    EXEC_MAX_ARGS,         \* 16 in the code
    EXEC_MAX_ARG_BYTES,    \* 512
    ARG_ADDRS,             \* entries of arg_addrs: 32
    WORD,                  \* sizeof(u64): 8
    STACK_TOP,
    MaxArgs,               \* bound: the arguments a caller passes
    Lengths                \* the lengths of their strings

ASSUME ArgsFit == EXEC_MAX_ARGS < ARG_ADDRS /\ STACK_TOP % WORD = 0

VARIABLES
    argv,       \* the caller's argv: what each pointer leads to
    started     \* what came of the call

argVars == <<argv, started>>

Arguments == [length : Lengths, text : {"ok", "fault"}, pointer : {"ok", "fault"}]

ArgsInit ==
    /\ argv = <<>>
    /\ started = [result |-> "none"]

(* A program calls execv. *)
execv ==
    /\ started.result = "none"
    /\ argv' \in UNION {[1 .. n -> Arguments] : n \in 0 .. MaxArgs}
    /\ started' = [result |-> "called"]

(* The program's own name, passed when argv is empty. *)
NameLength == 1

(***************************************************************************)
(* sys_exec's loop after i arguments: how many bytes of arg_storage are    *)
(* used, or the error that ended it.  copy_string_from_user wants the      *)
(* string and its NUL in what is left.                                     *)
(***************************************************************************)
copy_string_from_user(a, room) ==
    IF a.text = "fault" THEN "EFAULT"
    ELSE IF a.length + 1 > room THEN "ENAMETOOLONG" ELSE "ok"

gathered[i \in 0 .. EXEC_MAX_ARGS] ==
    IF i = 0 THEN [result |-> "ok", used |-> 0]
    ELSE LET before == gathered[i - 1]
             a == argv[i]
             copied == copy_string_from_user(a, EXEC_MAX_ARG_BYTES - before.used) IN
         IF before.result # "ok" THEN before
         ELSE IF a.pointer = "fault" THEN [before EXCEPT !.result = "EFAULT"]
         ELSE IF before.used >= EXEC_MAX_ARG_BYTES
              THEN [before EXCEPT !.result = "E2BIG"]
         ELSE [result |-> copied, used |-> before.used + a.length + 1]

argc == IF Len(argv) < EXEC_MAX_ARGS THEN Len(argv) ELSE EXEC_MAX_ARGS

(* The pointer after the last one the kernel has room for must be NULL. *)
exec_result ==
    LET loop == gathered[argc].result IN
    IF loop # "ok" THEN loop
    ELSE IF Len(argv) <= EXEC_MAX_ARGS THEN "ok"
    ELSE IF argv[EXEC_MAX_ARGS + 1].pointer = "fault" THEN "EFAULT" ELSE "E2BIG"

kargv == IF argc = 0 THEN <<NameLength>>
         ELSE [i \in 1 .. argc |-> argv[i].length]

---------------------------------------------------------------------------
(***************************************************************************)
(* setup_user_stack: the strings downwards from the top, the first one     *)
(* highest; then, below the next word boundary, NULL, the pointers from    *)
(* the last to the first, and argc.                                        *)
(***************************************************************************)
strings_at[i \in 0 .. ARG_ADDRS] ==
    IF i = 0 THEN STACK_TOP ELSE LET above == strings_at[i - 1] IN
                                 above - (kargv[i] + 1)

write_user_bytes(memory, at, bytes) ==
    [x \in DOMAIN memory |->
        IF x - at + 1 \in DOMAIN bytes THEN bytes[x - at + 1] ELSE memory[x]]

string_bytes(i) ==
    [k \in 1 .. kargv[i] + 1 |->
        IF k = kargv[i] + 1 THEN <<"nul">> ELSE <<"char", i, k>>]

word_bytes(v) == [k \in 1 .. WORD |-> <<"word", v, k>>]

with_strings[i \in 0 .. ARG_ADDRS] ==
    IF i = 0 THEN [x \in 0 .. STACK_TOP - 1 |-> <<"zero">>]
    ELSE LET before == with_strings[i - 1] IN
         write_user_bytes(before, strings_at[i], string_bytes(i))

(* sp &= ~0x7: the strings' end rounded down to a word. *)
aligned_sp == (strings_at[Len(kargv)] \div WORD) * WORD

(* Variant of pushes: the pointers from the first to the last. *)
pushes_forward ==
    <<0>> \o [j \in 1 .. Len(kargv) |-> strings_at[j]] \o <<Len(kargv)>>

(* The words pushed, first to last. *)
pushes ==
    <<0>> \o [j \in 1 .. Len(kargv) |-> strings_at[Len(kargv) + 1 - j]]
          \o <<Len(kargv)>>

push_u64(memory, j) ==
    write_user_bytes(memory, aligned_sp - j * WORD, word_bytes(pushes[j]))

pushed[j \in 0 .. ARG_ADDRS + 2] ==
    IF j = 0 THEN with_strings[Len(kargv)]
    ELSE LET before == pushed[j - 1] IN push_u64(before, j)

setup_user_stack ==
    [rsp |-> aligned_sp - Len(pushes) * WORD, memory |-> pushed[Len(pushes)]]

---------------------------------------------------------------------------
(* A word read from memory, if its bytes are those of one stored word. *)
load(memory, at) ==
    LET v == memory[at][2] IN
    IF \A k \in 1 .. WORD : memory[at + k - 1] = <<"word", v, k>> THEN v ELSE -1

(* The characters from an address to the first NUL. *)
c_string(memory, at) ==
    LET stop == CHOOSE x \in at .. STACK_TOP - 1 :
                    /\ memory[x] = <<"nul">>
                    /\ \A y \in at .. x - 1 : memory[y] # <<"nul">> IN
    [k \in 1 .. stop - at |-> memory[at + k - 1]]

(* crt0's _start: what main(argc, argv, NULL) can see. *)
_start(stack) ==
    LET n == load(stack.memory, stack.rsp)
        pointers == stack.rsp + WORD IN
    [argc |-> n,
     argv |-> [i \in 1 .. n |->
                 c_string(stack.memory, load(stack.memory, pointers + (i - 1) * WORD))],
     last |-> load(stack.memory, pointers + n * WORD)]

(* The whole of a sys_exec whose program can be loaded. *)
sys_exec ==
    /\ started.result = "called"
    /\ started' = IF exec_result = "ok"
                  THEN [result |-> "ok", main |-> _start(setup_user_stack)]
                  ELSE [result |-> exec_result]
    /\ UNCHANGED argv

ArgsNext == execv \/ sys_exec

---------------------------------------------------------------------------
(* The arguments a new program must be given. *)
Given ==
    IF argv = <<>>
    THEN [argc |-> 1, argv |-> <<[k \in 1 .. NameLength |-> <<"char", 1, k>>]>>,
          last |-> 0]
    ELSE [argc |-> Len(argv),
          argv |-> [i \in DOMAIN argv |->
                      [k \in 1 .. argv[i].length |-> <<"char", i, k>>]],
          last |-> 0]

RECURSIVE TotalBytes(_)
TotalBytes(n) == IF n = 0 THEN 0 ELSE argv[n].length + 1 + TotalBytes(n - 1)

(***************************************************************************)
(* A program that starts is given every argument of its caller's execv, in *)
(* order, whole, NUL-terminated and followed by a NULL pointer, or its own *)
(* name when there are none; and execv refuses exactly the argument lists  *)
(* that cannot be read, that have more than EXEC_MAX_ARGS entries or more  *)
(* than EXEC_MAX_ARG_BYTES bytes with their NULs: none is cut short        *)
(* (sys_exec, setup_user_stack, push_u64, _start).                         *)
(***************************************************************************)
ArgumentsArrive ==
    LET readable == \A i \in DOMAIN argv : argv[i].pointer = "ok" /\ argv[i].text = "ok"
        fits == Len(argv) <= EXEC_MAX_ARGS
                /\ TotalBytes(Len(argv)) <= EXEC_MAX_ARG_BYTES IN
    started.result \notin {"none", "called"} =>
        /\ started.result = "ok" <=> readable /\ fits
        /\ started.result = "ok" => started.main = Given
=============================================================================
