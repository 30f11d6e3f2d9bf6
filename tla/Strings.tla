------------------------------ MODULE Strings ------------------------------
(***************************************************************************)
(* The memory and string functions of lib/libc/src/string.c, and those of  *)
(* kernel/lib/string.c that work differently (k_ names: word copies, other *)
(* loops), as the loops they are, over a memory of MemBytes bytes.  Each   *)
(* step calls one function on arguments C allows: regions inside memory,   *)
(* terminated strings, no overlap where the function forbids it.  A        *)
(* destination has the size C asks for and may end where memory does.      *)
(***************************************************************************)
EXTENDS Integers, FiniteSets

CONSTANTS MemBytes,         \* addresses 0 .. MemBytes - 1
          WORD_BYTES,       \* bytes of a word copy, 8 in the kernel
          Chars             \* byte values other than 0

VARIABLES memory,           \* what the functions work on
          call              \* what the call gave, what it should give, and the
                            \*   byte it may have cleared besides

stringVars == <<memory, call>>

Addrs == 0 .. MemBytes - 1
NULL_ADDR == -1
Aligned(a) == a % WORD_BYTES = 0

\* A store; one behind the end of memory hits nothing that is looked at.
Store(m, a, b) == IF a \in Addrs THEN [m EXCEPT ![a] = b] ELSE m

RECURSIVE memcpy(_, _, _, _)
memcpy(m, d, s, n) == IF n = 0 THEN m ELSE memcpy(Store(m, d, m[s]), d + 1, s + 1, n - 1)

RECURSIVE copy_down(_, _, _, _)
copy_down(m, d, s, n) ==
    IF n = 0 THEN m ELSE copy_down(Store(m, d + n - 1, m[s + n - 1]), d, s, n - 1)

memmove(m, d, s, n) == IF d < s THEN memcpy(m, d, s, n) ELSE copy_down(m, d, s, n)

RECURSIVE memset(_, _, _, _)
memset(m, d, c, n) == IF n = 0 THEN m ELSE memset(Store(m, d, c), d + 1, c, n - 1)

\* A word is read whole before any byte of it is written.
RECURSIVE copy_words(_, _, _, _)
copy_words(m, d, s, n) ==
    IF n < WORD_BYTES THEN memcpy(m, d, s, n)
    ELSE copy_words([a \in Addrs |-> IF a \in d .. d + WORD_BYTES - 1 THEN m[s + a - d] ELSE m[a]],
                    d + WORD_BYTES, s + WORD_BYTES, n - WORD_BYTES)

k_memcpy(m, d, s, n) ==
    IF Aligned(d) /\ Aligned(s) THEN copy_words(m, d, s, n) ELSE memcpy(m, d, s, n)

\* Variant of k_memmove: always copies upwards.
k_memmove_up(m, d, s, n) == IF d = s \/ n = 0 THEN m ELSE k_memcpy(m, d, s, n)

k_memmove(m, d, s, n) ==
    IF d = s \/ n = 0 THEN m
    ELSE IF d < s \/ d >= s + n THEN k_memcpy(m, d, s, n)
    ELSE copy_down(m, d, s, n)

RECURSIVE zero_words(_, _, _)
zero_words(m, d, n) ==
    IF n < WORD_BYTES THEN memset(m, d, 0, n)
    ELSE zero_words([a \in Addrs |-> IF a \in d .. d + WORD_BYTES - 1 THEN 0 ELSE m[a]],
                    d + WORD_BYTES, n - WORD_BYTES)

k_memset(m, d, c, n) ==
    IF c = 0 /\ n >= WORD_BYTES /\ Aligned(d) THEN zero_words(m, d, n) ELSE memset(m, d, c, n)

RECURSIVE memcmp(_, _, _, _)
memcmp(m, p, q, n) ==
    IF n = 0 THEN 0 ELSE IF m[p] # m[q] THEN m[p] - m[q] ELSE memcmp(m, p + 1, q + 1, n - 1)

RECURSIVE memchr(_, _, _, _)
memchr(m, p, c, n) ==
    IF n = 0 THEN NULL_ADDR ELSE IF m[p] = c THEN p ELSE memchr(m, p + 1, c, n - 1)

RECURSIVE strlen(_, _)
strlen(m, s) == IF m[s] = 0 THEN 0 ELSE 1 + strlen(m, s + 1)

RECURSIVE strnlen(_, _, _)
strnlen(m, s, max) == IF max = 0 \/ m[s] = 0 THEN 0 ELSE 1 + strnlen(m, s + 1, max - 1)

RECURSIVE strcpy(_, _, _)
strcpy(m, d, s) ==
    IF m[s] = 0 THEN Store(m, d, 0) ELSE strcpy(Store(m, d, m[s]), d + 1, s + 1)

\* The terminator is stored without being counted, so that the padding loop
\* stores as many bytes as if it had not been.
RECURSIVE strncpy(_, _, _, _)
strncpy(m, d, s, n) ==
    IF n = 0 THEN m
    ELSE IF m[s] = 0 THEN memset(Store(m, d, 0), d + 1, 0, n)
    ELSE strncpy(Store(m, d, m[s]), d + 1, s + 1, n - 1)

strcat(m, d, s) == strcpy(m, d + strlen(m, d), s)

\* The loop stores a terminator it meets and steps over it.
RECURSIVE append_bytes(_, _, _, _)
append_bytes(m, d, s, n) ==
    IF n = 0 THEN Store(m, d, 0)
    ELSE IF m[s] = 0 THEN Store(Store(m, d, 0), d + 1, 0)
    ELSE append_bytes(Store(m, d, m[s]), d + 1, s + 1, n - 1)

strncat(m, d, s, n) == append_bytes(m, d + strlen(m, d), s, n)

RECURSIVE strcmp(_, _, _)
strcmp(m, p, q) ==
    IF m[p] # 0 /\ m[p] = m[q] THEN strcmp(m, p + 1, q + 1) ELSE m[p] - m[q]

RECURSIVE strncmp_from(_, _, _, _)
strncmp_from(m, p, q, n) ==
    IF n - 1 # 0 /\ m[p] # 0 /\ m[p] = m[q] THEN strncmp_from(m, p + 1, q + 1, n - 1)
    ELSE m[p] - m[q]

strncmp(m, p, q, n) == IF n = 0 THEN 0 ELSE strncmp_from(m, p, q, n)

RECURSIVE k_strncmp(_, _, _, _)
k_strncmp(m, p, q, n) ==
    IF n # 0 /\ m[p] # 0 /\ m[p] = m[q] THEN k_strncmp(m, p + 1, q + 1, n - 1)
    ELSE IF n = 0 THEN 0 ELSE m[p] - m[q]

RECURSIVE strchr(_, _, _)
strchr(m, s, c) ==
    IF m[s] = 0 THEN IF c = 0 THEN s ELSE NULL_ADDR
    ELSE IF m[s] = c THEN s ELSE strchr(m, s + 1, c)

RECURSIVE strrchr_from(_, _, _, _)
strrchr_from(m, s, c, last) ==
    IF m[s] = 0 THEN IF c = 0 THEN s ELSE last
    ELSE strrchr_from(m, s + 1, c, IF m[s] = c THEN s ELSE last)

strrchr(m, s, c) == strrchr_from(m, s, c, NULL_ADDR)

RECURSIVE search(_, _, _, _)
search(m, h, needle, len) ==
    IF m[h] = 0 THEN NULL_ADDR
    ELSE IF strncmp(m, h, needle, len) = 0 THEN h ELSE search(m, h + 1, needle, len)

strstr(m, h, needle) == IF m[needle] = 0 THEN h ELSE search(m, h, needle, strlen(m, needle))

RECURSIVE k_search(_, _, _, _)
k_search(m, h, needle, len) ==
    IF m[h] = 0 THEN NULL_ADDR
    ELSE IF m[h] = m[needle] /\ k_strncmp(m, h, needle, len) = 0 THEN h
    ELSE k_search(m, h + 1, needle, len)

k_strstr(m, h, needle) ==
    IF strlen(m, needle) = 0 THEN h ELSE k_search(m, h, needle, strlen(m, needle))

-----------------------------------------------------------------------------

StringsInit ==
    /\ memory \in [Addrs -> Chars \union {0}]
    /\ call = <<>>

\* One call: what the code gives and what C promises.
Called(got, want) == call' = <<got, want, {}>> /\ UNCHANGED memory

\* ... when the source is shorter than n: one zero more may be stored at a.
CalledShort(got, want, a) == call' = <<got, want, {a}>> /\ UNCHANGED memory

Fits(a, n) == a + n <= MemBytes
Apart(a, n, b, k) == a + n <= b \/ b + k <= a
Terminated == {s \in Addrs : \E a \in s .. MemBytes - 1 : memory[a] = 0}
Least(S) == CHOOSE i \in S : \A j \in S : i <= j
Length(s) == Least({a \in Addrs : a >= s /\ memory[a] = 0}) - s
Letters(s) == s .. s + Length(s) - 1
Limit(n, max) == IF n < max THEN n ELSE max

\* Memory with n bytes from s copied to d, then zeros up to address z.
With(d, s, n, z) == [a \in Addrs |-> IF a \in d .. d + n - 1 THEN memory[s + a - d]
                                     ELSE IF a \in d + n .. z THEN 0 ELSE memory[a]]

\* The difference that orders two strings, at most n bytes being compared.
Order(p, q, n) ==
    LET stop == {i \in 0 .. n - 1 : memory[p + i] # memory[q + i] \/ memory[p + i] = 0}
    IN  IF stop = {} THEN 0 ELSE memory[p + Least(stop)] - memory[q + Least(stop)]

Found(S) == IF S = {} THEN NULL_ADDR ELSE Least(S)
FoundLast(S) == IF S = {} THEN NULL_ADDR ELSE CHOOSE i \in S : \A j \in S : i >= j

\* Addresses at which the string at needle occurs in the string at h.
Occurrences(h, needle) ==
    {a \in Letters(h) \union {h} :
        /\ a + Length(needle) <= h + Length(h)
        /\ \A i \in 0 .. Length(needle) - 1 : memory[a + i] = memory[needle + i]}

move_bytes ==
    /\ call = <<>>
    /\ \E d, s \in Addrs, n \in 0 .. MemBytes :
        /\ Fits(d, n) /\ Fits(s, n)
        /\ \/ Called(memmove(memory, d, s, n), With(d, s, n, -1))
           \/ Called(k_memmove(memory, d, s, n), With(d, s, n, -1))
           \/ /\ Apart(d, n, s, n)
              /\ \/ Called(memcpy(memory, d, s, n), With(d, s, n, -1))
                 \/ Called(k_memcpy(memory, d, s, n), With(d, s, n, -1))

set_bytes ==
    /\ call = <<>>
    /\ \E d \in Addrs, c \in Chars \union {0}, n \in 0 .. MemBytes :
        LET want == [a \in Addrs |-> IF a \in d .. d + n - 1 THEN c ELSE memory[a]]
        IN  /\ Fits(d, n)
            /\ Called(memset(memory, d, c, n), want) \/ Called(k_memset(memory, d, c, n), want)

find_bytes ==
    /\ call = <<>>
    /\ \E s \in Terminated, c \in Chars \union {0}, n \in 0 .. MemBytes :
        LET hits(to) == {a \in s .. to : memory[a] = c}
        IN  \/ Called(strchr(memory, s, c), Found(hits(s + Length(s))))
            \/ Called(strrchr(memory, s, c), FoundLast(hits(s + Length(s))))
            \/ Fits(s, n) /\ Called(memchr(memory, s, c, n), Found(hits(s + n - 1)))
            \/ Called(<<strlen(memory, s), strnlen(memory, s, n)>>,
                      <<Length(s), Limit(Length(s), n)>>)

compare ==
    /\ call = <<>>
    /\ \E p, q \in Terminated, n \in 0 .. MemBytes :
        LET all == Limit(Length(p), Length(q)) + 1
        IN  \/ Called(strcmp(memory, p, q), Order(p, q, all))
            \/ Called(strncmp(memory, p, q, n), Order(p, q, Limit(n, all)))
            \/ Called(k_strncmp(memory, p, q, n), Order(p, q, Limit(n, all)))
            \/ /\ Fits(p, n) /\ Fits(q, n)
               /\ Called(memcmp(memory, p, q, n),
                         LET differ == {i \in 0 .. n - 1 : memory[p + i] # memory[q + i]}
                         IN  IF differ = {} THEN 0
                             ELSE memory[p + Least(differ)] - memory[q + Least(differ)])

find_string ==
    /\ call = <<>>
    /\ \E h, needle \in Terminated :
        \/ Called(strstr(memory, h, needle), Found(Occurrences(h, needle)))
        \/ Called(k_strstr(memory, h, needle), Found(Occurrences(h, needle)))

\* Copies to a place that does not overlap the source and has room for what C
\* says is written: n bytes in the case of strncpy.
copy_strings ==
    /\ call = <<>>
    /\ \E d \in Addrs, s \in Terminated, n \in 0 .. MemBytes :
        LET len == Length(s)
            end == d + len
        IN  \/ /\ Fits(d, len + 1) /\ Apart(d, len + 1, s, len + 1)
               /\ Called(strcpy(memory, d, s), With(d, s, len, end))
            \/ /\ Fits(d, n) /\ Apart(d, n, s, len + 1)
               /\ \/ n <= len /\ Called(strncpy(memory, d, s, n), With(d, s, n, -1))
                  \/ n > len /\ CalledShort(strncpy(memory, d, s, n),
                                            With(d, s, len, d + n - 1), d + n)

\* Appends at most n bytes and a terminator.
append_strings ==
    /\ call = <<>>
    /\ \E d, s \in Terminated, n \in 0 .. MemBytes :
        LET len  == Length(s)
            from == d + Length(d)
            Room(k) == Fits(from, k + 1) /\ Apart(d, Length(d) + k + 1, s, len + 1)
        IN  \/ Room(len) /\ Called(strcat(memory, d, s), With(from, s, len, from + len))
            \/ /\ n <= len /\ Room(n)
               /\ Called(strncat(memory, d, s, n), With(from, s, n, from + n))
            \/ /\ n > len /\ Room(len)
               /\ CalledShort(strncat(memory, d, s, n), With(from, s, len, from + len),
                              from + len + 1)

StringsNext ==
    \/ move_bytes
    \/ set_bytes
    \/ find_bytes
    \/ compare
    \/ find_string
    \/ copy_strings
    \/ append_strings

\* Every memory and string function of the C library and of the kernel gives
\* what C says (memcpy ... strstr), for every memory, every overlap memmove
\* allows, every alignment the word loops of the kernel tell apart and every
\* length from 0 on, and changes no byte elsewhere.  Not so strncpy and strncat
\* with a source shorter than n: what they do beyond C is to clear exactly one
\* byte, the first behind the n bytes or behind the terminator, which need not
\* belong to the destination; every other byte is as C says.
StringsExact ==
    call # <<>> =>
        IF call[3] = {} THEN call[1] = call[2]
        ELSE \A a \in Addrs : call[1][a] = IF a \in call[3] THEN 0 ELSE call[2][a]
=============================================================================
