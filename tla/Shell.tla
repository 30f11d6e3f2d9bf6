------------------------------- MODULE Shell -------------------------------
(***************************************************************************)
(* How the shell turns keys into a command, servers/sh/main.c: read_line   *)
(* fills one buffer, parse_line cuts it into arguments in place, writing   *)
(* behind the position it reads from.  Keys are those that the code tells  *)
(* apart.  What a command then does is not modelled here.                  *)
(***************************************************************************)
EXTENDS Integers, Sequences

CONSTANTS MAX_LINE, MAX_ARGS, MaxKeys

VARIABLES line,             \* the buffer, addresses 0 .. MAX_LINE - 1
          at,               \* read_line's index
          pressed,          \* keys pressed so far, at most MaxKeys
          keys,             \* reckoning: keys of the line being typed
          command           \* what the line just ended was parsed to

shellVars == <<line, at, pressed, keys, command>>

NUL == "nul"
Quotes == {"double", "single"}
Keys == {"x", "space", "backslash", "backspace", "newline"} \union Quotes
NoCommand == [typed |-> <<>>, argv |-> <<>>]

\* read_line has filled the buffer and drain_line is at work.
draining == at = MAX_LINE - 1

is_shell_space(c) == c = "space"

ShellInit ==
    /\ line = [i \in 0 .. MAX_LINE - 1 |-> NUL]
    /\ at = 0
    /\ pressed = 0
    /\ keys = <<>>
    /\ command = NoCommand

\* The string at address a of buffer b.
RECURSIVE StringAt(_, _)
StringAt(b, a) == IF b[a] = NUL THEN <<>> ELSE <<b[a]>> \o StringAt(b, a + 1)

RECURSIVE skip_spaces(_, _)
skip_spaces(b, src) == IF is_shell_space(b[src]) THEN skip_spaces(b, src + 1) ELSE src

Put(p, c, next) == [p EXCEPT !.line[p.dst] = c, !.dst = @ + 1, !.src = next]

\* The inner loop: one argument copied from src to dst.
RECURSIVE parse_word(_)
parse_word(p) ==
    LET c    == p.line[p.src]
        next == p.src + 1
    IN  IF c = NUL THEN p
        ELSE IF p.quote # "" THEN
            IF c = p.quote THEN parse_word([p EXCEPT !.quote = "", !.src = next])
            ELSE IF p.quote = "double" /\ c = "backslash" /\ p.line[next] # NUL
                 THEN parse_word(Put(p, p.line[next], next + 1))
                 ELSE parse_word(Put(p, c, next))
        ELSE IF c \in Quotes THEN parse_word([p EXCEPT !.quote = c, !.src = next])
        ELSE IF c = "backslash" /\ p.line[next] # NUL THEN parse_word(Put(p, p.line[next], next + 1))
        ELSE IF is_shell_space(c) THEN [p EXCEPT !.src = next]
        ELSE parse_word(Put(p, c, next))

\* The outer loop: the arguments' addresses, or an error.
RECURSIVE parse_words(_)
parse_words(p) ==
    LET src == skip_spaces(p.line, p.src)
    IN  IF p.line[src] = NUL THEN p
        ELSE IF Len(p.argv) >= MAX_ARGS - 1 THEN [p EXCEPT !.error = "too many arguments"]
        ELSE LET word == parse_word([p EXCEPT !.src = src, !.argv = Append(@, p.dst)])
             IN  IF word.quote # "" THEN [word EXCEPT !.error = "unterminated quote"]
                 ELSE parse_words(Put(word, NUL, word.src))

parse_line(b) ==
    LET p == parse_words([line |-> b, src |-> 0, dst |-> 0, quote |-> "", argv |-> <<>>, error |-> ""])
    IN  [line |-> p.line, error |-> p.error,
         argv |-> IF p.error # "" THEN <<>> ELSE [k \in DOMAIN p.argv |-> StringAt(p.line, p.argv[k])]]

\* One key read by read_line.  A newline ends the line and it is parsed at
\* once; when the buffer is full, drain_line throws the rest away.
read_line(c) ==
    /\ ~draining
    /\ \/ /\ c = "newline"
          /\ LET parsed == parse_line([line EXCEPT ![at] = NUL])
             IN  /\ line' = parsed.line
                 /\ command' = [typed |-> keys, argv |-> parsed.argv]
          /\ at' = 0
          /\ keys' = <<>>
       \/ /\ c = "backspace"
          /\ at' = IF at > 0 THEN at - 1 ELSE at
          /\ keys' = Append(keys, c)
          /\ command' = NoCommand
          /\ UNCHANGED line
       \/ /\ c \notin {"newline", "backspace"}
          /\ keys' = Append(keys, c)
          /\ at' = at + 1
          /\ line' = IF at' < MAX_LINE - 1 THEN [line EXCEPT ![at] = c]
                     ELSE [line EXCEPT ![at] = c, ![MAX_LINE - 1] = NUL]
          /\ command' = NoCommand

\* Variant of drain_line: one key and no more is thrown away.
drain_line_once(c) ==
    /\ draining
    /\ at' = 0
    /\ keys' = IF c = "newline" THEN <<>> ELSE keys
    /\ command' = NoCommand
    /\ UNCHANGED line

drain_line(c) ==
    /\ draining
    /\ at' = IF c = "newline" THEN 0 ELSE at
    /\ keys' = IF c = "newline" THEN <<>> ELSE keys
    /\ command' = NoCommand
    /\ UNCHANGED line

ShellNext ==
    /\ pressed < MaxKeys
    /\ pressed' = pressed + 1
    /\ \E c \in Keys : read_line(c) \/ drain_line(c)

\* The line meant by a sequence of keys: each backspace takes one back.
RECURSIVE Edited(_)
Edited(ks) ==
    IF ks = <<>> THEN <<>>
    ELSE LET before == Edited(SubSeq(ks, 1, Len(ks) - 1))
             k      == ks[Len(ks)]
         IN  IF k # "backspace" THEN Append(before, k)
             ELSE IF before = <<>> THEN <<>> ELSE SubSeq(before, 1, Len(before) - 1)

OpenQuote == <<"open quote">>

\* The words meant by a line s read from the left, q being the quote that is
\* open and w the word begun (<<>> when there is none, else <<its letters>>).
RECURSIVE Words(_, _, _)
Words(s, q, w) ==
    LET c      == s[1]
        rest   == SubSeq(s, 2, Len(s))
        letter == IF w = <<>> THEN <<>> ELSE w[1]
        escape == c = "backslash" /\ rest # <<>> /\ q # "single"
    IN  IF s = <<>> THEN IF q # "" THEN <<OpenQuote>> ELSE w
        ELSE IF escape THEN Words(SubSeq(s, 3, Len(s)), q, <<Append(letter, s[2])>>)
        ELSE IF q = "" /\ c \in Quotes THEN Words(rest, c, <<letter>>)
        ELSE IF q # "" /\ c = q THEN Words(rest, "", <<letter>>)
        ELSE IF q = "" /\ c = "space" THEN w \o Words(rest, "", <<>>)
        ELSE Words(rest, q, <<Append(letter, c)>>)

\* Every line that is accepted runs as the command that was typed: the
\* arguments are those of the keys with backspaces applied, quotes and
\* escapes removed, although parse_line overwrites the buffer it is still
\* reading; a line with an open quote or with too many arguments gives no
\* command, and the rest of a line too long for the buffer is never taken
\* for another command (read_line, drain_line, parse_line).
CommandAsTyped ==
    LET words == Words(Edited(command.typed), "", <<>>)
    IN  command.argv = IF words # <<>> /\ words[Len(words)] = OpenQuote THEN <<>>
                       ELSE IF Len(words) > MAX_ARGS - 1 THEN <<>> ELSE words
=============================================================================
