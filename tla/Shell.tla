------------------------------- MODULE Shell --------------------------------
(***************************************************************************)
(* The parser of sh.c: from a line of text to the command tree that runcmd *)
(* executes.  A line is a sequence of the characters "a" (any character of *)
(* a word), " " (any white space) and the symbols; a pointer into it is an *)
(* index, and the character after the last one is NUL.  A string is the    *)
(* pair of the pointers q and eq of gettoken.  A parser returns what it    *)
(* has parsed and the pointer *ps, or Panic.                               *)
(***************************************************************************)
EXTENDS Integers, Sequences, SequencesExt, FiniteSetsExt

CONSTANT MAXARGS

NUL == "NUL"
symbols == {"<", "|", ">", "&", ";", "(", ")"}
Char == symbols \cup {"a", " "}

At(s, i) == IF i <= Len(s) THEN s[i] ELSE NUL

\* The first of the characters of stop from i on, or the end of the line.
Scan(s, i, stop) ==
    CHOOSE j \in i..(Len(s) + 1) :
        /\ j = Len(s) + 1 \/ s[j] \in stop
        /\ \A k \in i..(j - 1) : s[k] \notin stop
Skip(s, i) == Scan(s, i, Char \ {" "})

\* ">>" is the only symbol of two characters.
SymbolLength(s, q) == IF s[q] = ">" /\ At(s, q + 1) = ">" THEN 2 ELSE 1

gettoken(s, i) ==
    LET q == Skip(s, i)
        c == At(s, q)
        eq == CASE c = NUL -> q
                [] c \in symbols -> q + SymbolLength(s, q)
                [] OTHER -> Scan(s, q, symbols \cup {" "})
    IN  [tok |-> IF c = ">" /\ eq = q + 2 THEN "+" ELSE c,
         str |-> [q |-> q, eq |-> eq],
         at  |-> Skip(s, eq)]

peek(s, i, toks) == At(s, Skip(s, i)) \in toks

-----------------------------------------------------------------------------
\* The constructors; what malloc returns is taken for granted.
execcmd(args) == [type |-> "EXEC", args |-> args]
redircmd(sub, r) == [type |-> "REDIR", cmd |-> sub, file |-> r.file, mode |-> r.mode, fd |-> r.fd]
pipecmd(l, r) == [type |-> "PIPE", left |-> l, right |-> r]
listcmd(l, r) == [type |-> "LIST", left |-> l, right |-> r]
backcmd(sub) == [type |-> "BACK", cmd |-> sub]

Panic == [ok |-> FALSE]
Parsed(cmd, i) == [ok |-> TRUE, cmd |-> cmd, at |-> i]
Then(r, F(_)) == IF r.ok THEN F(r) ELSE r

\* The redirections wrap the command one after the other.
Wrapped(cmd, redirs) == FoldLeft(redircmd, cmd, redirs)

\* The cases of parseredirs; ">>" does what ">" does.
Redirection(tok, file) ==
    [file |-> file, mode |-> IF tok = "<" THEN "read" ELSE "create", fd |-> IF tok = "<" THEN 0 ELSE 1]

\* parseredirs: the redirections it adds are collected, as parseexec still adds arguments
\* to the command inside.
RECURSIVE parseredirs(_, _, _)
parseredirs(s, redirs, i) ==
    LET op == gettoken(s, i)
        file == gettoken(s, op.at)
    IN  IF ~peek(s, i, {"<", ">"}) THEN [ok |-> TRUE, redirs |-> redirs, at |-> i]
        ELSE IF file.tok # "a" THEN Panic
        ELSE parseredirs(s, Append(redirs, Redirection(op.tok, file.str)), file.at)

\* Variant: the array takes one argument more, and the 0 after it has no room.
TooManyByOne(args) == Len(args) > MAXARGS

TooMany(args) == Len(args) >= MAXARGS

\* The loop of parseexec.
RECURSIVE Arguments(_, _, _, _)
Arguments(s, args, redirs, i) ==
    LET t == gettoken(s, i)
        more == Append(args, t.str)
    IN  IF peek(s, i, {"|", ")", "&", ";"}) \/ t.tok = NUL
        THEN Parsed(Wrapped(execcmd(args), redirs), i)
        ELSE IF t.tok # "a" \/ TooMany(more) THEN Panic
        ELSE Then(parseredirs(s, redirs, t.at), LAMBDA r : Arguments(s, more, r.redirs, r.at))

RECURSIVE parseline(_, _)

parseblock(s, i) ==
    Then(parseline(s, gettoken(s, i).at), LAMBDA l :
        IF ~peek(s, l.at, {")"}) THEN Panic
        ELSE Then(parseredirs(s, <<>>, gettoken(s, l.at).at), LAMBDA r :
                 Parsed(Wrapped(l.cmd, r.redirs), r.at)))

parseexec(s, i) ==
    IF peek(s, i, {"("}) THEN parseblock(s, i)
    ELSE Then(parseredirs(s, <<>>, i), LAMBDA r : Arguments(s, <<>>, r.redirs, r.at))

RECURSIVE parsepipe(_, _)
parsepipe(s, i) ==
    Then(parseexec(s, i), LAMBDA l :
        IF ~peek(s, l.at, {"|"}) THEN l
        ELSE Then(parsepipe(s, gettoken(s, l.at).at), LAMBDA r : Parsed(pipecmd(l.cmd, r.cmd), r.at)))

\* The loop of parseline.
RECURSIVE Background(_, _)
Background(s, l) ==
    IF peek(s, l.at, {"&"}) THEN Background(s, Parsed(backcmd(l.cmd), gettoken(s, l.at).at)) ELSE l

parseline(s, i) ==
    Then(parsepipe(s, i), LAMBDA l :
        LET b == Background(s, l)
        IN  IF ~peek(s, b.at, {";"}) THEN b
            ELSE Then(parseline(s, gettoken(s, b.at).at), LAMBDA r :
                     Parsed(listcmd(b.cmd, r.cmd), r.at)))

\* parsecmd, without nulterminate.
parsecmd(s) ==
    Then(parseline(s, 1), LAMBDA l : IF Skip(s, l.at) # Len(s) + 1 THEN Panic ELSE l)

\* The strings of a command tree.
RECURSIVE Strings(_)
Strings(cmd) ==
    CASE cmd.type = "EXEC" -> ToSet(cmd.args)
      [] cmd.type = "REDIR" -> Strings(cmd.cmd) \cup {cmd.file}
      [] cmd.type \in {"PIPE", "LIST"} -> Strings(cmd.left) \cup Strings(cmd.right)
      [] cmd.type = "BACK" -> Strings(cmd.cmd)

\* Variant: the file name of a redirection is not terminated.
RECURSIVE TerminatedArgs(_)
TerminatedArgs(cmd) ==
    CASE cmd.type = "EXEC" -> {str.eq : str \in ToSet(cmd.args)}
      [] cmd.type \in {"REDIR", "BACK"} -> TerminatedArgs(cmd.cmd)
      [] cmd.type \in {"PIPE", "LIST"} -> TerminatedArgs(cmd.left) \cup TerminatedArgs(cmd.right)

\* nulterminate: the places where it writes a NUL.
Terminated(cmd) == {str.eq : str \in Strings(cmd)}
nulterminate(s, cmd) == [i \in DOMAIN s |-> IF i \in Terminated(cmd) THEN NUL ELSE s[i]]

-----------------------------------------------------------------------------
(* What a line means, by cutting its tokens at the symbols outside of      *)
(* parentheses, the loosest first.                                         *)

RECURSIVE Tokens(_, _)
Tokens(s, i) ==
    LET t == gettoken(s, i) IN IF t.tok = NUL THEN <<>> ELSE <<t>> \o Tokens(s, t.at)

Depth(t, i) ==
    LET count(c) == Cardinality({j \in 1..i : t[j].tok = c}) IN count("(") - count(")")
Nested(t) == \A i \in 0..Len(t) : Depth(t, i) >= 0 /\ Depth(t, Len(t)) = 0
Cuts(t, c) == {i \in DOMAIN t : t[i].tok = c /\ Depth(t, i) = 0}
Before(t, i) == SubSeq(t, 1, i - 1)
After(t, i) == SubSeq(t, i + 1, Len(t))
Both(l, r, F(_, _)) == IF l.ok /\ r.ok THEN [ok |-> TRUE, cmd |-> F(l.cmd, r.cmd)] ELSE Panic

RECURSIVE Line(_)

\* Words, with redirections anywhere between them; or a line in parentheses, with
\* redirections after it.
Command(t) ==
    LET block == t # <<>> /\ t[1].tok = "("
        close == IF block THEN Min({i \in DOMAIN t : Depth(t, i) = 0}) ELSE 0
        rest == After(t, close)
        ops == {j \in DOMAIN rest : rest[j].tok \in {"<", ">", "+"}}
        files == {j + 1 : j \in ops}
        args == SetToSortSeq(DOMAIN rest \ (ops \cup files), <)
        redirs == [k \in 1..Cardinality(ops) |->
                     LET j == SetToSortSeq(ops, <)[k]
                     IN  Redirection(rest[j].tok, rest[j + 1].str)]
        body == IF block THEN Line(SubSeq(t, 2, close - 1))
                ELSE [ok |-> TRUE, cmd |-> execcmd([k \in DOMAIN args |-> rest[args[k]].str])]
    IN  IF /\ body.ok
           /\ files \subseteq DOMAIN rest \ ops
           /\ \A j \in DOMAIN rest \ ops : rest[j].tok = "a"
           /\ Len(args) < IF block THEN 1 ELSE MAXARGS
        THEN [ok |-> TRUE, cmd |-> Wrapped(body.cmd, redirs)]
        ELSE Panic

RECURSIVE Pipes(_)
Pipes(t) ==
    IF Cuts(t, "|") = {} THEN Command(t)
    ELSE LET i == Min(Cuts(t, "|")) IN Both(Command(Before(t, i)), Pipes(After(t, i)), pipecmd)

RECURSIVE Jobs(_)
Jobs(t) ==
    IF t = <<>> \/ Last(t).tok # "&" THEN Pipes(t)
    ELSE LET j == Jobs(Front(t)) IN IF j.ok THEN [ok |-> TRUE, cmd |-> backcmd(j.cmd)] ELSE Panic

Line(t) ==
    IF Cuts(t, ";") = {} THEN Jobs(t)
    ELSE LET i == Min(Cuts(t, ";")) IN Both(Jobs(Before(t, i)), Line(After(t, i)), listcmd)

Meaning(s) == LET t == Tokens(s, 1) IN IF Nested(t) THEN Line(t) ELSE Panic

\* The words of a line.
Words(s) ==
    {str \in [q : DOMAIN s, eq : 2..(Len(s) + 1)] :
        /\ str.q < str.eq
        /\ \A i \in str.q..(str.eq - 1) : s[i] = "a"
        /\ At(s, str.eq) # "a" /\ (str.q > 1 => s[str.q - 1] # "a")}
=============================================================================
