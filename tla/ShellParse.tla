----------------------------- MODULE ShellParse -----------------------------
(***************************************************************************)
(* How the shell parses a line: parsing.c, createcmd.c.  A line is a       *)
(* sequence of tokens; each token is a pair of a kind and a text.  Blanks, *)
(* the copies of strings and the expansion of variables are left out.      *)
(***************************************************************************)
EXTENDS Integers, Sequences, SequencesExt

CONSTANT Tokens     \* what the lines of the user are made of

Word(w) == <<"word", w>>
Pipe == <<"|", "">>
Back == <<"&", "">>
Out(f) == <<">", f>>
In(f) == <<"<", f>>
Err(f) == <<"2>", f>>
ErrToOut == <<"2>&1", "">>

NULL == [type |-> "NULL"]

IsPipe(t) == t = Pipe
HasAmpersand(t) == t \in {Back, ErrToOut}

(* the file of the last redirection of the kind, which overwrites the      *)
(* others, or "" when there is none                                        *)
LastFile(ts, kinds) ==
    LET i == SelectLastInSeq(ts, LAMBDA t : t[1] \in kinds)
    IN  IF i = 0 THEN "" ELSE IF ts[i] = ErrToOut THEN "&1" ELSE ts[i][2]

IsRedir(t) == t[1] \in {">", "<", "2>", "2>&1"}
Args(ts) == SelectSeq(ts, LAMBDA t : ~IsRedir(t))

parse_exec(ts) ==
    [type     |-> IF \E i \in DOMAIN ts : IsRedir(ts[i]) THEN "REDIR" ELSE "EXEC",
     argv     |-> Args(ts),
     out_file |-> LastFile(ts, {">"}),
     in_file  |-> LastFile(ts, {"<"}),
     err_file |-> LastFile(ts, {"2>", "2>&1"})]

parse_back(ts, i) == [type |-> "BACK", c |-> parse_exec(SubSeq(ts, 1, i - 1))]

(* Only the first '&' of the line counts: one that comes after "2>&1" is   *)
(* an argument like any other.                                             *)
parse_cmd(ts) ==
    LET i == SelectInSeq(ts, HasAmpersand) IN
    IF ts = <<>> THEN NULL
    ELSE IF i > 0 /\ ts[i] = Back THEN parse_back(ts, i) ELSE parse_exec(ts)

pipe_cmd_create(l, r) ==
    IF r = NULL THEN l ELSE [type |-> "PIPE", leftcmd |-> l, rightcmd |-> r]

(* the first '|', or 0; what split_line leaves in the buffer, and returns *)
PipeAt(ts) == SelectInSeq(ts, IsPipe)
SplitLeft(ts) == IF PipeAt(ts) = 0 THEN ts ELSE SubSeq(ts, 1, PipeAt(ts) - 1)
SplitRight(ts) == IF PipeAt(ts) = 0 THEN <<>> ELSE SubSeq(ts, PipeAt(ts) + 1, Len(ts))

parse_line[ts \in Seq(Tokens)] ==
    LET right == SplitRight(ts)
    IN  pipe_cmd_create(parse_cmd(SplitLeft(ts)),
                        IF PipeAt(right) > 0 THEN parse_line[right] ELSE parse_cmd(right))
=============================================================================
