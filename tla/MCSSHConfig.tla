----------------------------- MODULE MCSSHConfig -----------------------------
(* Files for SSHConfig: every line of up to four characters over keyword  *)
(* letters, space, '=' and the quote as a one-line file, and every file   *)
(* of up to three lines built from Host, Match, option, comment and       *)
(* malformed lines, plus the empty file.                                  *)
EXTENDS SSHConfig

ParseChars == {"H", "o", " ", "=", "\""}

ShortLines == UNION {[1..n -> ParseChars] : n \in 1..4}

HostLine    == <<"H", " ", "v">>
MatchLine   == <<"m", "=", "v">>
OptionLine  == <<"o", "=", "\"", "v", "\"">>
CommentLine == <<"#", "o">>
BadLine     == <<"O", "=", "=", "v">>

StructLines == {HostLine, MatchLine, OptionLine, CommentLine, BadLine}

MCFiles ==
    {<<>>} \cup {<<l>> : l \in ShortLines} \cup UNION {[1..n -> StructLines] : n \in 2..3}
=============================================================================
