----------------------------- MODULE MCFileMgr -----------------------------
EXTENDS FileMgr, TLC

CONSTANTS a, b, c, d, e, f

MCPaths == {a, b, c, d, e, f}
MCInDir == {a, b, d, e, f}
MCLongNames == {e}
\* c is on a file system of its own.
MCVolume == (c :> 2) @@ [p \in MCPaths |-> 1]
MCInitData == (a :> <<1, 2>>) @@ (b :> <<3>>) @@ (d :> <<>>) @@ (e :> <<>>)

Cmd(op, src, src2, tgt, over, off) ==
  [op |-> op, src |-> src, src2 |-> src2, tgt |-> tgt, over |-> over, offset |-> off]

MCCommands ==
  {Cmd(op, a, NoPath, t, o, 0) : op \in {"copy", "move"}, t \in {a, b, c}, o \in BOOLEAN}
  \cup {Cmd("rename", a, NoPath, t, FALSE, 0) : t \in {b, c}}
  \cup {Cmd("delete", b, NoPath, NoPath, FALSE, 0)}
  \cup {Cmd("concatenate", a, b, c, FALSE, 0), Cmd("decompress", a, NoPath, c, FALSE, 0)}
  \cup {Cmd("deleteAll", NoPath, NoPath, NoPath, FALSE, 0)}
  \cup {Cmd("sendOne", NoPath, NoPath, NoPath, FALSE, 1), Cmd("sendAll", NoPath, NoPath, NoPath, FALSE, 0)}
  \cup {Cmd("writeList", NoPath, NoPath, t, FALSE, 0) : t \in {b, c}}
=============================================================================
