----------------------------- MODULE MCDataPath ------------------------------
(* Small instances of DataPath for TLC. *)
EXTENDS DataPath

MCSizeOf == [s \in {"0", "1", "2"} |-> CASE s = "0" -> 0 [] s = "1" -> 1 [] s = "2" -> 2]

Sent(infos, framing, pad, parts, ext) ==
  [infos |-> infos, framing |-> framing, pad |-> pad, parts |-> parts, ext |-> ext]

(* One response of every kind: each framing, an informational response     *)
(* before it, header and body at and over their limits, and bodies that    *)
(* look like line ends.                                                    *)
MCResponses ==
  { Sent(0, "nobody", 0, <<>>, FALSE),
    Sent(1, "fixed", 0, << <<"r", "l">> >>, FALSE),
    Sent(0, "fixed", 1, << <<"d", "d", "d">> >>, FALSE),
    Sent(0, "chunked", 0, << <<"l">>, <<"r">> >>, TRUE),
    Sent(0, "chunked", 0, << <<"r", "l">> >>, FALSE),
    Sent(0, "close", 1, << <<"d", "l">> >>, FALSE),
    Sent(0, "close", 0, << <<"d", "d", "d">> >>, FALSE),
    Sent(0, "unsupported", 0, << <<"d">> >>, FALSE),
    Sent(0, "fixed", 2, << <<"d">> >>, FALSE),
    Sent(2, "fixed", 0, <<>>, FALSE) }

MCRequests ==
  { [head |-> 1, body |-> 0, inspect |-> FALSE],
    [head |-> 1, body |-> 1, inspect |-> TRUE],
    [head |-> 1, body |-> 3, inspect |-> TRUE],
    [head |-> 3, body |-> 1, inspect |-> TRUE] }

=============================================================================
