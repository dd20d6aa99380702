----------------------------- MODULE MCTadmor -----------------------------
(* Words of every class of characters, commands of up to two words, up to  *)
(* three commands, and outputs around the ends of a group and the limit.   *)
EXTENDS Tadmor

MCCharacters ==
    {"--", "n", "schedule", "]", ",", Quote, Backslash, Newline, Feed, Control}

MCWords ==
    {Separator, <<>>, <<"n">>, <<"schedule">>, <<Quote, "schedule">>,
     <<"schedule", Quote>>, <<Backslash, "n">>, <<Newline>>, <<Feed>>,
     <<Control>>, <<"]", ",">>}

MCLines ==
    UNION {[1..n -> MCWords] : n \in 0..3}
    \cup UNION {[1..n -> {Separator, <<"n">>, <<"schedule">>}] : n \in 4..5}

MCRawCommands ==
    {<<>>, << <<>> >>, << <<>>, <<>> >>, << << <<"n">> >>, <<>> >>,
     << << <<"n">>, <<"n">>, <<"n">> >> >>}

MCOutputs ==
    UNION {[1..n -> {0, 98, 255}] : n \in 0..4}
    \cup {[i \in 1..n |-> (37 * i) % 256] : n \in {5, 6, 7, 68, 69, 70, 95}}
=============================================================================
