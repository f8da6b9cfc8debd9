--------------------------- MODULE MCAgentCalls ----------------------------
\* AgentCalls for TLC: refs of all kinds, two of them with one CLI, and reports
\* at the edges of each format.
EXTENDS AgentCalls, Sequences

MCRefs == {<<"claude", "A">>, <<"claude", "I">>, <<"codex", "B">>,
           <<"opencode2", "B">>, <<"custom", "A">>}

\* Midnight, noon and the seconds around them.
MCMoments == {0, 1, 12 * Hour - 1, 12 * Hour, Day - 1}

Report(after, epoch, text) == [after |-> after, epoch |-> epoch, text |-> text]
Clocks == {<<12, 0, FALSE>>, <<12, 0, TRUE>>, <<11, 59, TRUE>>, <<1, 0, FALSE>>,
           <<0, 0, FALSE>>, <<5, 99, FALSE>>}
Said(text) == Report(None, None, text)

\* 1.5 hours, 1.9 minutes, 20.5 s, 45000 ms, 31 days.
Relatives == {<<1, "h", 1800>>, <<1, "m", 54>>, <<20, "s", 1>>, <<45000, "ms", 0>>,
              <<31 * 24, "h", 0>>}

MCReports ==
  {Said(<<"none">>)} \union {Said(<<"in">> \o r) : r \in Relatives}
  \union
  {Said(<<"on", 0>>), Said(<<"on", 2 * Hour>>), Said(<<"on", 31 * Day>>),
   Report(0, None, <<"none">>), Report(45, None, <<"in", 20, "s", 0>>),
   Report(None, -121, <<"in", 20, "s", 0>>), Report(None, -1, <<"none">>),
   Report(None, 3 * Hour, <<"none">>), Report(None, 31 * Day, <<"none">>)}
  \union {Said(<<format, c[1], c[2], c[3]>>) : format \in {"clock", "clockAt"},
                                               c \in Clocks}
=============================================================================
