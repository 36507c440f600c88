-------------------------- MODULE MCTerminalProbe --------------------------
EXTENDS TerminalProbe

MCKeys == {<<"ESC">>, <<"ESC", "[", "k">>}
MCAnswers == {<<KittyReply("31:OK"), Da1Reply, CellReply>>,
              <<KittyReply("31:ENOTSUP"), Da1Reply>>}
=============================================================================
