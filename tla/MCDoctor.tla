-------------------------------- MODULE MCDoctor -------------------------------
(***************************************************************************)
(* Two sources with transactions in one period, and one of everything that *)
(* a user, a restored file or a stop can do to a workspace.                *)
(***************************************************************************)
EXTENDS Doctor

CONSTANTS R1, R2, May

MCPeriodOf == [r \in Records |-> May]

MCEdits ==
    {<<Rules, "v2">>, <<Config, "profile">>, <<Config, "model">>,
     <<Corrections, {R1}>>, <<ViewOf(May), Damaged>>}

MCHarm ==
    {<<Rules, Damaged>>, <<Config, "outside">>,
     <<Index, EmptyIndex>>, <<Index, Newer>>, <<Container, Missing>>,
     <<Leftover, "bytes">>, <<Stray, "there">>, <<Corrections, Damaged>>,
     <<Record(R1), Damaged>>, <<Record(R1), Torn>>,
     <<Summary(R1), Damaged>>, <<ViewOf(May), Missing>>}

MCLoosened == {Corrections, Index, Summary(R1), ViewOf(May)}
MCReplaced == {Internal, Rules, Record(R1)}
===============================================================================
