---------------------------- MODULE MCAgentFlow ----------------------------
(* AgentFlow for TLC: a work item of a plain task and one with a mockup. *)
EXTENDS AgentFlow

CONSTANTS t1, t2

TwoIds    == {t1, t2}
OneMockup == {t2}
FewLists  == {<<>>, <<t1>>, <<t1, t2>>, <<t1, t2, t1>>}
PlainList == {<<t1>>}
Variants  == {"v03", "v04", "v05", "v06"}
Manual    == {"v04"}
Nobody    == {}
=============================================================================
