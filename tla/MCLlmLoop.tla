------------------------------ MODULE MCLlmLoop ------------------------------
(* LlmLoop for TLC: one engine node, a pause, a correction, a terminal node. *)
EXTENDS LlmLoop

CONSTANTS research, wait, correct, close

AllNodes      == {research, wait, correct, close}
LocalNodes    == {wait, correct, close}
PauseNodes    == {wait}
CorrectNodes  == {correct}
LastNodes     == {close}
EveryKind     == {{"node_finished", "node_failed"},
                  {"node_started", "node_finished"}}
=============================================================================
