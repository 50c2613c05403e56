----------------------------- MODULE MCTailRLines -----------------------------
(* forward()'s RLINES case: rlines() on every non-empty file of up to     *)
(* MaxLen bytes, every line count up to MaxLines and window sizes 1 to 3, *)
(* so that scans cross window edges, then the drain.                      *)
EXTENDS ForwardRLines, TLC

MCWindowSizes == {1, 2, 3}

================================================================================
