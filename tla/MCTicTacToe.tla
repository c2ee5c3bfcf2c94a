----------------------------- MODULE MCTicTacToe -----------------------------
EXTENDS TicTacToe

CONSTANTS u1, u2, u3

SecondUser == {u2}

\* Two rows of two: the smallest board with a win of each player, a draw, and a
\* win by the last move.
SmallBoard == 0..3
TwoLines == {{0, 1}, {2, 3}}
=============================================================================
