-------------------------- MODULE MCRequestEvents --------------------------
(* Two requests recorded at once and one window over at most three events, *)
(* with pages of one and two rows, in both orders.                          *)
EXTENDS RequestEvents, TLC

CONSTANTS p1, p2

Query(status, window, limit, oldest) ==
    [status |-> status, window |-> window, limit |-> limit, oldest |-> oldest]

MCQueries ==
    { Query(AnyStatus, 0, 1, FALSE), Query(AnyStatus, 0, 1, TRUE),
      Query(AnyStatus, 1, 1, FALSE), Query("miss", 0, 2, TRUE) }

Symmetry == Permutations({p1, p2})

=============================================================================
