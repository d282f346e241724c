-------------------------- MODULE MCExecutorCache --------------------------
(***************************************************************************)
(* Eleven expressions, the limit scaled to 100 and the least complexity    *)
(* for caching to 17:                                                      *)
(*   1, 2  two large local sources,                                        *)
(*   3     their join, 4 a self-join of 3, 5 a projection of 3,            *)
(*   6     the join of 4 and 5: it needs two factorings,                   *)
(*   7     the concatenation of eight 2s: none of its parts is in range,   *)
(*   8     a table whose complexity is exactly the limit,                  *)
(*   9     a projection of 8: its only target is 8,                        *)
(*  10     a wide table: cached, it is as complex as before,               *)
(*  11     a projection of 10: its only target is 10, twice.               *)
(***************************************************************************)
EXTENDS ExecutorCache

Kids ==
    << {}, {}, {<<1, 1>>, <<2, 1>>}, {<<3, 2>>}, {<<3, 1>>}, {<<4, 1>>, <<5, 1>>},
       {<<2, 8>>}, {}, {<<8, 1>>}, {}, {<<10, 1>>} >>

MCCopies ==
    [n \in Nodes |-> [m \in Nodes |->
        IF \E k \in Kids[n] : k[1] = m THEN (CHOOSE k \in Kids[n] : k[1] = m)[2] ELSE 0]]

MCFields == <<1, 1, 1, 1, 1, 1, 1, 1, 1, 24, 24>>
MCVariables == <<1, 2, 0, 0, 1, 0, 0, 10, 1, 25, 1>>
MCOperations == <<1, 1, 1, 1, 1, 1, 1, 10, 1, 3, 1>>
MCJoins == <<0, 0, 1, 1, 0, 1, 0, 0, 0, 0, 0>>
=============================================================================
