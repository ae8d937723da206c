-------------------------- MODULE MCServerSessions --------------------------
(* ServerSessions with a few threads and connections. *)
EXTENDS ServerSessions, TLC

CONSTANTS o1, o2, o3

MCObjects == {o1, o2, o3}
Symmetric == Permutations(MCObjects)

=============================================================================
