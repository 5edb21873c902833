---------------------------- MODULE MCIocpServer ----------------------------
(* Small instances of IocpServer for TLC.                                  *)
EXTENDS IocpServer, TLC

\* Everything a receive may leave in the buffer.
AllChunks == Chunk

\* What arrives when TCP delivers every message of a client whole.
WholeMessages == {ch \in Chunk : ch.good}

Symmetry == Permutations(Socket) \cup Permutations(Conn)
=============================================================================
