-------------------------- MODULE MCHiQnetSession --------------------------
(* A small instance of HiQnetSession for TLC. *)
EXTENDS HiQnetSession

\* A login, writes and reads in any order, and a read after a new login, a
\* close, or neither.
MCScript ==
  <<{"connect"}, {"set", "get"}, {"set", "ls", "reconnect", "close"},
    {"get"}>>
=============================================================================
