---------------------------- MODULE MCExtensions ----------------------------
(* Instances of Extensions for TLC. *)
EXTENDS Extensions

\* Two versions of different length, one below and one above what TimescaleDB
\* Community needs (18.6).
TwoMinors == {<<18>>, <<18, 10>>}
OneMinor == {<<18, 10>>}
=============================================================================
