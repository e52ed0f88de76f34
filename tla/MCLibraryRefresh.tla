-------------------------- MODULE MCLibraryRefresh --------------------------
(* Small instances of LibraryRefresh for TLC.                              *)
EXTENDS LibraryRefresh, TLC

CONSTANTS a, b, gui, worker, cli, other

\* Sources and processes are interchangeable within their group.
Interchangeable == Permutations({cli, other} \cap Proc)
=============================================================================
