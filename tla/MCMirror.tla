------------------------------ MODULE MCMirror ------------------------------
(* A small instance of Mirror.                                             *)
EXTENDS Mirror

CONSTANTS docs, bob, cy, one, two

\* One at a time: they meet in the tables only.
MCAwake == {{Home}, {Spare}, {Shared}, {Catcher}}

\* No Mac yet, or the two that a copy takes.
MCReported == {{}, {Home, Shared}}
=============================================================================
