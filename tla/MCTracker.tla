----------------------------- MODULE MCTracker -----------------------------
(***************************************************************************)
(* Tracker for TLC.                                                        *)
(***************************************************************************)
EXTENDS Tracker

CONSTANTS a, b, ghost, ipA, ipB, ipGhost

\* Two hosts.
TwoHosts == [c \in {a, b, ghost} |->
               IF c = a THEN ipA ELSE IF c = b THEN ipB ELSE ipGhost]

Once == [c \in {a, b} |-> 1]

BTwice == [c \in {a, b} |-> IF c = b THEN 2 ELSE 1]

CONSTANTS h1, h2

OneHolding == [c \in {a, b} |-> {h1}]

\* b's cache changes.
BChanges == [c \in {a, b} |-> IF c = b THEN {h1, h2} ELSE {h1}]

\* Clients find each other: a learns what b has after b's restart.  See Learns.
Discovery == Learns(<<a, 1>>, <<b, 2>>, h2)

GarbledGhost == {[client |-> ghost, files |-> h1]}

GarbledAny == [client : {a, b, ghost}, files : {h1}]

=============================================================================
