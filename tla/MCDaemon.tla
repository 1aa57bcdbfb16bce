------------------------------ MODULE MCDaemon ------------------------------
(***************************************************************************)
(* An instance of Daemon for TLC: a packet, an announcement and a path     *)
(* request, named by model values.                                         *)
(***************************************************************************)
EXTENDS Daemon

CONSTANTS p1, a1, q1

AllSubjects == {p1, a1, q1}
OnePacket == {p1}
OneAnnouncement == {a1}
OnePathRequest == {q1}
=============================================================================
