-------------------------- MODULE MCTerminalSessions --------------------------
(* Two page loads of one window, a persistent and a transient terminal. *)
EXTENDS TerminalSessions

CONSTANTS a, t

BothSessions == {a, t}
TransientSessions == {t}
=============================================================================
