------------------------------- MODULE MCApplet -------------------------------
(* Two network interfaces, of which the service uses the second. *)
EXTENDS Applet

CONSTANTS eth, wifi, empty, text, none

MCInterfaces == <<eth, wifi>>
MCDefaults == [enabled |-> TRUE, interface |-> none, size |-> 1, rules |-> empty]
MCInstalled == [enabled |-> TRUE, interface |-> wifi, size |-> 2, rules |-> text]
MCDisabled == [MCInstalled EXCEPT !.enabled = FALSE]
=============================================================================
