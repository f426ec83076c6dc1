-------------------------- MODULE MCPropertiesDialog --------------------------
(* Two logins, two lifetimes of a link, clocks of a few ticks.             *)
EXTENDS PropertiesDialog
=============================================================================
